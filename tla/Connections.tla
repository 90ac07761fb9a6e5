---------------------------- MODULE Connections ----------------------------
(***************************************************************************)
(* The life of the gateway's connections (gateway/src/main.rs, tls.rs,     *)
(* websocket.rs): the plain accept loop with its drain, its semaphore and  *)
(* the shared in-flight counter; the TLS listener, which shares the        *)
(* counter and knows nothing of the drain; and WebSocket upgrades, whose   *)
(* tunnels run in tasks of their own after the connection is handed over.  *)
(***************************************************************************)
EXTENDS Integers, FiniteSets, Sequences

CONSTANTS
    Conns,            \* client connections
    MaxConcurrent,    \* permits of the semaphore (10_000 in main.rs)
    MaxWs,            \* MAX_WS_CONNECTIONS
    DrainTicks,       \* server.drain_timeout_secs
    MaxTunnels        \* bound: tunnel tasks alive at once

ASSUME ConnectionsAssumption ==
    /\ IsFiniteSet(Conns)
    /\ MaxConcurrent \in Nat /\ MaxWs \in Nat /\ DrainTicks \in Nat /\ MaxTunnels \in Nat

VARIABLES
    shutdown,    \* the drain flag (SIGTERM, Ctrl+C, POST /admin/drain)
    acceptLoop,  \* "check" | "accept" | "exited": where main's loop stands
    drainLeft,   \* ticks to the drain deadline; -1 before it is set
    inFlight,    \* the shared counter of connections
    permits,     \* free permits of the semaphore
    conn,        \* conn[c] \in {"out", "plain", "handshake", "tls"}
    dialing,     \* connections with a WebSocket handshake under way
    wsOpen,      \* WS_CONNECTIONS
    tunnels,     \* tunnel tasks alive
    late,        \* history: plain connections accepted after the flag was set
    dialPeak     \* history: the most handshakes ever under way at once

connVars == <<shutdown, acceptLoop, drainLeft, inFlight, permits, conn, dialing,
              wsOpen, tunnels, late, dialPeak>>
wsVars == <<dialing, wsOpen, tunnels, dialPeak>>

Running == acceptLoop # "exited"
OpenConns == {c \in Conns : conn[c] # "out"}

ConnInit ==
    /\ shutdown = FALSE
    /\ acceptLoop = "check"
    /\ drainLeft = -1
    /\ inFlight = 0
    /\ permits = MaxConcurrent
    /\ conn = [c \in Conns |-> "out"]
    /\ dialing = {}
    /\ wsOpen = 0 /\ tunnels = 0 /\ late = 0 /\ dialPeak = 0

----------------------------------------------------------------------------
(* The drain.                                                              *)

ShouldAcceptNew(draining) == ~draining

(* A signal, or POST /admin/drain: the flag is set and never cleared.       *)
RequestShutdown ==
    /\ Running /\ ~shutdown
    /\ shutdown' = TRUE
    /\ UNCHANGED <<acceptLoop, drainLeft, inFlight, permits, conn, wsVars, late>>

(* Mutant: every turn of the loop sets the deadline. *)
DeadlineAnew == DrainTicks

(* get_or_insert: the deadline is set once, on the first turn that drains.  *)
Deadline == IF drainLeft = -1 THEN DrainTicks ELSE drainLeft

(* The head of the loop: go on accepting, wait for the drain, or leave.     *)
LoopCheck ==
    /\ acceptLoop = "check"
    /\ IF ShouldAcceptNew(shutdown)
       THEN acceptLoop' = "accept" /\ UNCHANGED drainLeft
       ELSE /\ drainLeft' = Deadline
            /\ acceptLoop' = IF inFlight = 0 \/ drainLeft' = 0 THEN "exited" ELSE "check"
    /\ UNCHANGED <<shutdown, inFlight, permits, conn, wsVars, late>>

DrainTick ==
    /\ Running /\ drainLeft > 0
    /\ drainLeft' = drainLeft - 1
    /\ UNCHANGED <<shutdown, acceptLoop, inFlight, permits, conn, wsVars, late>>

----------------------------------------------------------------------------
(* The listeners.                                                          *)

TakePlain(c) ==
    /\ acceptLoop = "accept" /\ conn[c] = "out" /\ permits > 0
    /\ conn' = [conn EXCEPT ![c] = "plain"]
    /\ permits' = permits - 1
    /\ inFlight' = inFlight + 1
    /\ late' = IF shutdown THEN late + 1 ELSE late
    /\ UNCHANGED <<shutdown, drainLeft, wsVars>>

(* Mutant: an inner loop accepts without a look at the flag. *)
AcceptKeepsAccepting(c) == TakePlain(c) /\ UNCHANGED acceptLoop

(* accept() came back with a connection and a permit was free.              *)
AcceptPlain(c) == TakePlain(c) /\ acceptLoop' = "check"

(* The 250 ms ran out, accept failed, or the connection found no permit and *)
(* is dropped: back to the head of the loop.                                *)
AcceptNothing ==
    /\ acceptLoop = "accept"
    /\ acceptLoop' = "check"
    /\ UNCHANGED <<shutdown, drainLeft, inFlight, permits, conn, wsVars, late>>

(* serve_tls accepts for as long as the process lives.                      *)
AcceptTls(c) ==
    /\ Running /\ conn[c] = "out"
    /\ conn' = [conn EXCEPT ![c] = "handshake"]
    /\ inFlight' = inFlight + 1
    /\ UNCHANGED <<shutdown, acceptLoop, drainLeft, permits, wsVars, late>>

TlsEstablished(c) ==
    /\ Running /\ conn[c] = "handshake"
    /\ conn' = [conn EXCEPT ![c] = "tls"]
    /\ UNCHANGED <<shutdown, acceptLoop, drainLeft, inFlight, permits, wsVars, late>>

(* Mutant: the early return of a failed handshake does not count down. *)
TlsRefusedUncounted(c) ==
    /\ Running /\ conn[c] = "handshake"
    /\ conn' = [conn EXCEPT ![c] = "out"]
    /\ UNCHANGED <<shutdown, acceptLoop, drainLeft, inFlight, permits, wsVars, late>>

TlsRefused(c) ==
    /\ Running /\ conn[c] = "handshake"
    /\ conn' = [conn EXCEPT ![c] = "out"]
    /\ inFlight' = inFlight - 1
    /\ UNCHANGED <<shutdown, acceptLoop, drainLeft, permits, wsVars, late>>

(* The connection task ends; a handshake of its own goes with it. A plain   *)
(* connection gives back its permit.                                        *)
CloseConn(c) ==
    /\ Running /\ conn[c] \in {"plain", "tls"}
    /\ conn' = [conn EXCEPT ![c] = "out"]
    /\ permits' = IF conn[c] = "plain" THEN permits + 1 ELSE permits
    /\ inFlight' = inFlight - 1
    /\ dialing' = dialing \ {c}
    /\ UNCHANGED <<shutdown, acceptLoop, drainLeft, wsOpen, tunnels, dialPeak, late>>

----------------------------------------------------------------------------
(* WebSockets.                                                             *)

Dial(c) ==
    /\ Running /\ conn[c] \in {"plain", "tls"} /\ c \notin dialing
    /\ dialing' = dialing \union {c}
    /\ dialPeak' = IF Cardinality(dialing') > dialPeak THEN Cardinality(dialing') ELSE dialPeak
    /\ UNCHANGED <<shutdown, acceptLoop, drainLeft, inFlight, permits, conn, wsOpen, tunnels, late>>

(* Mutant: the limit is off by one. *)
WsBeginOffByOne(c) == wsOpen <= MaxWs /\ Dial(c)

(* The limit is read here; the request then waits for the auth server and   *)
(* the backend.                                                             *)
WsBegin(c) == wsOpen < MaxWs /\ Dial(c)

(* Refused by auth or by the backend, or its 10 s ran out.                  *)
WsRejected(c) ==
    /\ Running /\ c \in dialing
    /\ dialing' = dialing \ {c}
    /\ UNCHANGED <<shutdown, acceptLoop, drainLeft, inFlight, permits, conn, wsOpen, tunnels, dialPeak, late>>

(* 101 from the backend: count it and spawn the tunnel task.                *)
WsOpened(c) ==
    /\ Running /\ c \in dialing /\ tunnels < MaxTunnels
    /\ dialing' = dialing \ {c}
    /\ wsOpen' = wsOpen + 1
    /\ tunnels' = tunnels + 1
    /\ UNCHANGED <<shutdown, acceptLoop, drainLeft, inFlight, permits, conn, dialPeak, late>>

(* The tunnel ends, or one of its two upgrades failed: WsGuard is dropped.  *)
TunnelEnds ==
    /\ Running /\ tunnels > 0
    /\ tunnels' = tunnels - 1
    /\ wsOpen' = wsOpen - 1
    /\ UNCHANGED <<shutdown, acceptLoop, drainLeft, inFlight, permits, conn, dialing, dialPeak, late>>

ConnNext ==
    \/ RequestShutdown \/ LoopCheck \/ DrainTick \/ AcceptNothing \/ TunnelEnds
    \/ \E c \in Conns :
        \/ AcceptPlain(c) \/ AcceptTls(c) \/ TlsEstablished(c) \/ TlsRefused(c)
        \/ CloseConn(c) \/ WsBegin(c) \/ WsRejected(c) \/ WsOpened(c)

----------------------------------------------------------------------------
(* Every connection is counted exactly once and gives back what it took,    *)
(* however it ends - closed, TLS handshake failed, upgraded: the in-flight  *)
(* counter, the semaphore and WS_CONNECTIONS agree with what is open.       *)
CountsExact ==
    /\ inFlight = Cardinality(OpenConns)
    /\ permits = MaxConcurrent - Cardinality({c \in Conns : conn[c] = "plain"})
    /\ wsOpen = tunnels

(* The WebSocket limit is checked before the handshakes with the auth       *)
(* server and the backend and counted after them, so it can be exceeded;    *)
(* never by more than the handshakes that were under way together.          *)
WsOvershootBounded == wsOpen > 0 => wsOpen <= MaxWs - 1 + dialPeak

(* A connection that accept() was waiting for when the drain was requested  *)
(* may still be taken; a second one is not.                                 *)
AtMostOneLateAccept == late <= 1

(* A requested drain ends: the deadline is set once, and connections that   *)
(* stay open or keep arriving at the TLS listener cannot prolong it.        *)
DrainEnds == []<>(shutdown => acceptLoop = "exited")

(***************************************************************************)
(* The gauges tell the truth and the limits hold as closely as the code    *)
(* can keep them while connections come, end and upgrade at once.          *)
(***************************************************************************)
ConnectionsSound == CountsExact /\ WsOvershootBounded /\ AtMostOneLateAccept

----------------------------------------------------------------------------
(***************************************************************************)
(* The L4/UDP proxy (gateway/src/l4_proxy.rs, serve_udp). One socket       *)
(* serves the clients and the backend, and one task alternates between     *)
(* taking a question and waiting, at most five seconds, for its answer;    *)
(* whatever datagram comes in during that wait is taken for the answer.    *)
(***************************************************************************)
CONSTANTS
    UdpClients,    \* sources that send a question
    UdpAllowed,    \* the sources of ip_allowlist (all of them when it is absent)
    UdpBackend     \* the backend's address

NoOne == "none"

ASSUME UdpAssumption == UdpBackend \notin UdpClients /\ NoOne \notin UdpClients

VARIABLES
    datagrams,   \* received and not yet read: [src, kind, of]
    waitingFor,  \* the source an answer is awaited for, or NoOne
    atBackend,   \* questions the backend has not answered yet
    asked,       \* clients that sent their question
    handed,      \* history: what was sent to whom as an answer
    overlapped   \* history: two questions met, or an answer was given up

udpVars == <<datagrams, waitingFor, atBackend, asked, handed, overlapped>>

UdpInit ==
    /\ datagrams = <<>> /\ waitingFor = NoOne /\ atBackend = {} /\ asked = {}
    /\ handed = {} /\ overlapped = FALSE

IpAllowed(src) == src \in UdpAllowed

(* A client sends its question. *)
UdpAsk(c) ==
    /\ c \notin asked
    /\ asked' = asked \union {c}
    /\ datagrams' = Append(datagrams, [src |-> c, kind |-> "ask", of |-> c])
    /\ overlapped' = (overlapped \/ waitingFor # NoOne \/ datagrams # <<>>)
    /\ UNCHANGED <<waitingFor, atBackend, handed>>

(* The backend answers a question, at any later time, or never. *)
UdpBackendAnswers(c) ==
    /\ c \in atBackend
    /\ atBackend' = atBackend \ {c}
    /\ datagrams' = Append(datagrams, [src |-> UdpBackend, kind |-> "answer", of |-> c])
    /\ UNCHANGED <<waitingFor, asked, handed, overlapped>>

(* Mutant: the datagram is forwarded before its source is looked at. *)
UdpForwardUnchecked ==
    /\ waitingFor = NoOne /\ datagrams # <<>>
    /\ datagrams' = Tail(datagrams)
    /\ waitingFor' = Head(datagrams).src
    /\ atBackend' = atBackend \union
         (IF Head(datagrams).kind = "ask" THEN {Head(datagrams).of} ELSE {})
    /\ UNCHANGED <<asked, handed, overlapped>>

(* The outer recv_from: an allowed datagram goes to the backend, its own    *)
(* late answers included (the backend makes nothing of those).              *)
UdpForward == datagrams # <<>> /\ IpAllowed(Head(datagrams).src) /\ UdpForwardUnchecked

(* Not allowed, or the send to the backend failed: on to the next datagram. *)
UdpDrop ==
    /\ waitingFor = NoOne /\ datagrams # <<>>
    /\ datagrams' = Tail(datagrams)
    /\ UNCHANGED <<waitingFor, atBackend, asked, handed, overlapped>>

HandBack(d) ==
    /\ waitingFor # NoOne /\ datagrams # <<>>
    /\ datagrams' = Tail(datagrams)
    /\ handed' = handed \union {[to |-> waitingFor, kind |-> d.kind, of |-> d.of]}
    /\ waitingFor' = NoOne
    /\ UNCHANGED <<atBackend, asked, overlapped>>

(* Mutant: the buffer still holds the question. *)
UdpEcho == HandBack([kind |-> "ask", of |-> waitingFor])

(* The inner recv_from: the next datagram, whoever sent it. *)
UdpAnswer == datagrams # <<>> /\ HandBack(Head(datagrams))

(* Five seconds without a datagram. *)
UdpGiveUp ==
    /\ waitingFor # NoOne /\ datagrams = <<>>
    /\ waitingFor' = NoOne
    /\ overlapped' = TRUE
    /\ UNCHANGED <<datagrams, atBackend, asked, handed>>

UdpNext ==
    \/ UdpForward \/ UdpDrop \/ UdpAnswer \/ UdpGiveUp
    \/ \E c \in UdpClients : UdpAsk(c) \/ UdpBackendAnswers(c)

----------------------------------------------------------------------------
(* Only sources of the allowlist are ever sent an answer.                   *)
OnlyAllowedAnswered == \A h \in handed : IpAllowed(h.to)

(* The relay does not tell datagrams apart; clients that wait for one       *)
(* another, with no answer given up before, all get the answer to their own *)
(* question. (Once two questions overlap or an answer is late this is lost, *)
(* and every later answer may go to the wrong client.)                      *)
PairedWhenSerial ==
    ~overlapped => \A h \in handed : h.kind = "answer" /\ h.of = h.to

(***************************************************************************)
(* An answer of the backend goes to a client it may go to, and to the      *)
(* right one while requests do not overlap.                                *)
(***************************************************************************)
RelaySound == OnlyAllowedAnswered /\ PairedWhenSerial
=============================================================================
