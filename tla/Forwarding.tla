------------------------------ MODULE Forwarding ------------------------------
(***************************************************************************)
(* How the gateway gets a request to a backend: the part of                *)
(* ProxyService::handle (gateway/src/proxy.rs) between the routing of a    *)
(* request and its answer, with the state all requests share: the hot      *)
(* routing table, the backends' health, the round-robin counters and the   *)
(* circuit breaker.                                                        *)
(*                                                                         *)
(* Requests are concurrent tasks.  A task runs without interruption        *)
(* between two awaits only in its own view: every access to shared state   *)
(* is one step here, and the awaits (the auth check between Choose and     *)
(* Admit, the backend call after Admit) are where other tasks, the health  *)
(* checker, a reload and the clock get in between.  A response whose body  *)
(* the gateway buffers (for its cache or for compression) is awaited once  *)
(* more, and that await has no timeout.                                    *)
(***************************************************************************)
EXTENDS CircuitBreaker, BackendSelector, FiniteSets

CONSTANTS
  Requests,        \* the requests of the run; each is handled once
  Hosts,           \* hosts the clients ask for
  Backends,        \* backend URLs
  NoBackend,       \* no bypass override / no backend chosen yet
  Tables,          \* routing tables a reload may install
  BackendTimeout,  \* route timeout_secs                     (code: 30)
  RetryTimeout     \* timeout of the single retry            (code: 30)

Routes == {t[h] : t \in Tables, h \in Hosts}

ASSUME ForwardingAssumption ==
  /\ IsFiniteSet(Requests)
  /\ NoBackend \notin Backends
  /\ BackendTimeout \in Nat \ {0}
  /\ RetryTimeout \in Nat \ {0}
  /\ \A t \in Tables : \A h \in Hosts :
       /\ t[h].backends \in Seq(Backends)
       /\ t[h].weights \in Seq(Nat)
       /\ t[h].bypass \in Backends \cup {NoBackend}

VARIABLES
  routing,    \* hot.routing: the table installed by the last reload
  health,     \* BackendSelector.health
  counters,   \* BackendSelector.counters
  circuit,    \* CircuitBreaker.backends
  pc,         \* where each request's task is
  host,       \* the host the request asks for
  idem,       \* is_idempotent: GET, HEAD or OPTIONS
  route,      \* the route of the table the task loaded
  backend,    \* backend_url
  elapsed,    \* time since the current attempt was sent
  probe,      \* was the attempt admitted through a half-open circuit
  reply,      \* the answer of the gateway
  first,      \* history: requests whose first attempt the circuit counts
  second      \* history: requests whose retry the circuit counts

selector == <<health, counters>>
locals == <<host, idem, route, backend, elapsed, probe>>
charges == <<circuit, first, second>>
vars == <<routing, selector, charges, pc, locals, reply>>

NoRoute == [backends |-> <<>>, weights |-> <<>>, bypass |-> NoBackend]
AnyTimeout == IF BackendTimeout > RetryTimeout THEN BackendTimeout ELSE RetryTimeout
Statuses == {"ok", "server_error"}   \* of the backend: below 500, or 5xx
Replies == Statuses \cup {"none", "bad_request", "early", "circuit_open",
                          "bad_gateway", "gateway_timeout", "cancelled"}

(* Every variable has the shape the code's types give it. *)
TypeOK ==
  /\ routing \in Tables
  /\ health \in [Backends -> BOOLEAN]
  /\ counters \in [Hosts -> 0 .. CounterModulus - 1]
  /\ circuit \in [Backends -> CircuitState]
  /\ pc \in [Requests -> {"idle", "routed", "selected", "sent", "retry", "body", "done"}]
  /\ host \in [Requests -> Hosts]
  /\ idem \in [Requests -> BOOLEAN]
  /\ route \in [Requests -> Routes \cup {NoRoute}]
  /\ backend \in [Requests -> Backends \cup {NoBackend}]
  /\ elapsed \in [Requests -> 0 .. AnyTimeout]
  /\ probe \in [Requests -> BOOLEAN]
  /\ reply \in [Requests -> Replies]
  /\ first \in [Backends -> SUBSET Requests]
  /\ second \in [Backends -> SUBSET Requests]

Init ==
  /\ routing \in Tables
  /\ health = [b \in Backends |-> TRUE]
  /\ counters = [h \in Hosts |-> 0]
  /\ circuit = [b \in Backends |-> Untracked]
  /\ pc = [r \in Requests |-> "idle"]
  /\ host \in [Requests -> Hosts]
  /\ idem \in [Requests -> BOOLEAN]
  /\ route = [r \in Requests |-> NoRoute]
  /\ backend = [r \in Requests |-> NoBackend]
  /\ elapsed = [r \in Requests |-> 0]
  /\ probe = [r \in Requests |-> FALSE]
  /\ reply = [r \in Requests |-> "none"]
  /\ first = [b \in Backends |-> {}]
  /\ second = [b \in Backends |-> {}]

Goto(r, from, to) == pc[r] = from /\ pc' = [pc EXCEPT ![r] = to]

(* The answer is settled, and the task is done with the routing of r. *)
Settle(r, to, what) ==
  /\ pc' = [pc EXCEPT ![r] = to]
  /\ reply' = [reply EXCEPT ![r] = what]
  /\ route' = [route EXCEPT ![r] = NoRoute]
  /\ backend' = [backend EXCEPT ![r] = NoBackend]
  /\ elapsed' = [elapsed EXCEPT ![r] = 0]
  /\ probe' = [probe EXCEPT ![r] = FALSE]
  /\ UNCHANGED <<host, idem>>

(* The handler returns and the answer goes out. *)
Answer(r, what) == Settle(r, "done", what)

-------------------------------------------------------------------------------
(* The handler's steps.                                                    *)

(* handle loads the hot state once; the request keeps this snapshot. *)
Receive(r) ==
  /\ Goto(r, "idle", "routed")
  /\ route' = [route EXCEPT ![r] = routing[host[r]]]
  /\ UNCHANGED <<routing, selector, charges, host, idem, backend, elapsed,
                 probe, reply>>

(* RoutingResolver: unknown host, or a route without backends. *)
NoRouteTarget(r) ==
  /\ pc[r] = "routed"
  /\ route[r].backends = <<>>
  /\ Answer(r, "bad_request")
  /\ UNCHANGED <<routing, selector, charges>>

(* Mutant: the handler consults the current table a second time. *)
ChooseReloaded(r) ==
  /\ Goto(r, "routed", "selected")
  /\ routing[host[r]].backends # <<>>
  /\ \E pick \in Select(routing[host[r]], health, counters[host[r]]) :
       /\ counters' = [counters EXCEPT ![host[r]] = pick[2]]
       /\ backend' = [backend EXCEPT ![r] = pick[1]]
  /\ UNCHANGED <<routing, health, charges, host, idem, route, elapsed, probe, reply>>

(* select under its locks, then the override of a matching bypass path. *)
Choose(r) ==
  /\ Goto(r, "routed", "selected")
  /\ route[r].backends # <<>>
  /\ \E pick \in Select(route[r], health, counters[host[r]]), match \in BOOLEAN :
       /\ counters' = [counters EXCEPT ![host[r]] = pick[2]]
       /\ backend' = [backend EXCEPT ![r] =
                        IF match /\ route[r].bypass # NoBackend
                        THEN route[r].bypass ELSE pick[1]]
  /\ UNCHANGED <<routing, health, charges, host, idem, route, elapsed, probe, reply>>

(* Auth, role, plugin or geo refusal, or a cache hit: answered before the  *)
(* backend is involved.                                                    *)
AnswerEarly(r) ==
  /\ pc[r] = "selected"
  /\ Answer(r, "early")
  /\ UNCHANGED <<routing, selector, charges>>

(* The circuit breaker refuses the backend: 503. *)
ShortCircuit(r) ==
  /\ pc[r] = "selected"
  /\ ~IsAvailable(circuit, backend[r])
  /\ Answer(r, "circuit_open")
  /\ UNCHANGED <<routing, selector, charges>>

(* The outgoing request cannot be built: 502, charged to nobody. *)
Unbuildable(r) ==
  /\ pc[r] = "selected"
  /\ IsAvailable(circuit, backend[r])
  /\ Answer(r, "bad_gateway")
  /\ UNCHANGED <<routing, selector, charges>>

(* The circuit breaker lets the request through and it is sent. *)
Admit(r) ==
  /\ Goto(r, "selected", "sent")
  /\ IsAvailable(circuit, backend[r])
  /\ elapsed' = [elapsed EXCEPT ![r] = 0]
  /\ probe' = [probe EXCEPT ![r] = StateOf(circuit, backend[r]) = "half-open"]
  /\ UNCHANGED <<routing, selector, charges, host, idem, route, backend, reply>>

(* The head of an HTTP response: whatever its status, it is a success of   *)
(* the backend.  The handler then returns it with its body streaming, or   *)
(* waits for the whole body.                                               *)
Respond(r) ==
  /\ pc[r] \in {"sent", "retry"}
  /\ circuit' = RecordSuccess(circuit, backend[r])
  /\ first' = [first EXCEPT ![backend[r]] = {}]
  /\ second' = [second EXCEPT ![backend[r]] = {}]
  /\ \E status \in Statuses, to \in {"body", "done"} : Settle(r, to, status)
  /\ UNCHANGED <<routing, selector>>

(* The buffered body has ended.  One that broke off is answered with 502,  *)
(* or with an empty body where it was being compressed.                    *)
BodyEnds(r) ==
  /\ pc[r] = "body"
  /\ \E what \in {reply[r], "bad_gateway"} : Answer(r, what)
  /\ UNCHANGED <<routing, selector, charges>>

(* One failed attempt is charged to the circuit of its backend. *)
Charge(r) ==
  /\ circuit' = RecordFailure(circuit, backend[r])
  /\ first' = IF pc[r] = "sent"
              THEN [first EXCEPT ![backend[r]] = @ \cup {r}] ELSE first
  /\ second' = IF pc[r] = "retry"
               THEN [second EXCEPT ![backend[r]] = @ \cup {r}] ELSE second

(* A connection error of an idempotent first attempt: charge and resend,   *)
(* to the same backend and without asking the circuit again.               *)
Retry(r) ==
  /\ Goto(r, "sent", "retry")
  /\ idem[r]
  /\ Charge(r)
  /\ elapsed' = [elapsed EXCEPT ![r] = 0]
  /\ UNCHANGED <<routing, selector, host, idem, route, backend, probe, reply>>

(* A connection error that ends the request: 502. *)
Fail(r) ==
  /\ pc[r] = "retry" \/ (pc[r] = "sent" /\ ~idem[r])
  /\ Charge(r)
  /\ Answer(r, "bad_gateway")
  /\ UNCHANGED <<routing, selector>>


(* The deadline of the current attempt has passed. *)
Expired(r) ==
  \/ pc[r] = "sent" /\ elapsed[r] >= BackendTimeout
  \/ pc[r] = "retry" /\ elapsed[r] >= RetryTimeout

(* tokio::time::timeout fires: charged, answered 504 and never retried. *)
TimeOut(r) ==
  /\ Expired(r)
  /\ Charge(r)
  /\ Answer(r, "gateway_timeout")
  /\ UNCHANGED <<routing, selector>>

(* The client goes away: hyper drops the handler at its current await, and *)
(* neither a success nor a failure is recorded.                            *)
Cancel(r) ==
  /\ pc[r] \in {"selected", "sent", "retry", "body"}
  /\ Answer(r, "cancelled")
  /\ UNCHANGED <<routing, selector, charges>>

-------------------------------------------------------------------------------
(* The rest of the gateway.                                                *)

(* POST /admin/backends/{id}/reset *)
AdminReset(b) ==
  /\ circuit' = ResetCircuit(circuit, b)
  /\ first' = [first EXCEPT ![b] = {}]
  /\ second' = [second EXCEPT ![b] = {}]
  /\ UNCHANGED <<routing, selector, pc, locals, reply>>

(* set_health, called by the health checker (module HealthChecker). *)
SetHealth(b, alive) ==
  /\ health' = [health EXCEPT ![b] = alive]
  /\ UNCHANGED <<routing, counters, charges, pc, locals, reply>>

(* hot.store: SIGHUP, the admin API or a config source swaps the table. *)
Reload(t) ==
  /\ routing' = t
  /\ UNCHANGED <<selector, charges, pc, locals, reply>>

(* A second passes.  Timers may fire late: nothing stops the clock at a    *)
(* deadline.                                                               *)
Tick ==
  /\ circuit' = Age(circuit)
  /\ elapsed' = [r \in Requests |->
                   IF pc[r] \in {"sent", "retry"} /\ elapsed[r] < AnyTimeout
                   THEN elapsed[r] + 1 ELSE elapsed[r]]
  /\ UNCHANGED <<routing, selector, first, second, pc, host, idem, route,
                 backend, probe, reply>>

(* One step of the task that handles r. *)
Handle(r) ==
  \/ Receive(r) \/ NoRouteTarget(r) \/ Choose(r) \/ AnswerEarly(r)
  \/ ShortCircuit(r) \/ Unbuildable(r) \/ Admit(r) \/ Respond(r)
  \/ BodyEnds(r) \/ Retry(r) \/ Fail(r) \/ TimeOut(r) \/ Cancel(r)

Next ==
  \/ \E r \in Requests : Handle(r)
  \/ \E b \in Backends : AdminReset(b)
  \/ \E b \in Backends, alive \in BOOLEAN : SetHealth(b, alive)
  \/ \E t \in Tables : Reload(t)
  \/ Tick

Spec == Init /\ [][Next]_vars

(***************************************************************************)
(* The clock advances; a task that can run is eventually scheduled (the    *)
(* auth call before the circuit check has a timeout of its own); a timer   *)
(* that is due eventually fires.  Nothing is assumed about the backends    *)
(* (a body may never end), the clients or the operators.                   *)
(***************************************************************************)
Fairness ==
  /\ WF_vars(Tick)
  /\ \A r \in Requests :
       WF_vars(NoRouteTarget(r) \/ Choose(r) \/ ShortCircuit(r) \/ Admit(r) \/ TimeOut(r))

FairSpec == Spec /\ Fairness

-------------------------------------------------------------------------------
(* Properties.                                                             *)

InFlight(r) == pc[r] \in {"selected", "sent", "retry"}
Charged(b) == first[b] \cup second[b]

(***************************************************************************)
(* The open flag and the failure count of a circuit never disagree: the    *)
(* flag is set exactly while the count is at the threshold or beyond,      *)
(* whatever the order of late answers, retries, timeouts and resets.       *)
(***************************************************************************)
OpenIffThreshold ==
  \A b \in Backends : circuit[b].open <=> circuit[b].failures >= Threshold

(***************************************************************************)
(* The circuit counts every attempt that ended without an HTTP response    *)
(* since the last response, of any status, or reset of its backend once,   *)
(* and nothing else.                                                       *)
(***************************************************************************)
FailuresAccounted ==
  \A b \in Backends :
    circuit[b].failures = Cardinality(first[b]) + Cardinality(second[b])

(***************************************************************************)
(* A circuit opens only on the evidence of several requests: each one is   *)
(* charged at most twice (attempt and retry), so an open circuit has at    *)
(* least Threshold / 2 distinct requests behind it.  With the code's       *)
(* threshold of 5 no one or two requests take a backend out.               *)
(***************************************************************************)
NoFewRequestsTrip ==
  \A b \in Backends :
    circuit[b].open => 2 * Cardinality(Charged(b)) >= Threshold

(***************************************************************************)
(* A request is served by a backend of the routing table it started with,  *)
(* even when reloads swap the table at any point of its handling.          *)
(***************************************************************************)
BackendOfSnapshot ==
  \A r \in Requests : InFlight(r) =>
    \/ backend[r] \in {route[r].backends[i] : i \in DOMAIN route[r].backends}
    \/ backend[r] = route[r].bypass

(***************************************************************************)
(* select returns a dead backend only when it had no choice: a single      *)
(* backend, no healthy one, or the override of a bypass path.              *)
(***************************************************************************)
DeadOnlyWithoutChoice ==
  [][\A r \in Requests :
       (pc[r] = "routed" /\ pc'[r] = "selected") =>
         LET bs == route[r].backends
         IN \/ Len(bs) = 1
            \/ backend'[r] = route[r].bypass
            \/ health[backend'[r]]
            \/ \A i \in DOMAIN bs : ~health[bs[i]]]_vars

(* The counters that successive selections of a host from its route start  *)
(* at, when the first one starts at c.                                     *)
Rotation(rt, c, from) ==
  /\ from[0] = c
  /\ \A k \in 1 .. Len(rt.backends) : from[k] = RoundRobin(rt, health, from[k - 1])[2]

(***************************************************************************)
(* No healthy backend starves: from wherever the counter of a host has     *)
(* got to, with whatever health the checker reported, as many successive   *)
(* round-robin selections as the route has backends reach all its healthy  *)
(* backends.                                                               *)
(***************************************************************************)
NoStarvedBackend ==
  \A h \in Hosts :
    LET rt == routing[h]
        n  == Len(rt.backends)
    IN \A from \in [0 .. n -> 0 .. CounterModulus - 1] :
         (n > 1 /\ Rotation(rt, counters[h], from)) =>
           \A i \in 1 .. n : health[rt.backends[i]] =>
             \E k \in 0 .. n - 1 : RoundRobin(rt, health, from[k])[1] = rt.backends[i]

(***************************************************************************)
(* A failure charged to a half-open circuit blocks the backend again, for  *)
(* a whole recovery period, also when it is the failure of a request that  *)
(* was sent long before the circuit opened.                                *)
(***************************************************************************)
FailureReblocks ==
  [][\A b \in Backends :
       (StateOf(circuit, b) = "half-open" /\ circuit'[b].failures > circuit[b].failures)
         => (StateOf(circuit, b)' = "open" /\ circuit'[b].elapsed = 0)]_vars

(***************************************************************************)
(* Every request that reached the router gets the head of a response or an *)
(* answer of the gateway (or is dropped by its client), although the       *)
(* backend may never respond: both attempts are under a timeout.  The body *)
(* that may follow the head is not: a backend that stalls in it keeps the  *)
(* handler waiting.                                                        *)
(***************************************************************************)
EventuallyAnswered ==
  \A r \in Requests : pc[r] = "routed" ~> pc[r] \in {"body", "done"}

(***************************************************************************)
(* A circuit that shuts a backend out lets requests through again, with no *)
(* operator's help.                                                        *)
(***************************************************************************)
EventuallyAvailable ==
  \A b \in Backends : ~IsAvailable(circuit, b) ~> IsAvailable(circuit, b)

(***************************************************************************)
(* spec/SPEC.md and the comment in is_available: after the cool-down       *)
(* exactly one probe request is allowed.                                   *)
(***************************************************************************)
AtMostOneProbe ==
  \A b \in Backends :
    Cardinality({r \in Requests : InFlight(r) /\ probe[r] /\ backend[r] = b}) <= 1

(***************************************************************************)
(* spec/SPEC.md: the "failure counter increments on 5xx or timeout".       *)
(***************************************************************************)
ServerErrorsCount ==
  [][\A r \in Requests :
       (reply[r] = "none" /\ reply'[r] = "server_error") =>
         circuit'[backend[r]].failures > circuit[backend[r]].failures]_vars

(***************************************************************************)
(* What a circuit says of its backend is what happened: its flag, its      *)
(* count and the requests behind them agree at every moment.               *)
(***************************************************************************)
BreakerExact == OpenIffThreshold /\ FailuresAccounted /\ NoFewRequestsTrip

(***************************************************************************)
(* What a step of the router may never do: choose a dead backend beside a  *)
(* live one, or leave a half-open circuit open for traffic on a failure.   *)
(***************************************************************************)
RoutingDiscipline == DeadOnlyWithoutChoice /\ FailureReblocks

===============================================================================
