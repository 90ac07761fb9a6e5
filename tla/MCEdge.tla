------------------------------- MODULE MCEdge -------------------------------
(***************************************************************************)
(* The long-running machinery of the two servers, on small instances: the  *)
(* tasks that run beside the requests and share state with them.  The      *)
(* parts share nothing with each other, so a behaviour exercises one area, *)
(* picked at the start, and the others stay where they began: the run      *)
(* checks each part on its own and not the product of them.                *)
(***************************************************************************)
EXTENDS RateLimiter, ResponseCache, Discovery, WebhookOutbox, Connections, GatewayAuth

CONSTANTS i1, k1, b1, b2

VARIABLE area   \* the part this behaviour is about

Areas == {"rate", "cache", "discovery", "health", "webhook", "connections", "auth", "udp"}

(* A service with one backend that gets a second one, loses the first and  *)
(* is deleted.                                                             *)
MCListed == [v \in 0 .. MaxEdits |->
  CASE v = 0 -> {b1} [] v = 1 -> {b1, b2} [] v = 2 -> {b2} [] OTHER -> {}]

EdgeInit ==
  /\ area \in Areas
  /\ RateInit /\ (area = "rate" \/ ip = [r \in Callers |-> i1])
  /\ Init /\ (area = "cache" \/ (key = [r \in Requests |-> k1] /\ creds = [r \in Requests |-> FALSE]))
  /\ DiscoveryInit /\ (area = "health" \/ up = [b \in Backends |-> TRUE])
  /\ WebhookInit /\ ConnInit /\ GatewayAuthInit /\ UdpInit

In(a, A) == area = a /\ A /\ UNCHANGED area

EdgeNext ==
  \/ /\ In("rate", RateNext)
     /\ UNCHANGED <<vars, discoveryVars, webhookVars, connVars, gatewayAuthVars, udpVars>>
  \/ /\ In("cache", Next)
     /\ UNCHANGED <<rateVars, discoveryVars, webhookVars, connVars, gatewayAuthVars, udpVars>>
  \/ /\ In("discovery", DiscoveryNext) /\ UNCHANGED checker
     /\ UNCHANGED <<rateVars, vars, webhookVars, connVars, gatewayAuthVars, udpVars>>
  \/ /\ In("health", DiscoveryNext) /\ UNCHANGED rebuild
     /\ UNCHANGED <<rateVars, vars, webhookVars, connVars, gatewayAuthVars, udpVars>>
  \/ /\ In("webhook", WebhookNext)
     /\ UNCHANGED <<rateVars, vars, discoveryVars, connVars, gatewayAuthVars, udpVars>>
  \/ /\ In("connections", ConnNext)
     /\ UNCHANGED <<rateVars, vars, discoveryVars, webhookVars, gatewayAuthVars, udpVars>>
  \/ /\ In("auth", GatewayAuthNext)
     /\ UNCHANGED <<rateVars, vars, discoveryVars, webhookVars, connVars, udpVars>>
  \/ /\ In("udp", UdpNext)
     /\ UNCHANGED <<rateVars, vars, discoveryVars, webhookVars, connVars, gatewayAuthVars>>

(* Time passes, and a request that has begun its checks ends them. *)
RateFairness ==
  /\ WF_rateVars(In("rate", RateTick))
  /\ \A r \in Callers : WF_rateVars(In("rate", CheckIp(r)))

(* Time passes, and a hit is returned. *)
CacheFairness ==
  /\ WF_vars(In("cache", Tick))
  /\ \A r \in Requests : WF_vars(In("cache", ReturnHit(r)))

(* The tasks loop forever; whoever begins a rebuild or to write the file   *)
(* ends it.                                                                *)
DiscoveryFairness ==
  /\ \A a \in {"discovery", "health"} :
       /\ WF_tasks(In(a, LookAtFile))
       /\ WF_tasks(In(a, SendRoutes))
       /\ WF_tasks(In(a, Merge \/ StoreMerged))
       /\ WF_tasks(In(a, EndWrite))
  /\ WF_tasks(In("discovery", EndRebuild))
  /\ WF_tasks(In("health", CheckHealth))

(* The poll loop of a worker that is alive never stops. *)
WebhookFairness ==
  \A w \in Workers : WF_webhookVars(In("webhook", WorkerStep(w)))

(* The accept loop is scheduled, accept() gives up after 250 ms, and time  *)
(* passes.                                                                 *)
ConnFairness ==
  /\ WF_connVars(In("connections", LoopCheck \/ AcceptNothing))
  /\ WF_connVars(In("connections", DrainTick))

(* An answered refresh is stored; whether and when a fetch is answered is   *)
(* up to the auth server.                                                  *)
GatewayAuthFairness ==
  /\ WF_gatewayAuthVars(In("auth", RefresherStore))
  /\ \A r \in AuthRequests : WF_gatewayAuthVars(In("auth", StoreKeys(r)))

EdgeSpec ==
  /\ EdgeInit
  /\ [][EdgeNext]_<<area, rateVars, vars, discoveryVars, webhookVars, connVars,
                    gatewayAuthVars, udpVars>>
  /\ RateFairness /\ CacheFairness /\ DiscoveryFairness /\ WebhookFairness
  /\ ConnFairness /\ GatewayAuthFairness

-----------------------------------------------------------------------------
(* Properties of several parts. *)

(***************************************************************************)
(* What changes outside is eventually seen inside: edits of the services   *)
(* file by the router, dead and recovered backends by the health checker,  *)
(* new content by the readers of the cache, and withdrawn keys by the key  *)
(* cache.                                                                  *)
(***************************************************************************)
EventuallySeen ==
  EditTakesEffect /\ DeadIsNoticed /\ RecoveryIsNoticed /\ EventuallyCurrent /\ DroppedKeyLeaves

(***************************************************************************)
(* What begins ends: the refusal of an address that pauses, the delivery   *)
(* of an event, and a drain.                                               *)
(***************************************************************************)
EventuallyOver == WindowEnds /\ EventsSettle /\ DrainEnds
=============================================================================
