---------------------------- MODULE HealthChecker ----------------------------
(***************************************************************************)
(* The background health checker (spawn_health_checker in                  *)
(* gateway/src/proxy.rs): every round it re-reads the hot routing table,   *)
(* probes the distinct backends one after the other and records the        *)
(* verdict with BackendSelector::set_health.  Backends come and go, and    *)
(* the set of routed backends changes, while a round is under way.         *)
(* Module Discovery runs it next to the task that changes the table.       *)
(***************************************************************************)
EXTENDS Naturals, FiniteSets

CONSTANT Backends   \* backend URLs

VARIABLES
  routed,   \* backends of the current hot.routing
  up,       \* does the backend answer its health path with 2xx in time
  health,   \* BackendSelector.health; TRUE when never judged
  pc,       \* "sleep", "round" (between probes) or "probe"
  todo,     \* backends of this round still to be probed
  target,   \* backends whose probe is in flight (none or one)
  seen      \* was the target up when the probe was sent

vars == <<routed, up, health, pc, todo, target, seen>>

(* Every variable has the shape the code's types give it; one probe at a time. *)
TypeOK ==
  /\ routed \in SUBSET Backends
  /\ up \in [Backends -> BOOLEAN]
  /\ health \in [Backends -> BOOLEAN]
  /\ pc \in {"sleep", "round", "probe"}
  /\ todo \in SUBSET Backends
  /\ target \in SUBSET Backends
  /\ (pc = "probe" <=> Cardinality(target) = 1) /\ (pc # "probe" <=> target = {})
  /\ seen \in BOOLEAN

Init ==
  /\ up \in [Backends -> BOOLEAN]
  /\ health = [b \in Backends |-> TRUE]
  /\ pc = "sleep" /\ todo = {} /\ target = {} /\ seen = FALSE

(* The sleep is over: collect the unique backends of the current table. *)
Wake ==
  /\ pc = "sleep"
  /\ pc' = "round"
  /\ todo' = routed
  /\ UNCHANGED <<routed, up, health, target, seen>>

(* Mutant: probes are sent without waiting for the one in flight. *)
ProbeParallel(b) ==
  /\ b \in todo
  /\ pc' = "probe"
  /\ target' = target \cup {b}
  /\ seen' = up[b]
  /\ todo' = todo \ {b}
  /\ UNCHANGED <<routed, up, health>>

(* Send the next probe. *)
Probe(b) ==
  /\ pc = "round"
  /\ b \in todo
  /\ pc' = "probe"
  /\ target' = {b}
  /\ seen' = up[b]
  /\ todo' = todo \ {b}
  /\ UNCHANGED <<routed, up, health>>

(* Mutant: a dead backend is marked, a recovered one is not. *)
VerdictOneWay(b) ==
  /\ pc = "probe" /\ b \in target
  /\ \E alive \in {seen, up[b]} :
       health' = [health EXCEPT ![b] = @ /\ alive]
  /\ pc' = "round" /\ target' = {} /\ seen' = FALSE
  /\ UNCHANGED <<routed, up, todo>>

(* Mutant: a probe that gets no answer leaves the verdict as it was. *)
VerdictOnAnswer(b) ==
  /\ pc = "probe" /\ b \in target
  /\ \E alive \in {seen, up[b]} :
       health' = [health EXCEPT ![b] = @ \/ alive]
  /\ pc' = "round" /\ target' = {} /\ seen' = FALSE
  /\ UNCHANGED <<routed, up, todo>>

(* The probe ends (answer, error or the 5 s timeout).  The backend may have *)
(* changed while it was in flight: either observation is possible.          *)
Verdict(b) ==
  /\ pc = "probe" /\ b \in target
  /\ \E alive \in {seen, up[b]} : health' = [health EXCEPT ![b] = alive]
  /\ pc' = "round" /\ target' = {} /\ seen' = FALSE
  /\ UNCHANGED <<routed, up, todo>>

(* All backends of the round are done. *)
Sleep ==
  /\ pc = "round" /\ todo = {}
  /\ pc' = "sleep"
  /\ UNCHANGED <<routed, up, health, todo, target, seen>>

(* The environment: a backend dies or recovers ... *)
Flip(b) ==
  /\ up' = [up EXCEPT ![b] = ~@]
  /\ UNCHANGED <<routed, health, pc, todo, target, seen>>

(* ... and a swap of the hot state changes the table. *)
Swap(bs) ==
  /\ routed' = bs
  /\ UNCHANGED <<up, health, pc, todo, target, seen>>

(* The checker's task: every await in it is a timer or under a timeout. *)
Checker ==
  \/ Wake \/ Sleep
  \/ \E b \in Backends : Probe(b) \/ Verdict(b)
===============================================================================
