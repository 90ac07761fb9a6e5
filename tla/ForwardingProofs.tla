--------------------------- MODULE ForwardingProofs ---------------------------
(***************************************************************************)
(* Proofs about Forwarding, for any number of requests, hosts, backends    *)
(* and routing tables, any threshold and any timeouts.                     *)
(***************************************************************************)
EXTENDS Forwarding, FiniteSetTheorems, WellFoundedInduction, TLAPS

-------------------------------------------------------------------------------
(* What the operators the model is built from return.                      *)

(* The remainder the scan uses as an index is a slot of the list. *)
LEMMA SlotInRange ==
  ASSUME NEW c \in Nat, NEW k \in Nat, NEW n \in Nat \ {0}
  PROVE  Slot(c, k, n) \in 1 .. n
<1>1. (c + k) % CounterModulus \in Nat
  BY CounterAssumption
<1>2. ((c + k) % CounterModulus) % n \in 0 .. n - 1
  BY <1>1
<1> QED BY <1>2 DEF Slot

(* Whatever select returns is one of the backends it was given, and the    *)
(* counter it leaves is a usize.                                           *)
LEMMA SelectResult ==
  ASSUME NEW rt, rt.backends \in Seq(Backends), rt.backends # <<>>,
         NEW hl, NEW c \in 0 .. CounterModulus - 1,
         NEW pick \in Select(rt, hl, c)
  PROVE  /\ pick[1] \in {rt.backends[i] : i \in DOMAIN rt.backends}
         /\ pick[2] \in 0 .. CounterModulus - 1
<1> DEFINE n == Len(rt.backends)
<1>1. n \in Nat \ {0} /\ DOMAIN rt.backends = 1 .. n
  OBVIOUS
<1>2. CounterModulus \in Nat \ {0}
  BY CounterAssumption
<1>3. CASE Len(rt.backends) = 1
  BY <1>1, <1>3 DEF Select
<1>4. CASE Len(rt.backends) # 1 /\ WeightedCandidates(rt, hl) # {}
  <2>1. PICK i \in WeightedCandidates(rt, hl) : pick = <<rt.backends[i], c>>
    BY <1>4 DEF Select
  <2> QED BY <2>1 DEF WeightedCandidates
<1>5. CASE Len(rt.backends) # 1 /\ WeightedCandidates(rt, hl) = {}
  <2>1. pick = RoundRobin(rt, hl, c)
    BY <1>5 DEF Select
  <2> DEFINE hits == {k \in 0 .. n - 1 : hl[rt.backends[Slot(c, k, n)]]}
             first1 == CHOOSE k \in hits : \A j \in hits : k <= j
  <2>2. CASE hits = {}
    <3>1. pick = <<rt.backends[Slot(c, n, n)], (c + n) % CounterModulus>>
      BY <2>1, <2>2 DEF RoundRobin
    <3>2. Slot(c, n, n) \in DOMAIN rt.backends
      BY <1>1, <1>2, SlotInRange
    <3>3. (c + n) % CounterModulus \in 0 .. CounterModulus - 1
      BY SMTT(30), <1>1, <1>2
    <3> QED BY <3>1, <3>2, <3>3
  <2>3. CASE hits # {}
    <3>1. pick = <<rt.backends[Slot(c, first1, n)], (c + first1 + 1) % CounterModulus>>
      BY <2>1, <2>3 DEF RoundRobin
    <3>2. \E k \in hits : \A j \in hits : k <= j
      <4>1. hits \in SUBSET Nat
        BY <1>1
      <4>2. PICK k \in hits : \A j \in hits : ~ (<<j, k>> \in OpToRel(<, Nat))
        BY ZenonT(40), <2>3, <4>1, WFMin, NatLessThanWellFounded
      <4>3. \A j \in hits : ~ (j < k)
        BY <4>1, <4>2 DEF OpToRel
      <4> QED BY <4>1, <4>3
    <3>3. first1 \in 0 .. n - 1
      BY <3>2
    <3>4. Slot(c, first1, n) \in DOMAIN rt.backends
      BY <1>1, <1>2, <3>3, SlotInRange
    <3>5. (c + first1 + 1) % CounterModulus \in 0 .. CounterModulus - 1
      BY <1>1, <1>2, <3>3
    <3> QED BY <3>1, <3>4, <3>5
  <2> QED BY <2>2, <2>3
<1> QED BY <1>3, <1>4, <1>5

-------------------------------------------------------------------------------
(***************************************************************************)
(* The inductive invariant.  FailuresAccounted is not inductive alone: a   *)
(* charge adds one to the count and one to a history set only if the       *)
(* request is not in the set yet, which its control point tells (a first   *)
(* attempt is charged on leaving "sent", a retry on leaving "retry").      *)
(***************************************************************************)
ChargedOnce ==
  \A b \in Backends, r \in Requests :
    /\ r \in first[b] => pc[r] \in {"retry", "body", "done"}
    /\ r \in second[b] => pc[r] \in {"body", "done"}

(* The part about one task: its locals have their types, and the backend   *)
(* of a task that has one comes from its snapshot of the table.            *)
TaskInv ==
  /\ TypeOK
  /\ BackendOfSnapshot
  /\ \A r \in Requests : InFlight(r) => backend[r] \in Backends

(* The part about the circuit and its history. *)
CircuitInv ==
  /\ OpenIffThreshold
  /\ FailuresAccounted
  /\ ChargedOnce

(* The history sets are finite: they only hold requests. *)
LEMMA HistoryFinite ==
  ASSUME TypeOK, NEW b \in Backends
  PROVE  /\ IsFiniteSet(first[b]) /\ Cardinality(first[b]) \in Nat
         /\ IsFiniteSet(second[b]) /\ Cardinality(second[b]) \in Nat
<1>1. first[b] \in SUBSET Requests /\ second[b] \in SUBSET Requests
  BY DEF TypeOK
<1> QED BY <1>1, ForwardingAssumption, FS_Subset, FS_CardinalityType

(* What the operations of the circuit breaker return. *)
LEMMA CircuitOps ==
  ASSUME NEW c \in [Backends -> CircuitState], NEW b \in Backends
  PROVE  /\ RecordFailure(c, b) \in [Backends -> CircuitState]
         /\ RecordFailure(c, b)[b].failures = c[b].failures + 1
         /\ RecordFailure(c, b)[b].open = (c[b].open \/ c[b].failures + 1 >= Threshold)
         /\ \A d \in Backends \ {b} : RecordFailure(c, b)[d] = c[d]
         /\ RecordSuccess(c, b) \in [Backends -> CircuitState]
         /\ RecordSuccess(c, b)[b] = Untracked
         /\ \A d \in Backends \ {b} : RecordSuccess(c, b)[d] = c[d]
         /\ ResetCircuit(c, b) = RecordSuccess(c, b)
<1> USE RecoveryAssumption
<1>1. Untracked \in CircuitState
  BY DEF Untracked, CircuitState
<1>2. c[b] \in CircuitState
  OBVIOUS
<1> DEFINE e == [failures |-> c[b].failures + 1, elapsed |-> 0,
                 open |-> c[b].open \/ c[b].failures + 1 >= Threshold]
<1>3. c[b].failures \in Nat /\ c[b].open \in BOOLEAN
  BY <1>2 DEF CircuitState
<1>4. e \in CircuitState
  BY <1>3 DEF CircuitState
<1>5. RecordFailure(c, b) = [c EXCEPT ![b] = e]
  BY DEF RecordFailure
<1>6. /\ RecordFailure(c, b) \in [Backends -> CircuitState]
      /\ RecordFailure(c, b)[b] = e
      /\ \A d \in Backends \ {b} : RecordFailure(c, b)[d] = c[d]
  BY <1>4, <1>5
<1>7. /\ e.failures = c[b].failures + 1
      /\ e.open = (c[b].open \/ c[b].failures + 1 >= Threshold)
  OBVIOUS
<1>8. /\ RecordSuccess(c, b) \in [Backends -> CircuitState]
      /\ RecordSuccess(c, b)[b] = Untracked
      /\ \A d \in Backends \ {b} : RecordSuccess(c, b)[d] = c[d]
      /\ ResetCircuit(c, b) = RecordSuccess(c, b)
  BY <1>1 DEF RecordSuccess, ResetCircuit
<1> QED BY <1>6, <1>7, <1>8

(* The clock ages the entries and nothing else. *)
LEMMA AgeOps ==
  ASSUME NEW c \in [Backends -> CircuitState]
  PROVE  /\ Age(c) \in [Backends -> CircuitState]
         /\ \A b \in Backends : /\ Age(c)[b].failures = c[b].failures
                                /\ Age(c)[b].open = c[b].open
<1> USE RecoveryAssumption
<1>1. ASSUME NEW b \in Backends
      PROVE  /\ Age(c)[b] \in CircuitState
             /\ Age(c)[b].failures = c[b].failures
             /\ Age(c)[b].open = c[b].open
  <2> DEFINE el == IF c[b].failures > 0 /\ c[b].elapsed < RecoverySecs
                   THEN c[b].elapsed + 1 ELSE c[b].elapsed
  <2>1. c[b] \in CircuitState
    OBVIOUS
  <2>2. el \in 0 .. RecoverySecs
    BY <2>1 DEF CircuitState
  <2>3. Age(c)[b] = [c[b] EXCEPT !.elapsed = el]
    BY DEF Age
  <2> QED BY <2>1, <2>2, <2>3 DEF CircuitState
<1>2. Age(c) = [b \in Backends |-> Age(c)[b]]
  BY DEF Age
<1> QED BY <1>1, <1>2

(* A fresh entry is consistent with empty histories. *)
LEMMA UntrackedFacts ==
  Untracked.failures = 0 /\ Untracked.open = FALSE /\ Untracked \in CircuitState
BY RecoveryAssumption DEF Untracked, CircuitState

-------------------------------------------------------------------------------
(* Tasks.                                                                  *)

(* The tasks start idle, with the shapes TypeOK asks for. *)
LEMMA InitTask == Init => TaskInv
<1> SUFFICES ASSUME Init PROVE TaskInv
  OBVIOUS
<1>1. TypeOK
  <2>1. circuit \in [Backends -> CircuitState]
    BY UntrackedFacts DEF Init
  <2>2. counters \in [Hosts -> 0 .. CounterModulus - 1]
    BY CounterAssumption DEF Init
  <2>3. elapsed \in [Requests -> 0 .. AnyTimeout]
    BY ForwardingAssumption DEF Init, AnyTimeout
  <2> QED BY <2>1, <2>2, <2>3 DEF Init, TypeOK, Replies
<1>2. \A r \in Requests : ~InFlight(r)
  BY DEF Init, InFlight
<1> QED BY <1>1, <1>2 DEF TaskInv, BackendOfSnapshot

(* Settling the answer keeps the types of the task's locals, and the       *)
(* request is no longer in flight.                                         *)
LEMMA SettleTask ==
  ASSUME TaskInv, NEW r \in Requests, NEW what \in Replies, NEW to \in {"body", "done"},
         Settle(r, to, what),
         UNCHANGED <<routing, selector>>,
         circuit' \in [Backends -> CircuitState],
         first' \in [Backends -> SUBSET Requests],
         second' \in [Backends -> SUBSET Requests]
  PROVE  TaskInv'
<1> USE DEF TaskInv
<1>1. elapsed' \in [Requests -> 0 .. AnyTimeout]
  BY ForwardingAssumption DEF TypeOK, Settle, AnyTimeout
<1>2. TypeOK'
  BY <1>1 DEF TypeOK, Settle, selector
<1>3. ~InFlight(r)'
  BY DEF InFlight, Settle, TypeOK
<1>4. \A q \in Requests \ {r} :
        /\ InFlight(q)' = InFlight(q)
        /\ backend'[q] = backend[q] /\ route'[q] = route[q]
  BY DEF InFlight, Settle, TypeOK
<1> QED BY <1>2, <1>3, <1>4 DEF BackendOfSnapshot

(* A charge keeps the types of what it touches. *)
LEMMA ChargeTypes ==
  ASSUME TaskInv, NEW r \in Requests, pc[r] \in {"sent", "retry"}, Charge(r)
  PROVE  /\ circuit' \in [Backends -> CircuitState]
         /\ first' \in [Backends -> SUBSET Requests]
         /\ second' \in [Backends -> SUBSET Requests]
<1>1. backend[r] \in Backends
  BY DEF TaskInv, InFlight
<1>2. circuit' \in [Backends -> CircuitState]
  BY <1>1, CircuitOps DEF TaskInv, TypeOK, Charge
<1> QED BY <1>1, <1>2 DEF TaskInv, TypeOK, Charge

(* Choose hands the task a backend of its own snapshot. *)
LEMMA ChooseTask ==
  ASSUME TaskInv, NEW r \in Requests, Choose(r)
  PROVE  TaskInv'
<1> USE DEF TaskInv
<1>1. PICK pick \in Select(route[r], health, counters[host[r]]), match \in BOOLEAN :
        /\ counters' = [counters EXCEPT ![host[r]] = pick[2]]
        /\ backend' = [backend EXCEPT ![r] =
                         IF match /\ route[r].bypass # NoBackend
                         THEN route[r].bypass ELSE pick[1]]
  BY DEF Choose
<1>2. /\ route[r].backends \in Seq(Backends)
      /\ route[r].bypass \in Backends \cup {NoBackend}
  <2>1. route[r] \in Routes \cup {NoRoute}
    BY DEF TypeOK
  <2>2. CASE route[r] = NoRoute
    BY <2>2 DEF NoRoute
  <2>3. CASE route[r] \in Routes
    <3>1. PICK t \in Tables, h \in Hosts : route[r] = t[h]
      BY <2>3 DEF Routes
    <3> QED BY <3>1, ForwardingAssumption
  <2> QED BY <2>1, <2>2, <2>3
<1>3. host[r] \in Hosts /\ counters[host[r]] \in 0 .. CounterModulus - 1
  BY DEF TypeOK
<1>4. /\ pick[1] \in {route[r].backends[i] : i \in DOMAIN route[r].backends}
      /\ pick[2] \in 0 .. CounterModulus - 1
  BY <1>1, <1>2, <1>3, SelectResult DEF Choose
<1>5. pick[1] \in Backends
  BY <1>2, <1>4
<1>6. backend'[r] \in Backends /\ backend' \in [Requests -> Backends \cup {NoBackend}]
  BY <1>1, <1>2, <1>5 DEF TypeOK
<1>7. TypeOK'
  BY <1>1, <1>3, <1>4, <1>6 DEF TypeOK, Choose, Goto, charges
<1>8. \/ backend'[r] \in {route'[r].backends[i] : i \in DOMAIN route'[r].backends}
      \/ backend'[r] = route'[r].bypass
  BY <1>1, <1>4 DEF TypeOK, Choose
<1>9. \A q \in Requests \ {r} :
        /\ InFlight(q)' = InFlight(q)
        /\ backend'[q] = backend[q] /\ route'[q] = route[q]
  BY <1>1 DEF InFlight, Choose, Goto, TypeOK
<1> QED BY <1>6, <1>7, <1>8, <1>9 DEF BackendOfSnapshot

(* Every step keeps the shapes and each request on a backend of its snapshot. *)
LEMMA NextTask == TaskInv /\ [Next]_vars => TaskInv'
<1> SUFFICES ASSUME TaskInv, [Next]_vars PROVE TaskInv'
  OBVIOUS
<1> USE DEF TaskInv
<1>1. ASSUME NEW r \in Requests, Receive(r) PROVE TaskInv'
  <2>1. routing[host[r]] \in Routes
    BY DEF TypeOK, Routes
  <2>2. TypeOK'
    BY <1>1, <2>1 DEF TypeOK, Receive, Goto, selector, charges
  <2>3. \A q \in Requests : InFlight(q)' => /\ InFlight(q) /\ q # r
    BY <1>1 DEF InFlight, Receive, Goto, TypeOK
  <2> QED BY <1>1, <2>2, <2>3 DEF BackendOfSnapshot, Receive, TypeOK
<1>2. ASSUME NEW r \in Requests, NoRouteTarget(r) PROVE TaskInv'
  BY <1>2, SettleTask DEF Answer, NoRouteTarget, charges, TypeOK, Replies
<1>3. ASSUME NEW r \in Requests, Choose(r) PROVE TaskInv'
  BY <1>3, ChooseTask
<1>4. ASSUME NEW r \in Requests, AnswerEarly(r) PROVE TaskInv'
  BY <1>4, SettleTask DEF Answer, AnswerEarly, charges, TypeOK, Replies
<1>5. ASSUME NEW r \in Requests, ShortCircuit(r) PROVE TaskInv'
  BY <1>5, SettleTask DEF Answer, ShortCircuit, charges, TypeOK, Replies
<1>6. ASSUME NEW r \in Requests, Unbuildable(r) PROVE TaskInv'
  BY <1>6, SettleTask DEF Answer, Unbuildable, charges, TypeOK, Replies
<1>7. ASSUME NEW r \in Requests, Admit(r) PROVE TaskInv'
  <2>1. elapsed' \in [Requests -> 0 .. AnyTimeout]
    BY <1>7, ForwardingAssumption DEF TypeOK, Admit, AnyTimeout
  <2>2. probe' \in [Requests -> BOOLEAN]
    BY <1>7 DEF TypeOK, Admit
  <2>3. TypeOK'
    BY <1>7, <2>1, <2>2 DEF TypeOK, Admit, Goto, selector, charges
  <2>4. \A q \in Requests : InFlight(q)' = InFlight(q)
    BY <1>7 DEF InFlight, Admit, Goto, TypeOK
  <2> QED BY <1>7, <2>3, <2>4 DEF BackendOfSnapshot, Admit
<1>8. ASSUME NEW r \in Requests, Respond(r) PROVE TaskInv'
  <2>1. backend[r] \in Backends
    BY <1>8 DEF Respond, InFlight
  <2>2. circuit' \in [Backends -> CircuitState]
    BY <1>8, <2>1, CircuitOps DEF Respond, TypeOK
  <2>3. /\ first' \in [Backends -> SUBSET Requests]
        /\ second' \in [Backends -> SUBSET Requests]
    BY <1>8 DEF Respond, TypeOK
  <2>4. PICK status \in Statuses, to \in {"body", "done"} : Settle(r, to, status)
    BY <1>8 DEF Respond
  <2> QED BY <1>8, <2>2, <2>3, <2>4, SettleTask DEF Respond, Replies
<1>9. ASSUME NEW r \in Requests, Retry(r) PROVE TaskInv'
  <2>1. /\ circuit' \in [Backends -> CircuitState]
        /\ first' \in [Backends -> SUBSET Requests]
        /\ second' \in [Backends -> SUBSET Requests]
    BY <1>9, ChargeTypes DEF Retry, Goto
  <2>2. elapsed' \in [Requests -> 0 .. AnyTimeout]
    BY <1>9, ForwardingAssumption DEF TypeOK, Retry, AnyTimeout
  <2>3. TypeOK'
    BY <1>9, <2>1, <2>2 DEF TypeOK, Retry, Goto, selector
  <2>4. \A q \in Requests : InFlight(q)' = InFlight(q)
    BY <1>9 DEF InFlight, Retry, Goto, TypeOK
  <2> QED BY <1>9, <2>3, <2>4 DEF BackendOfSnapshot, Retry
<1>10. ASSUME NEW r \in Requests, Fail(r) PROVE TaskInv'
  BY <1>10, ChargeTypes, SettleTask DEF Answer, Fail, Replies
<1>11. ASSUME NEW r \in Requests, TimeOut(r) PROVE TaskInv'
  BY <1>11, ChargeTypes, SettleTask DEF Answer, TimeOut, Expired, Replies
<1>12. ASSUME NEW r \in Requests, Cancel(r) PROVE TaskInv'
  BY <1>12, SettleTask DEF Answer, Cancel, charges, TypeOK, Replies
<1>20. ASSUME NEW r \in Requests, BodyEnds(r) PROVE TaskInv'
  <2>1. PICK what \in {reply[r], "bad_gateway"} : Settle(r, "done", what)
    BY <1>20 DEF BodyEnds, Answer
  <2>2. what \in Replies
    BY <2>1 DEF TypeOK, Replies
  <2> QED BY <1>20, <2>1, <2>2, SettleTask DEF BodyEnds, charges, TypeOK
<1>13. ASSUME NEW b \in Backends, AdminReset(b) PROVE TaskInv'
  <2>1. circuit' \in [Backends -> CircuitState]
    <3>1. circuit \in [Backends -> CircuitState] /\ circuit' = ResetCircuit(circuit, b)
      BY <1>13 DEF AdminReset, TypeOK
    <3> QED BY <3>1, CircuitOps
  <2>2. TypeOK'
    BY <1>13, <2>1 DEF AdminReset, TypeOK, selector, locals
  <2> QED BY <1>13, <2>2 DEF AdminReset, BackendOfSnapshot, InFlight, locals
<1>14. ASSUME NEW b \in Backends, NEW alive \in BOOLEAN, SetHealth(b, alive) PROVE TaskInv'
  <2>1. TypeOK'
    BY <1>14 DEF SetHealth, TypeOK, charges, locals
  <2> QED BY <1>14, <2>1 DEF SetHealth, BackendOfSnapshot, InFlight, locals
<1>15. ASSUME NEW t \in Tables, Reload(t) PROVE TaskInv'
  <2>1. TypeOK'
    BY <1>15 DEF Reload, TypeOK, charges, locals, selector
  <2> QED BY <1>15, <2>1 DEF Reload, BackendOfSnapshot, InFlight, locals
<1>16. CASE Tick
  <2>1. elapsed' \in [Requests -> 0 .. AnyTimeout]
    BY <1>16, ForwardingAssumption DEF Tick, TypeOK, AnyTimeout
  <2>2. circuit' \in [Backends -> CircuitState]
    BY <1>16, AgeOps DEF Tick, TypeOK
  <2>3. TypeOK'
    BY <1>16, <2>1, <2>2 DEF Tick, TypeOK, selector
  <2> QED BY <1>16, <2>3 DEF Tick, BackendOfSnapshot, InFlight
<1>17. CASE UNCHANGED vars
  BY <1>17 DEF vars, selector, charges, locals, TypeOK, BackendOfSnapshot, InFlight
<1> QED
  BY <1>1, <1>2, <1>3, <1>4, <1>5, <1>6, <1>7, <1>8, <1>9, <1>10, <1>11, <1>12, <1>20,
     <1>13, <1>14, <1>15, <1>16, <1>17 DEF Next, Handle

(* Every variable keeps its type, for every instance. *)
THEOREM TypeCorrect == Spec => []TypeOK
<1>1. TaskInv => TypeOK
  BY DEF TaskInv
<1> QED BY <1>1, InitTask, NextTask, PTL DEF Spec

(* A request is served by a backend of the routing table it loaded when it *)
(* arrived, whatever reloads happen while it is being handled.             *)
THEOREM SnapshotServed == Spec => []BackendOfSnapshot
<1>1. TaskInv => BackendOfSnapshot
  BY DEF TaskInv
<1> QED BY <1>1, InitTask, NextTask, PTL DEF Spec

-------------------------------------------------------------------------------
(* The circuit and its history.                                            *)

(* Initially nothing is charged and every circuit is closed. *)
LEMMA InitCircuit == Init => CircuitInv
<1> SUFFICES ASSUME Init PROVE CircuitInv
  OBVIOUS
<1>1. OpenIffThreshold
  BY ThresholdAssumption, UntrackedFacts DEF Init, OpenIffThreshold
<1>2. FailuresAccounted
  BY FS_EmptySet, UntrackedFacts DEF Init, FailuresAccounted
<1>3. ChargedOnce
  BY DEF Init, ChargedOnce
<1> QED BY <1>1, <1>2, <1>3 DEF CircuitInv

(* A step that records nothing keeps the accounts, provided no task goes   *)
(* back to a control point before its charge.                              *)
LEMMA QuietCircuit ==
  ASSUME CircuitInv, UNCHANGED <<first, second>>,
         \A b \in Backends : /\ circuit'[b].failures = circuit[b].failures
                             /\ circuit'[b].open = circuit[b].open,
         \A q \in Requests : \/ pc'[q] = pc[q]
                             \/ pc[q] \notin {"retry", "body", "done"}
                             \/ pc'[q] \in {"body", "done"}
  PROVE  CircuitInv'
BY DEF CircuitInv, OpenIffThreshold, FailuresAccounted, ChargedOnce

(* A success or a reset clears the entry and its history together. *)
LEMMA ClearCircuit ==
  ASSUME TaskInv, CircuitInv, NEW b \in Backends,
         circuit' = RecordSuccess(circuit, b),
         first' = [first EXCEPT ![b] = {}],
         second' = [second EXCEPT ![b] = {}],
         \A q \in Requests : pc'[q] = pc[q] \/ pc'[q] \in {"body", "done"}
  PROVE  CircuitInv'
<1>0. circuit \in [Backends -> CircuitState]
  BY DEF TaskInv, TypeOK
<1>1. circuit'[b] = Untracked /\ \A d \in Backends \ {b} : circuit'[d] = circuit[d]
  BY <1>0, CircuitOps
<1>2. /\ first'[b] = {} /\ second'[b] = {}
      /\ \A d \in Backends \ {b} : first'[d] = first[d] /\ second'[d] = second[d]
  BY DEF TaskInv, TypeOK
<1>3. OpenIffThreshold'
  BY <1>1, UntrackedFacts, ThresholdAssumption DEF CircuitInv, OpenIffThreshold
<1>4. FailuresAccounted'
  <2>1. circuit'[b].failures = Cardinality(first'[b]) + Cardinality(second'[b])
    BY <1>1, <1>2, UntrackedFacts, FS_EmptySet
  <2>2. \A d \in Backends \ {b} : circuit'[d].failures = Cardinality(first'[d]) + Cardinality(second'[d])
    BY <1>1, <1>2 DEF CircuitInv, FailuresAccounted
  <2> QED BY <2>1, <2>2 DEF FailuresAccounted
<1>5. ChargedOnce'
  BY <1>2 DEF CircuitInv, ChargedOnce
<1> QED BY <1>3, <1>4, <1>5 DEF CircuitInv

(* A charge adds one failure and one history element, both to the backend  *)
(* of the request, and moves the request past the point it was charged at. *)
LEMMA ChargeCircuit ==
  ASSUME TaskInv, CircuitInv, NEW r \in Requests, pc[r] \in {"sent", "retry"},
         Charge(r),
         pc'[r] = "done" \/ (pc[r] = "sent" /\ pc'[r] = "retry"),
         \A q \in Requests \ {r} : pc'[q] = pc[q]
  PROVE  CircuitInv'
<1> DEFINE b == backend[r]
<1>0. b \in Backends /\ circuit \in [Backends -> CircuitState]
  BY DEF TaskInv, TypeOK, InFlight
<1>1. /\ circuit'[b].failures = circuit[b].failures + 1
      /\ circuit'[b].open = (circuit[b].open \/ circuit[b].failures + 1 >= Threshold)
      /\ \A d \in Backends \ {b} : circuit'[d] = circuit[d]
  BY <1>0, CircuitOps DEF Charge
<1>2. circuit[b].failures \in Nat /\ circuit[b].open \in BOOLEAN
  BY <1>0 DEF CircuitState
<1>3. OpenIffThreshold'
  <2>1. circuit[b].open <=> circuit[b].failures >= Threshold
    BY <1>0 DEF CircuitInv, OpenIffThreshold
  <2>2. circuit'[b].open <=> circuit'[b].failures >= Threshold
    <3>1. circuit[b].failures >= Threshold => circuit[b].failures + 1 >= Threshold
      BY <1>2, ThresholdAssumption
    <3>2. circuit'[b].open <=> circuit[b].failures + 1 >= Threshold
      BY <1>1, <2>1, <3>1, Zenon
    <3> QED BY <1>1, <3>2, Zenon
  <2>3. \A d \in Backends \ {b} : circuit'[d].open <=> circuit'[d].failures >= Threshold
    BY <1>1 DEF CircuitInv, OpenIffThreshold
  <2> QED BY <2>2, <2>3 DEF OpenIffThreshold
<1>4. r \notin second[b] /\ (pc[r] = "sent" => r \notin first[b])
  BY <1>0 DEF CircuitInv, ChargedOnce
<1>5. /\ IsFiniteSet(first[b]) /\ Cardinality(first[b]) \in Nat
      /\ IsFiniteSet(second[b]) /\ Cardinality(second[b]) \in Nat
  BY <1>0, HistoryFinite DEF TaskInv
<1>6. circuit[b].failures = Cardinality(first[b]) + Cardinality(second[b])
  BY <1>0 DEF CircuitInv, FailuresAccounted
<1>7. CASE pc[r] = "sent"
  <2>1. /\ first'[b] = first[b] \cup {r}
        /\ \A d \in Backends \ {b} : first'[d] = first[d]
        /\ second' = second
    BY <1>0, <1>7 DEF TaskInv, TypeOK, Charge
  <2>2. Cardinality(first'[b]) = Cardinality(first[b]) + 1
    BY ZenonT(40), <1>4, <1>5, <1>7, <2>1, FS_AddElement
  <2>3. FailuresAccounted'
    <3>1. circuit'[b].failures = Cardinality(first'[b]) + Cardinality(second'[b])
      BY <1>1, <1>5, <1>6, <2>1, <2>2
    <3>2. \A d \in Backends \ {b} :
            circuit'[d].failures = Cardinality(first'[d]) + Cardinality(second'[d])
      BY <1>1, <2>1 DEF CircuitInv, FailuresAccounted
    <3> QED BY <3>1, <3>2 DEF FailuresAccounted
  <2>4. ChargedOnce'
    BY <1>7, <2>1 DEF CircuitInv, ChargedOnce
  <2> QED BY <1>3, <2>3, <2>4 DEF CircuitInv
<1>8. CASE pc[r] = "retry"
  <2>1. /\ second'[b] = second[b] \cup {r}
        /\ \A d \in Backends \ {b} : second'[d] = second[d]
        /\ first' = first
    BY <1>0, <1>8 DEF TaskInv, TypeOK, Charge
  <2>2. Cardinality(second'[b]) = Cardinality(second[b]) + 1
    BY ZenonT(40), <1>4, <1>5, <2>1, FS_AddElement
  <2>3. FailuresAccounted'
    <3>1. circuit'[b].failures = Cardinality(first'[b]) + Cardinality(second'[b])
      BY <1>1, <1>5, <1>6, <2>1, <2>2
    <3>2. \A d \in Backends \ {b} :
            circuit'[d].failures = Cardinality(first'[d]) + Cardinality(second'[d])
      BY <1>1, <2>1 DEF CircuitInv, FailuresAccounted
    <3> QED BY <3>1, <3>2 DEF FailuresAccounted
  <2>4. ChargedOnce'
    BY <1>8, <2>1 DEF CircuitInv, ChargedOnce
  <2> QED BY <1>3, <2>3, <2>4 DEF CircuitInv
<1> QED BY <1>7, <1>8

(* Every step keeps the circuits in agreement with the charges. *)
LEMMA NextCircuit == TaskInv /\ CircuitInv /\ [Next]_vars => CircuitInv'
<1> SUFFICES ASSUME TaskInv, CircuitInv, [Next]_vars PROVE CircuitInv'
  OBVIOUS
<1>0. pc \in [Requests -> {"idle", "routed", "selected", "sent", "retry", "body", "done"}]
  BY DEF TaskInv, TypeOK
<1>1. ASSUME NEW r \in Requests,
             Receive(r) \/ NoRouteTarget(r) \/ Choose(r) \/ AnswerEarly(r)
             \/ ShortCircuit(r) \/ Unbuildable(r) \/ Admit(r) \/ BodyEnds(r) \/ Cancel(r)
      PROVE  CircuitInv'
  <2>1. UNCHANGED charges
    BY <1>1 DEF Receive, NoRouteTarget, Choose, AnswerEarly, ShortCircuit,
                Unbuildable, Admit, BodyEnds, Cancel, charges
  <2>2. \A q \in Requests : \/ pc'[q] = pc[q]
                            \/ pc[q] \notin {"retry", "body", "done"}
                            \/ pc'[q] \in {"body", "done"}
    BY <1>0, <1>1 DEF Receive, NoRouteTarget, Choose, AnswerEarly, ShortCircuit,
                      Unbuildable, Admit, BodyEnds, Cancel, Goto, Answer, Settle
  <2> QED BY <2>1, <2>2, QuietCircuit DEF charges
<1>2. ASSUME NEW r \in Requests, Respond(r) PROVE CircuitInv'
  <2>1. backend[r] \in Backends
    BY <1>2 DEF TaskInv, InFlight, Respond
  <2>2. \A q \in Requests : pc'[q] = pc[q] \/ pc'[q] \in {"body", "done"}
    BY <1>0, <1>2 DEF Respond, Settle
  <2> QED BY <1>2, <2>1, <2>2, ClearCircuit DEF Respond
<1>3. ASSUME NEW r \in Requests, Retry(r) PROVE CircuitInv'
  BY <1>0, <1>3, ChargeCircuit DEF Retry, Goto
<1>4. ASSUME NEW r \in Requests, Fail(r) PROVE CircuitInv'
  BY <1>0, <1>4, ChargeCircuit DEF Fail, Answer, Settle
<1>5. ASSUME NEW r \in Requests, TimeOut(r) PROVE CircuitInv'
  BY <1>0, <1>5, ChargeCircuit DEF TimeOut, Expired, Answer, Settle
<1>6. ASSUME NEW b \in Backends, AdminReset(b) PROVE CircuitInv'
  <2>1. circuit \in [Backends -> CircuitState]
    BY DEF TaskInv, TypeOK
  <2>2. circuit' = RecordSuccess(circuit, b)
    BY <1>6, <2>1, CircuitOps DEF AdminReset
  <2> QED BY <1>6, <2>2, ClearCircuit DEF AdminReset
<1>7. CASE (\E b \in Backends, alive \in BOOLEAN : SetHealth(b, alive))
           \/ (\E t \in Tables : Reload(t)) \/ UNCHANGED vars
  <2>1. UNCHANGED <<charges, pc>>
    BY <1>7 DEF SetHealth, Reload, vars
  <2> QED BY <2>1, QuietCircuit DEF charges
<1>8. CASE Tick
  <2>1. circuit \in [Backends -> CircuitState]
    BY DEF TaskInv, TypeOK
  <2>2. \A b \in Backends : /\ circuit'[b].failures = circuit[b].failures
                            /\ circuit'[b].open = circuit[b].open
    BY <1>8, <2>1, AgeOps DEF Tick
  <2> QED BY <1>8, <2>2, QuietCircuit DEF Tick
<1> QED
  BY <1>1, <1>2, <1>3, <1>4, <1>5, <1>6, <1>7, <1>8 DEF Next, Handle

(* The open flag of a circuit and its count never disagree. *)
THEOREM FlagMatchesCount == Spec => []OpenIffThreshold
<1>1. CircuitInv => OpenIffThreshold
  BY DEF CircuitInv
<1> QED BY <1>1, InitTask, NextTask, InitCircuit, NextCircuit, PTL DEF Spec

(* The circuit counts each failed attempt since the last success or reset  *)
(* exactly once, however the attempts interleave.                          *)
THEOREM CountIsExact == Spec => []FailuresAccounted
<1>1. CircuitInv => FailuresAccounted
  BY DEF CircuitInv
<1> QED BY <1>1, InitTask, NextTask, InitCircuit, NextCircuit, PTL DEF Spec

(* An open circuit has the failures of at least half as many distinct      *)
(* requests as the threshold behind it.                                    *)
THEOREM TripNeedsManyRequests == Spec => []NoFewRequestsTrip
<1>1. TaskInv /\ CircuitInv => NoFewRequestsTrip
  <2> SUFFICES ASSUME TaskInv, CircuitInv, NEW b \in Backends, circuit[b].open
               PROVE  2 * Cardinality(Charged(b)) >= Threshold
    BY DEF NoFewRequestsTrip
  <2>1. circuit[b].failures >= Threshold
    BY DEF CircuitInv, OpenIffThreshold
  <2>2. circuit[b].failures = Cardinality(first[b]) + Cardinality(second[b])
    BY DEF CircuitInv, FailuresAccounted
  <2>3. Charged(b) \in SUBSET Requests
    BY DEF TaskInv, TypeOK, Charged
  <2>4. IsFiniteSet(Charged(b)) /\ Cardinality(Charged(b)) \in Nat
    BY <2>3, ForwardingAssumption, FS_Subset, FS_CardinalityType
  <2>5. /\ Cardinality(first[b]) <= Cardinality(Charged(b))
        /\ Cardinality(second[b]) <= Cardinality(Charged(b))
    BY <2>4, FS_Subset DEF Charged
  <2>6. Cardinality(first[b]) \in Nat /\ Cardinality(second[b]) \in Nat
    BY HistoryFinite DEF TaskInv
  <2> QED BY <2>1, <2>2, <2>4, <2>5, <2>6, ThresholdAssumption
<1> QED BY <1>1, InitTask, NextTask, InitCircuit, NextCircuit, PTL DEF Spec

(* Flag, count and requests of every circuit agree at every moment. *)
THEOREM BreakerIsExact == Spec => []BreakerExact
<1>1. OpenIffThreshold /\ FailuresAccounted /\ NoFewRequestsTrip => BreakerExact
  BY DEF BreakerExact
<1> QED BY <1>1, FlagMatchesCount, CountIsExact, TripNeedsManyRequests, PTL

-------------------------------------------------------------------------------
(* The scan for a healthy backend.                                         *)

(* Division with remainder has one result. *)
LEMMA Remainder ==
  ASSUME NEW n \in Nat \ {0}, NEW q \in Nat, NEW d \in 0 .. n - 1
  PROVE  (n * q + d) % n = d
<1> DEFINE x == n * q + d
           p == x \div n
           e == x % n
<1>1. n * q \in Nat /\ x \in Nat /\ x >= n * q /\ x < n * q + n
  OBVIOUS
<1>2. p \in Int /\ e \in 0 .. n - 1 /\ x = n * p + e
  BY <1>1
<1> HIDE DEF p, e
<1>3. CASE p >= q + 1
  <2>1. n * (p - (q + 1)) >= 0
    BY <1>2, <1>3
  <2>2. n * (p - (q + 1)) = n * p - n * q - n
    BY <1>2
  <2> QED BY <1>1, <1>2, <2>1, <2>2
<1>4. CASE p <= q - 1
  <2>1. n * (q - 1 - p) >= 0
    BY <1>2, <1>4
  <2>2. n * (q - 1 - p) = n * q - n - n * p
    BY <1>2
  <2> QED BY <1>1, <1>2, <2>1, <2>2
<1>5. CASE p = q
  BY <1>2, <1>5 DEF e
<1> QED BY <1>2, <1>3, <1>4, <1>5

(* Every natural number has a quotient and a remainder. *)
LEMMA Quotient ==
  ASSUME NEW c \in Nat, NEW n \in Nat \ {0}
  PROVE  \E q \in Nat, d \in 0 .. n - 1 : c = n * q + d
<1> DEFINE q == c \div n
           d == c % n
<1>1. q \in Int /\ d \in 0 .. n - 1 /\ c = n * q + d
  OBVIOUS
<1> HIDE DEF q, d
<1>2. q \in Nat
  <2> SUFFICES ASSUME q <= -1 PROVE FALSE
    BY <1>1
  <2>1. n * (-1 - q) >= 0
    BY <1>1
  <2>2. n * (-1 - q) = - n - n * q
    BY <1>1
  <2> QED BY <1>1, <2>1, <2>2
<1> QED BY <1>1, <1>2

(* n successive counters reach every remainder of n. *)
LEMMA Reached ==
  ASSUME NEW c \in Nat, NEW n \in Nat \ {0}, NEW s \in 0 .. n - 1
  PROVE  \E k \in 0 .. n - 1 : (c + k) % n = s
<1>1. PICK q \in Nat, d \in 0 .. n - 1 : c = n * q + d
  BY Quotient
<1>2. CASE s >= d
  <2> DEFINE k == s - d
  <2>1. k \in 0 .. n - 1 /\ c + k = n * q + s
    BY <1>1, <1>2
  <2>2. (n * q + s) % n = s
    BY Remainder
  <2> QED BY <2>1, <2>2
<1>3. CASE s < d
  <2> DEFINE k == n + s - d
  <2>1. n * (q + 1) = n * q + n
    OBVIOUS
  <2>2. k \in 0 .. n - 1 /\ c + k = n * (q + 1) + s
    BY <1>1, <1>3, <2>1
  <2>3. (n * (q + 1) + s) % n = s
    BY Remainder
  <2> QED BY <2>2, <2>3
<1> QED BY <1>2, <1>3

(* A number below the modulus is its own remainder. *)
LEMMA Small ==
  ASSUME NEW m \in Nat \ {0}, NEW x \in 0 .. m - 1
  PROVE  x % m = x
<1>1. (m * 0 + x) % m = x
  BY Remainder
<1> QED BY <1>1

(* Taking the remainder before an addition changes nothing after it. *)
LEMMA AddRemainder ==
  ASSUME NEW m \in Nat \ {0}, NEW x \in Nat, NEW y \in Nat
  PROVE  x % m \in Nat /\ ((x % m) + y) % m = (x + y) % m
<1>1. PICK q \in Nat, d \in 0 .. m - 1 : x = m * q + d
  BY Quotient
<1>2. PICK p \in Nat, e \in 0 .. m - 1 : d + y = m * p + e
  <2>1. d + y \in Nat
    OBVIOUS
  <2> QED BY <2>1, Quotient
<1>3. x % m = d
  BY <1>1, Remainder
<1>4. (d + y) % m = e
  BY <1>2, Remainder
<1>5. m * (q + p) = m * q + m * p
  OBVIOUS
<1>6. x + y = m * (q + p) + e
  BY <1>1, <1>2, <1>5
<1>7. (m * (q + p) + e) % m = e
  <2>1. q + p \in Nat
    OBVIOUS
  <2> QED BY <2>1, Remainder
<1> QED BY <1>3, <1>4, <1>6, <1>7

(***************************************************************************)
(* A scan of n backends from counter c reaches them all: the counter does  *)
(* not wrap on the way, or n divides 2^64.  Without it, a list of three    *)
(* backends is scanned unevenly once in 2^64 selections.                   *)
(***************************************************************************)
WholeScan(c, n) == c + n <= CounterModulus \/ CounterModulus % n = 0

(* A scan that does not run over the end of its counter, or whose list      *)
(* divides it, looks at the slots in turn.                                  *)
LEMMA SlotIs ==
  ASSUME NEW c \in 0 .. CounterModulus - 1, NEW n \in Nat \ {0}, WholeScan(c, n),
         NEW k \in 0 .. n - 1
  PROVE  Slot(c, k, n) = ((c + k) % n) + 1
<1> DEFINE m == CounterModulus
<1>0. m \in Nat \ {0}
  BY CounterAssumption
<1>1. CASE c + k < m
  <2>1. c + k \in 0 .. m - 1
    BY <1>0, <1>1
  <2>2. (c + k) % m = c + k
    BY <1>0, <2>1, Small
  <2> QED BY <2>2 DEF Slot
<1>2. CASE c + k >= m
  <2>0. m % n = 0
    BY <1>0, <1>2 DEF WholeScan
  <2>1. PICK p \in Nat, d \in 0 .. n - 1 : m = n * p + d
    BY <1>0, Quotient
  <2>2. d = 0
    BY <2>0, <2>1, Remainder
  <2>3. m = n * p /\ p # 0
    BY <1>0, <2>1, <2>2
  <2>4. n * p >= n
    BY <2>1, <2>3
  <2> DEFINE j == c + k - m
  <2>5. j \in 0 .. n - 1 /\ j \in 0 .. m - 1 /\ c + k = m * 1 + j /\ c + k = n * p + j
    BY <1>0, <1>2, <2>3, <2>4
  <2> HIDE DEF j, m
  <2>6. (c + k) % m = j
    BY <1>0, <2>5, Remainder
  <2>7. (c + k) % n = j
    BY <2>5, Remainder
  <2>8. j % n = j
    BY <2>5, Small
  <2>9. ((c + k) % m) % n = (c + k) % n
    BY <2>6, <2>7, <2>8
  <2> QED BY <2>9 DEF Slot, m
<1> QED BY <1>0, <1>1, <1>2

(* Such a scan looks at every slot of the list. *)
LEMMA ScanReaches ==
  ASSUME NEW c \in 0 .. CounterModulus - 1, NEW n \in Nat \ {0}, WholeScan(c, n),
         NEW i \in 1 .. n
  PROVE  \E k \in 0 .. n - 1 : Slot(c, k, n) = i
<1>1. PICK s \in 0 .. n - 1 : s = i - 1
  OBVIOUS
<1>2. PICK k \in 0 .. n - 1 : (c + k) % n = s
  <2>1. c \in Nat
    BY CounterAssumption
  <2> QED BY <2>1, Reached
<1>3. Slot(c, k, n) = ((c + k) % n) + 1
  BY SlotIs
<1>4. s + 1 = i
  BY <1>1
<1> QED BY <1>2, <1>3, <1>4

(* The probe at which the scan from c first finds a healthy backend. *)
FirstHit(rt, hl, c) ==
  LET hits == {k \in 0 .. Len(rt.backends) - 1 : hl[rt.backends[Slot(c, k, Len(rt.backends))]]}
  IN CHOOSE k \in hits : \A j \in hits : k <= j

(* If the t-th probe is healthy, the scan ends there or before, on a       *)
(* healthy backend.                                                        *)
LEMMA ScanResult ==
  ASSUME NEW rt, rt.backends \in Seq(Backends), NEW n \in Nat \ {0}, n = Len(rt.backends),
         NEW hl, NEW c \in 0 .. CounterModulus - 1,
         NEW t \in 0 .. n - 1, hl[rt.backends[Slot(c, t, n)]]
  PROVE  /\ FirstHit(rt, hl, c) \in 0 .. t
         /\ hl[rt.backends[Slot(c, FirstHit(rt, hl, c), n)]]
         /\ RoundRobin(rt, hl, c) = <<rt.backends[Slot(c, FirstHit(rt, hl, c), n)],
                                      (c + FirstHit(rt, hl, c) + 1) % CounterModulus>>
<1> DEFINE hits == {k \in 0 .. n - 1 : hl[rt.backends[Slot(c, k, n)]]}
           first1 == CHOOSE k \in hits : \A j \in hits : k <= j
<1>1. t \in hits
  OBVIOUS
<1>2. RoundRobin(rt, hl, c) =
        <<rt.backends[Slot(c, first1, n)], (c + first1 + 1) % CounterModulus>>
  BY <1>1 DEF RoundRobin
<1>3. \E k \in hits : \A j \in hits : k <= j
  <2>1. hits \in SUBSET Nat
    OBVIOUS
  <2>2. PICK k \in hits : \A j \in hits : ~ (<<j, k>> \in OpToRel(<, Nat))
    BY ZenonT(40), <1>1, <2>1, WFMin, NatLessThanWellFounded
  <2>3. \A j \in hits : ~ (j < k)
    BY <2>1, <2>2 DEF OpToRel
  <2> QED BY <2>1, <2>3
<1>4. first1 \in hits /\ first1 <= t
  BY <1>1, <1>3
<1>5. FirstHit(rt, hl, c) = first1
  BY DEF FirstHit
<1> HIDE DEF first1
<1>6. first1 \in 0 .. t /\ hl[rt.backends[Slot(c, first1, n)]]
  BY <1>4
<1> QED BY <1>2, <1>5, <1>6

(* select takes a dead backend only when it has no choice. *)
LEMMA SelectHealthy ==
  ASSUME NEW rt, rt.backends \in Seq(Backends), rt.backends # <<>>,
         NEW hl, NEW c \in 0 .. CounterModulus - 1, WholeScan(c, Len(rt.backends)),
         NEW pick \in Select(rt, hl, c)
  PROVE  \/ Len(rt.backends) = 1
         \/ hl[pick[1]]
         \/ \A i \in DOMAIN rt.backends : ~hl[rt.backends[i]]
<1>1. PICK n \in Nat \ {0} : n = Len(rt.backends) /\ DOMAIN rt.backends = 1 .. n
  OBVIOUS
<1> SUFFICES ASSUME n # 1, NEW i \in 1 .. n, hl[rt.backends[i]] PROVE hl[pick[1]]
  BY <1>1
<1>2. CASE WeightedCandidates(rt, hl) # {}
  <2>1. PICK j \in WeightedCandidates(rt, hl) : pick = <<rt.backends[j], c>>
    BY <1>1, <1>2 DEF Select
  <2> QED BY <2>1 DEF WeightedCandidates
<1>3. CASE WeightedCandidates(rt, hl) = {}
  <2>1. pick = RoundRobin(rt, hl, c)
    BY <1>1, <1>3 DEF Select
  <2>2. PICK t \in 0 .. n - 1 : Slot(c, t, n) = i
    BY <1>1, ScanReaches
  <2>n. n = Len(rt.backends)
    BY <1>1
  <2>h. hl[rt.backends[Slot(c, t, n)]]
    BY <2>2
  <2>3. /\ hl[rt.backends[Slot(c, FirstHit(rt, hl, c), n)]]
        /\ RoundRobin(rt, hl, c) = <<rt.backends[Slot(c, FirstHit(rt, hl, c), n)],
                                     (c + FirstHit(rt, hl, c) + 1) % CounterModulus>>
    BY <2>n, <2>h, ScanResult
  <2> QED BY <2>1, <2>3
<1> QED BY <1>2, <1>3

(* As long as no counter wraps in the middle of a scan. *)
ScansWhole == \A h \in Hosts : \A rt \in Routes : WholeScan(counters[h], Len(rt.backends))

(* The route a task holds has the shape of a route of a table. *)
LEMMA RouteShape ==
  ASSUME TypeOK, NEW r \in Requests, route[r].backends # <<>>
  PROVE  route[r] \in Routes /\ route[r].backends \in Seq(Backends)
<1>1. route[r] \in Routes
  BY DEF TypeOK, NoRoute
<1>2. PICK t \in Tables, h \in Hosts : route[r] = t[h]
  BY <1>1 DEF Routes
<1> QED BY <1>1, <1>2, ForwardingAssumption

(* Only Choose selects, and it selects what select returned. *)
LEMMA ChooseHealthy ==
  ASSUME TypeOK, ScansWhole, [Next]_vars, NEW r \in Requests,
         pc[r] = "routed", pc'[r] = "selected"
  PROVE  \/ Len(route[r].backends) = 1
         \/ backend'[r] = route[r].bypass
         \/ health[backend'[r]]
         \/ \A i \in DOMAIN route[r].backends : ~health[route[r].backends[i]]
<1>1. Choose(r)
  <2>1. ASSUME NEW q \in Requests, Handle(q), q # r PROVE pc'[r] = pc[r]
    BY <2>1 DEF TypeOK, Handle, Receive, NoRouteTarget, Choose, AnswerEarly, ShortCircuit, Unbuildable,
                Admit, Respond, BodyEnds, Retry, Fail, TimeOut, Cancel, Goto, Answer, Settle
  <2>2. ASSUME Handle(r) PROVE Choose(r)
    BY <2>2 DEF TypeOK, Handle, Receive, NoRouteTarget, AnswerEarly, ShortCircuit, Unbuildable,
                Admit, Respond, BodyEnds, Retry, Fail, TimeOut, Expired, Cancel, Goto, Answer, Settle
  <2>3. ASSUME ~\E q \in Requests : Handle(q) PROVE pc' = pc
    BY <2>3 DEF Next, AdminReset, SetHealth, Reload, Tick, vars
  <2> QED BY <2>1, <2>2, <2>3
<1>2. PICK pick \in Select(route[r], health, counters[host[r]]), match \in BOOLEAN :
        backend' = [backend EXCEPT ![r] =
                      IF match /\ route[r].bypass # NoBackend THEN route[r].bypass ELSE pick[1]]
  BY <1>1 DEF Choose
<1>3. backend'[r] = route[r].bypass \/ backend'[r] = pick[1]
  BY <1>2 DEF TypeOK
<1>4. host[r] \in Hosts /\ counters[host[r]] \in 0 .. CounterModulus - 1
  BY DEF TypeOK
<1>5. /\ route[r] \in Routes /\ route[r].backends \in Seq(Backends) /\ route[r].backends # <<>>
      /\ WholeScan(counters[host[r]], Len(route[r].backends))
  BY <1>1, <1>4, RouteShape DEF Choose, ScansWhole
<1> QED BY <1>3, <1>4, <1>5, SelectHealthy

(* A failure charged to a half-open circuit opens it anew. *)
LEMMA ChargeReblocks ==
  ASSUME TaskInv, [Next]_vars, NEW b \in Backends,
         StateOf(circuit, b) = "half-open", circuit'[b].failures > circuit[b].failures
  PROVE  StateOf(circuit, b)' = "open" /\ circuit'[b].elapsed = 0
<1>0. circuit \in [Backends -> CircuitState] /\ circuit[b].failures \in Nat /\ circuit[b].open
  BY DEF TaskInv, TypeOK, CircuitState, StateOf
<1>1. PICK r \in Requests : pc[r] \in {"sent", "retry"} /\ Charge(r)
  <2>1. ASSUME ~\E r \in Requests : pc[r] \in {"sent", "retry"} /\ Charge(r)
        PROVE  \/ UNCHANGED circuit
               \/ \E d \in Backends : circuit' = RecordSuccess(circuit, d)
               \/ circuit' = Age(circuit)
    <3>1. ASSUME NEW r \in Requests, Respond(r) PROVE \E d \in Backends : circuit' = RecordSuccess(circuit, d)
      BY <3>1 DEF Respond, TaskInv, InFlight
    <3>2. ASSUME NEW d \in Backends, AdminReset(d) PROVE circuit' = RecordSuccess(circuit, d)
      BY <3>2 DEF AdminReset, RecordSuccess, ResetCircuit
    <3>3. ASSUME NEW r \in Requests, Handle(r), ~Respond(r) PROVE UNCHANGED circuit
      BY <2>1, <3>3 DEF Handle, Receive, NoRouteTarget, Choose, AnswerEarly, ShortCircuit, Unbuildable,
                Admit, BodyEnds, Retry, Fail, TimeOut, Expired, Cancel, Goto, charges
    <3> QED BY <3>1, <3>2, <3>3 DEF Next, SetHealth, Reload, Tick, vars, charges
  <2>2. ASSUME NEW d \in Backends, circuit' = RecordSuccess(circuit, d) PROVE FALSE
    <3>1. circuit'[b] \in {Untracked, circuit[b]}
      BY <1>0, <2>2, CircuitOps
    <3> QED BY <1>0, <3>1, UntrackedFacts
  <2>3. ASSUME circuit' = Age(circuit) PROVE FALSE
    <3>1. circuit'[b].failures = circuit[b].failures
      BY <1>0, <2>3, AgeOps
    <3> QED BY <1>0, <3>1
  <2> QED BY <1>0, <2>1, <2>2, <2>3
<1>2. backend[r] \in Backends
  BY <1>1 DEF TaskInv, InFlight
<1>3. backend[r] = b
  <2> SUFFICES ASSUME b # backend[r] PROVE FALSE
    OBVIOUS
  <2>1. circuit'[b] = circuit[b]
    BY <1>0, <1>1, <1>2, CircuitOps DEF Charge
  <2> QED BY <1>0, <2>1
<1>4. circuit'[b] = [failures |-> circuit[b].failures + 1, elapsed |-> 0,
                     open |-> circuit[b].open \/ circuit[b].failures + 1 >= Threshold]
  BY <1>0, <1>1, <1>3 DEF Charge, RecordFailure
<1>5. circuit'[b].elapsed = 0
  BY <1>4
<1>6. circuit'[b].open
  <2>1. circuit'[b].open = (circuit[b].open \/ circuit[b].failures + 1 >= Threshold)
    BY <1>4
  <2> QED BY <1>0, <2>1, Zenon
<1> QED BY <1>5, <1>6, RecoveryAssumption DEF StateOf, Recovered

(***************************************************************************)
(* The router chooses a dead backend only where it has no choice, and a    *)
(* failure of a half-open circuit blocks its backend again, for any        *)
(* tables, requests and thresholds, as long as no scan of a backend list   *)
(* runs over the end of its counter.                                       *)
(***************************************************************************)
THEOREM RoutingDisciplined == Spec /\ []ScansWhole => RoutingDiscipline
<1>1. TaskInv /\ ScansWhole /\ [Next]_vars =>
        [\A r \in Requests :
           (pc[r] = "routed" /\ pc'[r] = "selected") =>
             LET bs == route[r].backends
             IN \/ Len(bs) = 1
                \/ backend'[r] = route[r].bypass
                \/ health[backend'[r]]
                \/ \A i \in DOMAIN bs : ~health[bs[i]]]_vars
  BY ChooseHealthy DEF TaskInv
<1>2. TaskInv /\ [Next]_vars =>
        [\A b \in Backends :
           (StateOf(circuit, b) = "half-open" /\ circuit'[b].failures > circuit[b].failures)
             => (StateOf(circuit, b)' = "open" /\ circuit'[b].elapsed = 0)]_vars
  BY ChargeReblocks
<1> QED
  BY <1>1, <1>2, InitTask, NextTask, PTL
  DEF Spec, RoutingDiscipline, DeadOnlyWithoutChoice, FailureReblocks

(* How far round the list the k-th selection starts: before it has passed  *)
(* the backend at distance d, and at least one further each time.          *)
Approaches(c, from, k, d) == \E a \in k .. d : from[k] = (c + a) % CounterModulus

(* A selection that does not take the backend at distance d starts the     *)
(* next one nearer to it and not behind it.                                *)
LEMMA NextApproach ==
  ASSUME NEW rt, rt.backends \in Seq(Backends), NEW n \in Nat \ {0}, n = Len(rt.backends),
         NEW hl, NEW c \in 0 .. CounterModulus - 1, NEW from, NEW k \in 0 .. n - 1,
         from[k] \in 0 .. CounterModulus - 1,
         from[k + 1] = RoundRobin(rt, hl, from[k])[2],
         NEW d \in 0 .. n - 1, hl[rt.backends[Slot(c, d, n)]],
         Approaches(c, from, k, d),
         RoundRobin(rt, hl, from[k])[1] # rt.backends[Slot(c, d, n)]
  PROVE  Approaches(c, from, k + 1, d)
<1>0. PICK m \in Nat \ {0} : m = CounterModulus
  BY CounterAssumption
<1>1. PICK a \in k .. d : from[k] = (c + a) % m
  BY <1>0 DEF Approaches
<1>2. PICK t \in 0 .. n - 1 : t = d - a
  BY <1>1
<1>3. PICK x \in Nat : x = c + a
  BY <1>0, <1>1
<1>5. PICK g \in 0 .. m - 1 : g = from[k] /\ g = x % m
  BY <1>0, <1>1, <1>3
<1>4. Slot(g, t, n) = Slot(c, d, n)
  <2>0. ((x % m) + t) % m = (x + t) % m
    <3>1. t \in Nat
      BY <1>2
    <3> QED BY <3>1, AddRemainder
  <2>1. (g + t) % m = (x + t) % m
    BY <1>5, <2>0
  <2>2. x + t = c + d
    BY <1>0, <1>1, <1>2, <1>3
  <2> QED BY <1>0, <2>1, <2>2 DEF Slot
<1>6. PICK f \in 0 .. t : /\ f = FirstHit(rt, hl, g)
                          /\ RoundRobin(rt, hl, g) = <<rt.backends[Slot(g, f, n)], (g + f + 1) % m>>
  <2>1. hl[rt.backends[Slot(g, t, n)]]
    BY <1>4
  <2>2. /\ FirstHit(rt, hl, g) \in 0 .. t
        /\ RoundRobin(rt, hl, g) = <<rt.backends[Slot(g, FirstHit(rt, hl, g), n)],
                                     (g + FirstHit(rt, hl, g) + 1) % m>>
    BY SMTT(30), <1>0, <2>1, ScanResult
  <2> QED BY <2>2
<1>7. f # t
  <2>1. RoundRobin(rt, hl, g)[1] = rt.backends[Slot(g, f, n)]
    BY <1>6
  <2>2. RoundRobin(rt, hl, g)[1] # rt.backends[Slot(g, t, n)]
    BY <1>4, <1>5
  <2> QED BY <2>1, <2>2
<1>8. PICK y \in Nat : y = f + 1
  BY <1>6
<1>9. from[k + 1] = (g + y) % m
  <2>0. f \in Nat /\ g \in Nat
    BY <1>2
  <2>1. g + f + 1 = g + y
    BY <2>0, <1>8
  <2>2. RoundRobin(rt, hl, g)[2] = (g + f + 1) % m
    BY <1>6
  <2> QED BY <1>5, <2>1, <2>2
<1>10. from[k + 1] = (x + y) % m
  <2>1. ((x % m) + y) % m = (x + y) % m
    BY AddRemainder
  <2> QED BY <1>5, <1>9, <2>1
<1>11. PICK b \in (k + 1) .. d : b = a + y
  <2>1. a \in Int /\ k <= a /\ a <= d /\ f \in Int /\ 0 <= f /\ f < d - a
    BY <1>2, <1>7
  <2> QED BY <1>8, <2>1
<1>12. x + y = c + b
  BY <1>0, <1>1, <1>3, <1>8, <1>11
<1> QED BY <1>0, <1>10, <1>11, <1>12 DEF Approaches

(* One rotation of the scan, and the backends it takes. *)
Rotated(rt, hl, n, from) == \A k \in 1 .. n : from[k] = RoundRobin(rt, hl, from[k - 1])[2]
Taken(rt, hl, n, from, b) == \E k \in 0 .. n - 1 : RoundRobin(rt, hl, from[k])[1] = b

(* The selections of one rotation reach every healthy backend. *)
LEMMA RotationReaches ==
  ASSUME NEW rt, rt.backends \in Seq(Backends), NEW n \in Nat \ {0}, n = Len(rt.backends),
         NEW hl, NEW c \in 0 .. CounterModulus - 1, WholeScan(c, n),
         NEW from \in [0 .. n -> 0 .. CounterModulus - 1], from[0] = c,
         Rotated(rt, hl, n, from), NEW i \in 1 .. n, hl[rt.backends[i]]
  PROVE  Taken(rt, hl, n, from, rt.backends[i])
<1> SUFFICES ASSUME \A k \in 0 .. n - 1 : RoundRobin(rt, hl, from[k])[1] # rt.backends[i]
             PROVE  FALSE
  BY DEF Taken
<1>1. PICK d \in 0 .. n - 1 : Slot(c, d, n) = i
  BY ScanReaches
<1> DEFINE bad == {k \in 0 .. n : ~Approaches(c, from, k, d)}
<1>2. n \in bad
  BY DEF Approaches
<1>3. bad \in SUBSET Nat
  OBVIOUS
<1>4. PICK k \in bad : \A j \in bad : ~(<<j, k>> \in OpToRel(<, Nat))
  BY <1>2, <1>3, WFMin, NatLessThanWellFounded
<1>5. \A j \in bad : ~(j < k)
  BY <1>3, <1>4 DEF OpToRel
<1>6. k # 0
  <2>1. c % CounterModulus = c
    BY CounterAssumption, Small
  <2>2. Approaches(c, from, 0, d)
    <3>1. 0 \in 0 .. d /\ c + 0 = c
      BY CounterAssumption
    <3> QED BY <2>1, <3>1 DEF Approaches
  <2> QED BY <2>2
<1>7. PICK j \in 0 .. n - 1 : k = j + 1
  BY <1>6
<1>8. Approaches(c, from, j, d)
  BY <1>5, <1>7
<1>9. from[j + 1] = RoundRobin(rt, hl, from[j])[2] /\ from[j] \in 0 .. CounterModulus - 1
  <2>1. j + 1 \in 1 .. n /\ (j + 1) - 1 = j /\ j \in 0 .. n
    OBVIOUS
  <2> QED BY <2>1 DEF Rotated
<1>10. hl[rt.backends[Slot(c, d, n)]] /\ RoundRobin(rt, hl, from[j])[1] # rt.backends[Slot(c, d, n)]
  BY <1>1
<1>11. Approaches(c, from, j + 1, d)
  BY <1>8, <1>9, <1>10, NextApproach
<1> QED BY <1>4, <1>7, <1>11

(***************************************************************************)
(* However long the list of backends is and wherever the counter has got   *)
(* to, one rotation reaches every healthy backend, as long as no scan runs *)
(* over the end of the counter.                                            *)
(***************************************************************************)
THEOREM NobodyStarves == Spec /\ []ScansWhole => []NoStarvedBackend
<1>1. TypeOK /\ ScansWhole => NoStarvedBackend
  <2> SUFFICES ASSUME TypeOK, ScansWhole, NEW h \in Hosts
               PROVE  \A from \in [0 .. Len(routing[h].backends) -> 0 .. CounterModulus - 1] :
                        (Len(routing[h].backends) > 1 /\ Rotation(routing[h], counters[h], from)) =>
                          \A i \in 1 .. Len(routing[h].backends) : health[routing[h].backends[i]] =>
                            \E k \in 0 .. Len(routing[h].backends) - 1 :
                              RoundRobin(routing[h], health, from[k])[1] = routing[h].backends[i]
    BY DEF NoStarvedBackend
  <2>1. routing[h] \in Routes /\ routing[h].backends \in Seq(Backends)
    BY ForwardingAssumption DEF TypeOK, Routes
  <2>2. PICK n \in Nat : n = Len(routing[h].backends)
    BY <2>1
  <2>3. counters[h] \in 0 .. CounterModulus - 1 /\ WholeScan(counters[h], n)
    BY <2>1, <2>2 DEF TypeOK, ScansWhole
  <2> SUFFICES ASSUME NEW from \in [0 .. n -> 0 .. CounterModulus - 1], n > 1,
                      Rotation(routing[h], counters[h], from),
                      NEW i \in 1 .. n, health[routing[h].backends[i]]
               PROVE  \E k \in 0 .. n - 1 :
                        RoundRobin(routing[h], health, from[k])[1] = routing[h].backends[i]
    BY <2>2
  <2>4. /\ from[0] = counters[h]
        /\ \A k \in 1 .. n : from[k] = RoundRobin(routing[h], health, from[k - 1])[2]
    BY <2>2 DEF Rotation
  <2>5. n \in Nat \ {0}
    OBVIOUS
  <2>6. PICK rt, c, hl : rt = routing[h] /\ c = counters[h] /\ hl = health
    OBVIOUS
  <2>7. /\ rt.backends \in Seq(Backends) /\ n = Len(rt.backends) /\ hl[rt.backends[i]]
        /\ c \in 0 .. CounterModulus - 1 /\ WholeScan(c, n) /\ from[0] = c
        /\ Rotated(rt, hl, n, from)
    BY <2>1, <2>2, <2>3, <2>4, <2>6 DEF Rotated
  <2>8. Taken(rt, hl, n, from, rt.backends[i])
    BY <2>5, <2>7, RotationReaches
  <2> QED BY <2>6, <2>8 DEF Taken
<1> QED BY <1>1, TypeCorrect, PTL
=============================================================================
