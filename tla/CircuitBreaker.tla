---------------------------- MODULE CircuitBreaker ----------------------------
(***************************************************************************)
(* The per-backend circuit breaker of the gateway (struct CircuitBreaker   *)
(* in gateway/src/proxy.rs), as operations on a table                      *)
(*                                                                         *)
(*     circuit \in [Backends -> CircuitState]                              *)
(*                                                                         *)
(* The code keeps a HashMap with an entry only for backends that have      *)
(* failed since their last success.  record_failure inserts an entry with  *)
(* failures = 0 and increments it in the same critical section, so a       *)
(* stored entry always has failures >= 1 and "no entry" is represented     *)
(* here, without loss, by Untracked (failures = 0).  Every operation runs  *)
(* under the one mutex of the map and is therefore a single step.          *)
(***************************************************************************)
EXTENDS Naturals

CONSTANTS
  Threshold,     \* failures before the circuit opens (code: 5)
  RecoverySecs   \* how long it then stays open       (code: 30)

ASSUME ThresholdAssumption == Threshold \in Nat \ {0}
ASSUME RecoveryAssumption == RecoverySecs \in Nat \ {0}

(***************************************************************************)
(* struct CircuitState.  The code stores the instant last_failure and only *)
(* ever asks for last_failure.elapsed() >= recovery_secs; the model keeps  *)
(* the elapsed time itself, saturating at RecoverySecs.                    *)
(***************************************************************************)
CircuitState ==
  [failures : Nat, elapsed : 0 .. RecoverySecs, open : BOOLEAN]

Untracked == [failures |-> 0, elapsed |-> 0, open |-> FALSE]

(* last_failure.elapsed() >= recovery_secs *)
Recovered(entry) == entry.elapsed >= RecoverySecs

(* Mutant: an open circuit is never half-open. *)
NeverHalfOpen(circuit, b) == ~circuit[b].open

(* is_available: closed, or open for at least the recovery period. *)
IsAvailable(circuit, b) == circuit[b].open => Recovered(circuit[b])

(* Mutant: a success resets the count and leaves the circuit open. *)
SuccessKeepsOpen(circuit, b) ==
  [circuit EXCEPT ![b] = [Untracked EXCEPT !.open = circuit[b].open]]

(* record_success: the entry is removed, whatever its state was. *)
RecordSuccess(circuit, b) == [circuit EXCEPT ![b] = Untracked]

(* Mutant: the circuit opens one failure late. *)
OpensLate(circuit, b) ==
  [circuit EXCEPT ![b] = [failures |-> @.failures + 1, elapsed |-> 0,
                          open |-> @.failures + 1 > Threshold]]

(* Mutant: failures of an open circuit are not counted. *)
CountsOnlyClosed(circuit, b) ==
  [circuit EXCEPT ![b] =
     [failures |-> IF @.open THEN @.failures ELSE @.failures + 1, elapsed |-> 0,
      open |-> @.failures + 1 >= Threshold]]

(* Mutant: last_failure keeps the instant of the first failure. *)
StampsOnce(circuit, b) ==
  [circuit EXCEPT ![b] = [failures |-> @.failures + 1, elapsed |-> @.elapsed,
                          open |-> @.failures + 1 >= Threshold]]

(* record_failure: count, stamp, and open at the threshold. *)
RecordFailure(circuit, b) ==
  [circuit EXCEPT ![b] =
     [failures |-> @.failures + 1,
      elapsed  |-> 0,
      open     |-> @.open \/ @.failures + 1 >= Threshold]]

(* reset: the admin API's forced close. *)
ResetCircuit(circuit, b) == [circuit EXCEPT ![b] = Untracked]

(* state_of / status: what the admin API reports. *)
StateOf(circuit, b) ==
  IF ~circuit[b].open THEN "closed"
  ELSE IF Recovered(circuit[b]) THEN "half-open" ELSE "open"

(* A second passes on the gateway's clock. *)
Age(circuit) ==
  [b \in DOMAIN circuit |->
     [circuit[b] EXCEPT !.elapsed =
        IF circuit[b].failures > 0 /\ @ < RecoverySecs THEN @ + 1 ELSE @]]
===============================================================================
