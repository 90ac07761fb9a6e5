--------------------------- MODULE DurableRegister ---------------------------
(***************************************************************************)
(* What the config store promises of the overlay, whatever steps it takes  *)
(* for it: one value that changes atomically and survives crashes.         *)
(*                                                                         *)
(* An update is computed from the value as it is when the update begins,   *)
(* and no second one begins before the first is over, so none is lost.  It *)
(* ends by becoming the value, by being refused, or in a crash, which      *)
(* leaves either the old value or the new one and never anything else.     *)
(***************************************************************************)
CONSTANTS
  First,          \* the value at the beginning
  Updates,        \* the updates callers ask for
  Apply(_, _)     \* a value and an update give the next value

VARIABLES
  value,    \* the value a reader gets, now or after the next restart
  pending,  \* the outcome of the update under way: {} or one value
  up        \* is the register in service

registerVars == <<value, pending, up>>

Init == value = First /\ pending = {} /\ up = TRUE

Begin(u) ==
  /\ up /\ pending = {}
  /\ pending' = {Apply(value, u)}
  /\ UNCHANGED <<value, up>>

(* The caller is told that its update is made. *)
Acknowledge ==
  /\ pending = {value'}
  /\ pending' = {}
  /\ UNCHANGED up

(* The caller is told that it is not. *)
Refuse ==
  /\ pending # {}
  /\ pending' = {}
  /\ UNCHANGED <<value, up>>

Crash ==
  /\ up
  /\ up' = FALSE
  /\ value' \in {value} \cup pending
  /\ pending' = {}

Restart ==
  /\ ~up
  /\ up' = TRUE
  /\ UNCHANGED <<value, pending>>

Next ==
  \/ \E u \in Updates : Begin(u)
  \/ Acknowledge \/ Refuse \/ Crash \/ Restart

Spec == Init /\ [][Next]_registerVars
===============================================================================
