------------------------------- MODULE Policy -------------------------------
(***************************************************************************)
(* The role-based policy of auth-core/src/policy.rs and the risk score of  *)
(* auth-core/src/risk.rs: pure decisions that the membership and session   *)
(* modules use.  A role that the hierarchy does not know ranks below all.  *)
(***************************************************************************)
EXTENDS Naturals, Sequences, FiniteSets

LOCAL INSTANCE FiniteSetsExt

(* default_policy: the hierarchy, highest first. *)
Hierarchy == <<"OWNER", "ADMIN", "OPERATOR", "MEMBER", "VIEWER">>

KnownRoles == {Hierarchy[i] : i \in DOMAIN Hierarchy}
IsKnownRole(role) == role \in KnownRoles

(* rank: usize::MAX for an unknown role. *)
Rank(role) ==
  IF IsKnownRole(role) THEN CHOOSE i \in DOMAIN Hierarchy : Hierarchy[i] = role
  ELSE Len(Hierarchy) + 1

IsAtLeast(a, b) == Rank(a) <= Rank(b)

(* The permissions of default_policy that the handlers ask for, by the     *)
(* lowest role that has them; every higher role inherits them.             *)
LowestWith ==
  [change_member_role |-> "ADMIN", remove_members |-> "ADMIN"]

(* can: an unknown role has no permission. *)
Can(role, permission) == IsKnownRole(role) /\ IsAtLeast(role, LowestWith[permission])

(* enforce_min_role: an unknown minimum admits nobody. *)
EnforceMinRole(roles, minimum) ==
  IsKnownRole(minimum) /\ \E r \in roles : IsAtLeast(r, minimum)

-------------------------------------------------------------------------------
(* risk.rs *)

MaxLevel == 6
ActionThreshold == 4
BlockThreshold == 5

(* score: a base of 1 and the weight of every signal that was observed. *)
SignalWeight ==
  [new_device |-> 2, impossible_travel |-> 3, asn_or_geo_changed |-> 1,
   ip_changed |-> 1, ua_changed |-> 1, off_hours |-> 1]

Score(signals, extra) ==
  LET sum == 1 + MapThenSumSet(LAMBDA s : SignalWeight[s], signals) + extra
  IN  IF sum > MaxLevel THEN MaxLevel ELSE sum

(* decide *)
RiskDecision(level) ==
  CASE level >= BlockThreshold -> "Block"
    [] level >= ActionThreshold /\ level < BlockThreshold -> "StepUp"
    [] OTHER -> "Allow"

(* evaluate *)
Evaluate(signals, extra) == RiskDecision(Score(signals, extra))
=============================================================================
