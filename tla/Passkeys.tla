------------------------------- MODULE Passkeys -------------------------------
(***************************************************************************)
(* Passkey ceremonies: registration, login with an address and login with  *)
(* a discoverable credential (auth-server/src/handlers/passkey_flow.rs     *)
(* over PasskeyChallengeStore and PasskeyStore in                          *)
(* auth-core/src/store/pg.rs).                                             *)
(*                                                                         *)
(* A challenge row is consumed by the first finish that presents it; the   *)
(* assertion is then verified (a library), the credential read, its        *)
(* counter raised by one UPDATE and a session created.  An authenticator   *)
(* counts its assertions or always says 0, and may have been cloned.       *)
(***************************************************************************)
EXTENDS Integers, FiniteSets

CONSTANTS
  PasskeyOwners,        \* users
  Credentials,   \* credentials that authenticators hold
  OwnerOf,       \* the user whose authenticator holds each of them
  Counting,      \* the credentials whose authenticator counts
  Copies,        \* an authenticator and its clones
  Challenges,    \* passkey_challenges rows that can be created
  Finishes,      \* concurrent finish calls, each used once
  MaxCount       \* bound: assertions of one copy of an authenticator

ASSUME PasskeyAssumption ==
  /\ OwnerOf \in [Credentials -> PasskeyOwners] /\ Counting \subseteq Credentials
  /\ MaxCount \in Nat

VARIABLES
  challenge,     \* passkey_challenges
  stored,        \* user_passkeys: the sign_count of each credential on file
  counter,       \* of each copy of an authenticator
  finish,        \* where each finish call is
  opened         \* history: the sessions that were created

passkeyVars == <<challenge, stored, counter, finish, opened>>

Never == -1
Deleted == -2
NoChallenge == [state |-> "none"]
Idle == [at |-> "idle"]
FinishOver == [at |-> "over"]

PasskeyTypeOK ==
  /\ \A ch \in Challenges : challenge[ch] = NoChallenge \/
       challenge[ch] \in [state : {"open", "gone"}, kind : {"auth", "discover", "register"},
                          allowed : SUBSET Credentials, user : PasskeyOwners]
  /\ stored \in [Credentials -> {Never, Deleted} \cup (0 .. MaxCount)]
  /\ counter \in [Credentials -> [Copies -> 0 .. MaxCount]]

PasskeyInit ==
  /\ challenge = [ch \in Challenges |-> NoChallenge]
  /\ stored = [k \in Credentials |-> Never]
  /\ counter = [k \in Credentials |-> [i \in Copies |-> 0]]
  /\ finish = [f \in Finishes |-> Idle]
  /\ opened = {}

Stored(k) == stored[k] >= 0
OnFile(u) == {k \in Credentials : OwnerOf[k] = u /\ Stored(k)}

(* persist_challenge *)
PersistChallenge(ch, kind, user, allowed) ==
  /\ challenge[ch] = NoChallenge
  /\ challenge' = [challenge EXCEPT ![ch] =
       [state |-> "open", kind |-> kind, user |-> user, allowed |-> allowed]]
  /\ UNCHANGED <<stored, counter, finish, opened>>

(* auth_start: the credentials on file of the address. *)
AuthStart(ch, u) == OnFile(u) # {} /\ PersistChallenge(ch, "auth", u, OnFile(u))

(* discover_start: nobody in particular. *)
DiscoverStart(ch, u) == PersistChallenge(ch, "discover", u, {})

(* register_start: for the user of the session; the authenticator makes a  *)
(* new credential.                                                         *)
RegisterStart(ch, u) ==
  PersistChallenge(ch, "register", u, {k \in Credentials : OwnerOf[k] = u /\ stored[k] = Never})

(* The row expires. *)
ChallengeExpires(ch) ==
  /\ challenge[ch].state = "open"
  /\ challenge' = [challenge EXCEPT ![ch].state = "gone"]
  /\ UNCHANGED <<stored, counter, finish, opened>>

(* Mutant: the row is read and left there. *)
ReadChallenge(ch) == challenge[ch].state = "open" /\ UNCHANGED challenge

(* consume: DELETE ... RETURNING. *)
ConsumeChallenge(ch) ==
  /\ challenge[ch].state = "open"
  /\ challenge' = [challenge EXCEPT ![ch].state = "gone"]

(* register_finish: the challenge must be a registration of this user; the *)
(* credential is stored with sign_count 0.                                 *)
RegisterFinish(ch, k, u) ==
  /\ ConsumeChallenge(ch)
  /\ IF challenge[ch].kind = "register" /\ challenge[ch].user = u /\ k \in challenge[ch].allowed
     THEN stored[k] = Never /\ stored' = [stored EXCEPT ![k] = 0]
     ELSE UNCHANGED stored
  /\ UNCHANGED <<counter, finish, opened>>

(* The assertion of a credential says 0 or the next value of its counter. *)
PresentAssertion(k, i) ==
  IF k \in Counting
  THEN /\ counter[k][i] < MaxCount
       /\ counter' = [counter EXCEPT ![k][i] = @ + 1]
  ELSE UNCHANGED counter

Says(k, i) == IF k \in Counting THEN counter[k][i] + 1 ELSE 0

(* auth_finish and discover_finish: consume; the ceremony must be of the   *)
(* handler's kind, and the assertion verify against the credentials that   *)
(* auth_start saw, or that the user of the credential has now.             *)
FinishConsume(f, ch, k, i, kind) ==
  /\ finish[f] = Idle
  /\ ConsumeChallenge(ch)
  /\ PresentAssertion(k, i)
  /\ finish' = [finish EXCEPT ![f] =
       IF /\ challenge[ch].kind = kind
          /\ k \in (IF kind = "auth" THEN challenge[ch].allowed ELSE OnFile(OwnerOf[k]))
       THEN [at |-> "find", cred |-> k, says |-> Says(k, i), challenge |-> ch] ELSE FinishOver]
  /\ UNCHANGED <<stored, opened>>

(* find_by_credential_id *)
FinishFind(f) ==
  /\ finish[f].at = "find"
  /\ finish' = [finish EXCEPT ![f] =
       IF ~Stored(finish[f].cred) THEN FinishOver
       ELSE [finish[f] EXCEPT !.at = IF finish[f].says > 0 THEN "counter" ELSE "session"]]
  /\ UNCHANGED <<challenge, stored, counter, opened>>

(* Mutant: a counter that has not moved passes. *)
NotLower(k, says) == Stored(k) /\ stored[k] <= says

(* update_counter: UPDATE ... WHERE sign_count < $1. *)
Raises(k, says) == Stored(k) /\ stored[k] < says

FinishCounter(f) ==
  LET k == finish[f].cred IN
  /\ finish[f].at = "counter"
  /\ IF Raises(k, finish[f].says)
     THEN /\ stored' = [stored EXCEPT ![k] = finish[f].says]
          /\ finish' = [finish EXCEPT ![f].at = "session"]
     ELSE finish' = [finish EXCEPT ![f] = FinishOver] /\ UNCHANGED stored
  /\ UNCHANGED <<challenge, counter, opened>>

(* SessionStore::create, with mfa_verified_at. *)
FinishSession(f) ==
  /\ finish[f].at = "session"
  /\ opened' = opened \cup
       {[by |-> f, cred |-> finish[f].cred, says |-> finish[f].says, challenge |-> finish[f].challenge]}
  /\ finish' = [finish EXCEPT ![f] = FinishOver]
  /\ UNCHANGED <<challenge, stored, counter>>

(* delete: the user removes a passkey of theirs; an authenticator never    *)
(* makes the same credential again.                                        *)
DeletePasskey(k) ==
  /\ Stored(k)
  /\ stored' = [stored EXCEPT ![k] = Deleted]
  /\ UNCHANGED <<challenge, counter, finish, opened>>

PasskeyNext ==
  \/ \E ch \in Challenges, u \in PasskeyOwners :
       AuthStart(ch, u) \/ DiscoverStart(ch, u) \/ RegisterStart(ch, u)
  \/ \E ch \in Challenges, k \in Credentials, u \in PasskeyOwners : RegisterFinish(ch, k, u)
  \/ \E ch \in Challenges : ChallengeExpires(ch)
  \/ \E f \in Finishes, ch \in Challenges, k \in Credentials, i \in Copies,
        kind \in {"auth", "discover"} : FinishConsume(f, ch, k, i, kind)
  \/ \E f \in Finishes : FinishFind(f) \/ FinishCounter(f) \/ FinishSession(f)
  \/ \E k \in Credentials : DeletePasskey(k)

-------------------------------------------------------------------------------
(* Properties. *)

(***************************************************************************)
(* A challenge completes one ceremony: whoever presents it again, at the   *)
(* same moment too, gets no second session.                                *)
(***************************************************************************)
ChallengeOpensOneSession ==
  \A a, b \in opened : a.challenge = b.challenge => a.by = b.by

(***************************************************************************)
(* Clone detection (#17): of an authenticator and its clones only one gets *)
(* a session for a counter value, whatever the order of their finishes.    *)
(***************************************************************************)
CounterUsedOnce ==
  \A a, b \in opened : a.cred = b.cred /\ a.says = b.says /\ a.says > 0 => a.by = b.by
=============================================================================
