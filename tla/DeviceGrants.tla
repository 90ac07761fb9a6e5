----------------------------- MODULE DeviceGrants -----------------------------
(***************************************************************************)
(* The device authorization grant: a device asks for a code, a signed-in   *)
(* user approves or denies it, and the device polls until it gets a token  *)
(* (auth-server/src/handlers/device.rs and DeviceGrantStore in             *)
(* auth-core/src/store/pg.rs).                                             *)
(*                                                                         *)
(* decide and poll lock the row for one transaction.  A poll that finds    *)
(* the grant approved only reads it; the token is issued after the         *)
(* transaction, and the row is deleted by a third statement whose error is *)
(* ignored.  Several polls of one code can be in progress.                 *)
(***************************************************************************)
EXTENDS Naturals

CONSTANTS
  Grants,         \* device codes that can be asked for
  Approvers,      \* the users who can have a session
  Polls,          \* concurrent token requests
  GrantTtl,       \* device_ttl_secs
  PollInterval,   \* interval_secs
  MaxTime,        \* bound: the clock stops
  MaxLostDeletes  \* bound: deletes that fail

ASSUME DeviceAssumption ==
  GrantTtl \in Nat \ {0} /\ PollInterval \in Nat /\ MaxTime \in Nat

VARIABLES
  grant,      \* device_authorization_grants, by device code
  polling,    \* where each token request is, and the grant it has read
  time,       \* now()
  lost,       \* deletes that failed so far
  tokensFor,  \* history: the identities tokens were issued for, with the number of each
  firstWord   \* history: the first decision on each grant

deviceVars == <<grant, polling, time, lost, tokensFor, firstWord>>

(* Options are sets of at most one element. *)
NoGrant == [status |-> "none"]
Undecided == [approved |-> FALSE, by |-> {}]
Resting == [at |-> "rest"]

GrantRecord ==
  [status : {"pending", "approved", "denied"}, user : SUBSET Approvers,
   polled : 0 .. MaxTime, everPolled : BOOLEAN, expires : Nat]

DeviceTypeOK ==
  /\ grant \in [Grants -> GrantRecord \cup {NoGrant}]
  /\ polling \in [Polls -> {Resting} \cup
                           [at : {"issue", "consume"}, of : Grants, user : SUBSET Approvers]]
  /\ time \in 0 .. MaxTime /\ lost \in 0 .. MaxLostDeletes
  /\ tokensFor \in [Grants -> [Approvers -> Nat]]

DeviceInit ==
  /\ grant = [g \in Grants |-> NoGrant]
  /\ polling = [p \in Polls |-> Resting]
  /\ time = 0 /\ lost = 0
  /\ tokensFor = [g \in Grants |-> [u \in Approvers |-> 0]]
  /\ firstWord = [g \in Grants |-> Undecided]

-------------------------------------------------------------------------------
(* device_authorization: a fresh code, so a grant is created once. *)
DeviceAuthorization(g) ==
  /\ grant[g] = NoGrant /\ firstWord[g] = Undecided
  /\ grant' = [grant EXCEPT ![g] =
       [status |-> "pending", user |-> {}, polled |-> 0, everPolled |-> FALSE,
        expires |-> time + GrantTtl]]
  /\ UNCHANGED <<polling, time, lost, tokensFor, firstWord>>

Expired(g) == grant[g].expires <= time

(* Mutant: the decision does not ask whether there was one. *)
OverwriteDecision(u, g, approve) ==
  /\ grant[g] # NoGrant /\ ~Expired(g)
  /\ grant' = [grant EXCEPT ![g].status = IF approve THEN "approved" ELSE "denied",
                            ![g].user = {u}]
  /\ firstWord' = [firstWord EXCEPT ![g] =
       IF @ = Undecided THEN [approved |-> approve, by |-> {u}] ELSE @]
  /\ UNCHANGED <<polling, time, lost, tokensFor>>

(* decide: SELECT ... FOR UPDATE, then the update; an unknown, expired or  *)
(* resolved code is refused and changes nothing.                           *)
Decide(u, g, approve) ==
  /\ grant[g] # NoGrant /\ ~Expired(g)
  /\ grant[g].status = "pending"
  /\ grant' = [grant EXCEPT ![g].status = IF approve THEN "approved" ELSE "denied",
                            ![g].user = {u}]
  /\ firstWord' = [firstWord EXCEPT ![g] =
       IF @ = Undecided THEN [approved |-> approve, by |-> {u}] ELSE @]
  /\ UNCHANGED <<polling, time, lost, tokensFor>>

-------------------------------------------------------------------------------
(* The token request. *)

TooFast(g) == grant[g].everPolled /\ time - grant[g].polled < PollInterval

(* poll of a pending grant: slow_down leaves last_polled_at as it is. *)
PollPending(g) ==
  /\ grant[g].status = "pending"
  /\ ~TooFast(g)
  /\ grant' = [grant EXCEPT ![g].polled = time, ![g].everPolled = TRUE]
  /\ UNCHANGED polling

(* poll of an approved grant: the row is read and stays. *)
PollApproved(p, g) ==
  /\ grant[g].status = "approved"
  /\ polling' = [polling EXCEPT ![p] = [at |-> "issue", of |-> g, user |-> grant[g].user]]
  /\ UNCHANGED grant

(* A denied, expired or unknown code is refused and changes nothing. *)
Poll(p, g) ==
  /\ polling[p] = Resting
  /\ grant[g] # NoGrant /\ ~Expired(g)
  /\ PollPending(g) \/ PollApproved(p, g)
  /\ UNCHANGED <<time, lost, tokensFor, firstWord>>

(* The token is signed for the identity the poll returned. *)
IssueDeviceToken(p) ==
  /\ polling[p].at = "issue"
  /\ \E u \in polling[p].user :
       tokensFor' = [tokensFor EXCEPT ![polling[p].of][u] = @ + 1]
  /\ polling' = [polling EXCEPT ![p].at = "consume"]
  /\ UNCHANGED <<grant, time, lost, firstWord>>

(* consume: the row is deleted. *)
ConsumeGrant(p) ==
  /\ polling[p].at = "consume"
  /\ grant' = [grant EXCEPT ![polling[p].of] = NoGrant]
  /\ polling' = [polling EXCEPT ![p] = Resting]
  /\ UNCHANGED <<time, lost, tokensFor, firstWord>>

(* consume fails, and the error is dropped with `let _`. *)
ConsumeLost(p) ==
  /\ polling[p].at = "consume"
  /\ lost < MaxLostDeletes
  /\ lost' = lost + 1
  /\ polling' = [polling EXCEPT ![p] = Resting]
  /\ UNCHANGED <<grant, time, tokensFor, firstWord>>

(* delete_expired *)
DeleteExpiredGrants ==
  /\ \E g \in Grants : grant[g] # NoGrant /\ Expired(g)
  /\ grant' = [g \in Grants |->
       IF grant[g] # NoGrant /\ Expired(g) THEN NoGrant ELSE grant[g]]
  /\ UNCHANGED <<polling, time, lost, tokensFor, firstWord>>

DeviceTick ==
  /\ time < MaxTime
  /\ time' = time + 1
  /\ UNCHANGED <<grant, polling, lost, tokensFor, firstWord>>

DeviceTokenGrant(p) ==
  \/ \E g \in Grants : Poll(p, g)
  \/ IssueDeviceToken(p) \/ ConsumeGrant(p) \/ ConsumeLost(p)

DeviceNext ==
  \/ \E g \in Grants : DeviceAuthorization(g)
  \/ \E u \in Approvers, g \in Grants, approve \in BOOLEAN : Decide(u, g, approve)
  \/ \E p \in Polls : DeviceTokenGrant(p)
  \/ DeleteExpiredGrants \/ DeviceTick

-------------------------------------------------------------------------------
(* Properties. *)

TokensOf(g) == {u \in Approvers : tokensFor[g][u] > 0}

(***************************************************************************)
(* The first decision on a code stands (decide): a token is only ever      *)
(* issued for the user who approved it first, and none for a code that was *)
(* denied, whoever decides again while polls are in progress.              *)
(***************************************************************************)
FirstDecisionStands ==
  \A g \in Grants :
    TokensOf(g) # {} => firstWord[g].approved /\ TokensOf(g) = firstWord[g].by

(***************************************************************************)
(* "Single-use: invalidate the grant now that a token was issued."         *)
(* (device.rs 298), and poll enforces "single-use semantics on approval"   *)
(* (store/device_grant.rs 67-68): one approval yields one token.  It is    *)
(* what the comments say, not what the code does.                          *)
(***************************************************************************)
DeviceCodeSingleUse ==
  \A g \in Grants : \A u \in Approvers : tokensFor[g][u] <= 1
=============================================================================
