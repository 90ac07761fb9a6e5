---------------------------- MODULE AccountChooser ----------------------------
(***************************************************************************)
(* The accounts signed in on one browser: the active session cookie, the   *)
(* cookie that remembers the others, and the chooser that switches between *)
(* them (auth-server/src/handlers/accounts.rs, helpers.rs and login in     *)
(* oidc.rs).                                                               *)
(*                                                                         *)
(* A request carries the cookies the browser has when it is sent, and its  *)
(* answer replaces them.  A form may be submitted from a page that was     *)
(* rendered before the cookies changed.                                    *)
(***************************************************************************)
EXTENDS Naturals, Sequences, FiniteSets

LOCAL INSTANCE Functions

CONSTANTS
  Sids,          \* session ids of logins on this browser
  MaxAccounts,   \* MAX_ACCOUNTS
  MaxFailures    \* bound: calls of the session store that fail

NoAccount == "none"

ASSUME ChooserAssumption ==
  /\ NoAccount \notin Sids /\ MaxAccounts \in Nat \ {0} /\ MaxFailures \in Nat

VARIABLES
  active,        \* __volta_session, or NoAccount
  accounts,      \* __volta_accounts
  alive,         \* the sessions that are valid in the store
  adding,        \* /login?add=1 was opened and its login is not complete
  used,          \* the session ids given out so far
  failures,      \* failed calls so far
  letGo         \* history: sessions the browser could not keep

chooserVars == <<active, accounts, alive, adding, used, failures, letGo>>

(* The lists of at most n session ids, and the ids of a list. *)
Lists(n) == UNION {[1 .. m -> Sids] : m \in 0 .. n}
Ids(list) == {list[i] : i \in DOMAIN list}

ActiveAccount == {active} \ {NoAccount}
Known == Ids(accounts) \cup ActiveAccount

ChooserTypeOK ==
  /\ active \in Sids \cup {NoAccount}
  /\ accounts \in Lists(MaxAccounts) /\ IsInjective(accounts)
  /\ alive \subseteq used /\ used \subseteq Sids

ChooserInit ==
  /\ active = NoAccount /\ accounts = << >> /\ alive = {} /\ adding = FALSE
  /\ used = {} /\ failures = 0 /\ letGo = {}

(* dedup_cap_accounts; the lists the handlers build have no duplicates. *)
DedupCapAccounts(ids) == SubSeq(ids, 1, IF Len(ids) > MaxAccounts THEN MaxAccounts ELSE Len(ids))

WithActiveFirst(ids) ==
  IF active = NoAccount \/ active \in Ids(ids) THEN ids ELSE <<active>> \o ids

(* set_accounts_cookie: what does not fit is let go. *)
SetAccountsCookie(ids) ==
  /\ accounts' = DedupCapAccounts(ids)
  /\ letGo' = letGo \cup (Ids(ids) \ Ids(DedupCapAccounts(ids)))

(* Mutant: the active session is not remembered. *)
LoginAddForgetful ==
  /\ ~adding
  /\ accounts' = DedupCapAccounts(accounts)
  /\ adding' = TRUE
  /\ UNCHANGED <<active, alive, used, failures, letGo>>

(* login?add=1 remembers the active session before the login replaces it. *)
LoginAdd ==
  /\ ~adding
  /\ SetAccountsCookie(WithActiveFirst(accounts))
  /\ adding' = TRUE
  /\ UNCHANGED <<active, alive, used, failures>>

(* A login completes and sets the session cookie.  One that was not begun  *)
(* with add=1 lets the active session go.                                  *)
LoginCompletes(sid) ==
  /\ sid \notin used
  /\ used' = used \cup {sid} /\ alive' = alive \cup {sid}
  /\ active' = sid
  /\ adding' = FALSE
  /\ letGo' = IF adding THEN letGo ELSE letGo \cup (ActiveAccount \ Ids(accounts))
  /\ UNCHANGED <<accounts, failures>>

(* left is what is left of the list when only the ids of S are retained,   *)
(* in the order of the list.                                               *)
LeftOf(ids, S, left) ==
  /\ Ids(left) = Ids(ids) \cap S
  /\ \E place \in [DOMAIN left -> DOMAIN ids] :
       /\ \A i \in DOMAIN left : left[i] = ids[place[i]]
       /\ \A i, j \in DOMAIN left : i < j => place[i] < place[j]

(* The calls of the session store for these ids fail. *)
CallsFail(ids) ==
  /\ failures + Cardinality(ids) <= MaxFailures
  /\ failures' = failures + Cardinality(ids)

(* accounts_page: resolve_accounts looks up every id, and the cookie is    *)
(* pruned to the ones that were found.  A failed read drops the id too.    *)
AccountsPage(unread) ==
  /\ unread \subseteq Known /\ CallsFail(unread)
  /\ \E valid \in Lists(MaxAccounts + 1) :
       /\ LeftOf(WithActiveFirst(accounts), alive \ unread, valid)
       /\ IF valid = << >>
          THEN UNCHANGED <<accounts, letGo>>
          ELSE /\ accounts' = DedupCapAccounts(valid)
               /\ letGo' = letGo \cup unread \cup (Ids(valid) \ Ids(DedupCapAccounts(valid)))
  /\ UNCHANGED <<active, alive, adding, used>>

(* use_account: the id must be one this browser knows, and valid.  Only    *)
(* the session cookie changes: an active session that is not in the list   *)
(* is let go, when the form is older than the login that made it active.   *)
UseAccount(sid) ==
  /\ sid \in Known /\ sid \in alive
  /\ active' = sid
  /\ letGo' = letGo \cup (ActiveAccount \ (Ids(accounts) \cup {sid}))
  /\ UNCHANGED <<accounts, alive, adding, used, failures>>

(* Mutant: the next account is promoted without a look at the store. *)
RemainingUnchecked(sid, failed, left) == LeftOf(accounts, Sids \ {sid}, left)

(* The remembered accounts without the one that signs out, as far as the   *)
(* store finds them valid.                                                 *)
Remaining(sid, failed, left) == LeftOf(accounts, alive \ (failed \cup {sid}), left)

(* signout_account: revoke, prune, and promote another account when the    *)
(* active one signed out.  A revoke that fails (sid \in failed) is ignored *)
(* and the id dropped all the same; a failed read drops a valid id.        *)
SignoutAccount(sid, failed) ==
  /\ sid \in used /\ failed \subseteq Ids(accounts) \cup {sid} /\ CallsFail(failed)
  /\ alive' = alive \ ({sid} \ failed)
  /\ \E left \in Lists(MaxAccounts) :
       /\ Remaining(sid, failed, left)
       /\ accounts' = DedupCapAccounts(left)
       /\ active' = IF active # sid THEN active
                    ELSE IF left = << >> THEN NoAccount ELSE Head(left)
  /\ letGo' = letGo \cup failed
  /\ UNCHANGED <<adding, used>>

(* signout_all revokes every session this browser knows and forgets them,  *)
(* the ones whose revoke failed too.                                       *)
SignoutAll(failed) ==
  /\ Known # {} /\ failed \subseteq Known /\ CallsFail(failed)
  /\ alive' = alive \ (Known \ failed)
  /\ active' = NoAccount /\ accounts' = << >>
  /\ letGo' = letGo \cup failed
  /\ UNCHANGED <<adding, used>>

(* A session expires or is revoked from another device. *)
EndsElsewhere(sid) ==
  /\ sid \in alive
  /\ alive' = alive \ {sid}
  /\ UNCHANGED <<active, accounts, adding, used, failures, letGo>>

ChooserNext ==
  \/ LoginAdd
  \/ \E sid \in Sids :
       LoginCompletes(sid) \/ UseAccount(sid) \/ EndsElsewhere(sid)
  \/ \E failed \in SUBSET Sids :
       \/ AccountsPage(failed) \/ SignoutAll(failed)
       \/ \E sid \in Sids : SignoutAccount(sid, failed)

-------------------------------------------------------------------------------
(* Properties. *)

(***************************************************************************)
(* The browser keeps track of its sessions: one that is still valid is     *)
(* active or remembered, so that signout_all reaches it, unless it was let *)
(* go by a plain login, by the cap, by a form that was old, or by a call   *)
(* of the store that failed: the chooser and the sign-outs ignore failed   *)
(* reads and revokes, and forget a session that is still valid.            *)
(***************************************************************************)
AccountsRemembered == alive \subseteq Known \cup letGo

(***************************************************************************)
(* Signing out never hands the browser a dead session: the account that is *)
(* promoted was valid when the sign-out looked, whatever ended elsewhere.  *)
(***************************************************************************)
PromotesLive ==
  [][active' # active /\ active' # NoAccount => active' \in alive']_chooserVars
=============================================================================
