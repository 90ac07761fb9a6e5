------------------------------- MODULE Sessions -------------------------------
(***************************************************************************)
(* The sessions of one user: login, verify (the ForwardAuth endpoint),     *)
(* keepalive, the MFA challenge, switch_tenant, logout and revocation      *)
(* (auth-server/src/handlers/auth.rs, session.rs, mfa.rs and extra.rs over *)
(* SessionStore and SessionStepUpStore in auth-core/src/store/pg.rs).      *)
(* Every statement selects one session or the sessions of one user.        *)
(*                                                                         *)
(* Handler calls are concurrent and one statement is one step.  Time is    *)
(* left out: a session that is not renewed may expire at any moment.       *)
(***************************************************************************)
EXTENDS Naturals, FiniteSets, Policy

-------------------------------------------------------------------------------
(***************************************************************************)
(* The second factors of the user: the TOTP row of user_mfa, the recovery  *)
(* codes and the registered passkeys (auth-server/src/handlers/mfa.rs over *)
(* MfaStore, RecoveryCodeStore and PasskeyStore in                         *)
(* auth-core/src/store/pg.rs).                                             *)
(*                                                                         *)
(* The row may be active from the start: the table is shared with the      *)
(* proxy this server replaces.  totp_verify_setup reads the row through a  *)
(* column name the record does not have and fails as soon as there is a    *)
(* row, so it activates nothing and is no step.                            *)
(***************************************************************************)
CONSTANTS
  Codes,        \* recovery codes that can be generated
  CodesAtOnce   \* how many one call of generate_recovery_codes makes

ASSUME FactorAssumption ==
  /\ IsFiniteSet(Codes) /\ CodesAtOnce \in Nat \ {0}

VARIABLES
  totp,         \* the user's row of user_mfa: "none", "inactive" or "active"
  recovery,     \* mfa_recovery_codes: spent codes are used or deleted
  passkey,      \* the user has a passkey, throughout
  setup         \* the statement a call of totp_setup or totp_disable is at

factorVars == <<totp, recovery, passkey, setup>>

FactorTypeOK ==
  /\ totp \in {"none", "inactive", "active"}
  /\ recovery \in [Codes -> {"fresh", "unused", "spent"}]
  /\ passkey \in BOOLEAN
  /\ setup \in {"idle", "deactivate", "delete codes"}

FactorInit ==
  /\ totp \in {"none", "active"}
  /\ recovery \in {r \in [Codes -> {"fresh", "unused"}] :
       Cardinality({c \in Codes : r[c] = "unused"}) = IF totp = "active" THEN CodesAtOnce ELSE 0}
  /\ passkey \in BOOLEAN
  /\ setup = "idle"

-------------------------------------------------------------------------------
(* totp_setup: upsert writes an active row, deactivate follows in a second *)
(* statement.                                                              *)
TotpSetup ==
  /\ setup = "idle"
  /\ totp' = "active"
  /\ setup' = "deactivate"
  /\ UNCHANGED <<recovery, passkey>>

TotpSetupDeactivate ==
  /\ setup = "deactivate"
  /\ totp' = "inactive"
  /\ setup' = "idle"
  /\ UNCHANGED <<recovery, passkey>>

(* totp_disable: deactivate, then delete_all of the recovery codes. *)
TotpDisable ==
  /\ setup = "idle" /\ totp # "none"
  /\ totp' = "inactive"
  /\ setup' = "delete codes"
  /\ UNCHANGED <<recovery, passkey>>

DeleteCodes ==
  /\ setup = "delete codes"
  /\ recovery' = [c \in Codes |-> IF recovery[c] = "fresh" THEN "fresh" ELSE "spent"]
  /\ setup' = "idle"
  /\ UNCHANGED <<totp, passkey>>

(* The call ends between its statements. *)
SetupDropped ==
  /\ setup # "idle"
  /\ setup' = "idle"
  /\ UNCHANGED <<totp, recovery, passkey>>

(* replace_all: delete the old codes and insert new ones, in a transaction. *)
Regenerate ==
  /\ \E new \in SUBSET {c \in Codes : recovery[c] = "fresh"} :
       /\ Cardinality(new) = CodesAtOnce
       /\ recovery' = [c \in Codes |->
            CASE c \in new -> "unused"
              [] recovery[c] = "fresh" /\ c \notin new -> "fresh"
              [] OTHER -> "spent"]
  /\ UNCHANGED <<totp, passkey, setup>>

FactorNext ==
  \/ TotpSetup \/ TotpSetupDeactivate \/ TotpDisable \/ DeleteCodes \/ SetupDropped
  \/ Regenerate

-------------------------------------------------------------------------------
(* The sessions. *)

CONSTANTS
  SessionIds,   \* sessions that can be created
  Tenants,      \* tenants the user is an active member of
  RoleIn,       \* the user's role in each of them
  Required,     \* the minimum roles that routes ask for; "" asks for none
  Handlers,     \* concurrent handler calls, each used once
  MaxChanges,   \* bound: changes of the user's factors
  MaxLost       \* bound: statements that fail and whose error is ignored

ASSUME SessionAssumption ==
  /\ RoleIn \in [Tenants -> KnownRoles]
  /\ MaxLost \in Nat /\ MaxChanges \in Nat

VARIABLES
  session,      \* sessions
  flagged,      \* session_stepup: the sessions that need a second factor
  handler,      \* where each handler call is, and what it has read
  changes,      \* changes of the factors so far
  given,        \* the sessions whose id the browser was given
  lostWrites,   \* ignored errors so far
  challenged,   \* history: sessions on which a second factor was shown
  root,         \* history: the login each session descends from
  overlap       \* history: two calls of switch_tenant were in progress at once

sessionVars == <<session, flagged, handler, changes, given, lostWrites,
                 challenged, root, overlap>>
allSessionVars == <<sessionVars, factorVars>>

NoSession == [state |-> "none"]
Waiting == [at |-> "waiting"]
Ended == [at |-> "ended"]

(* find: not invalidated and not expired. *)
Live(s) == session[s].state = "live"

SessionTypeOK ==
  /\ FactorTypeOK
  /\ session \in [SessionIds -> {NoSession} \cup
       [state : {"live", "expired", "revoked"}, tenant : Tenants, mfa : BOOLEAN]]
  /\ flagged \subseteq SessionIds /\ given \subseteq SessionIds
  /\ lostWrites \in 0 .. MaxLost /\ changes \in 0 .. MaxChanges

(* The user is signed in: one session was given to the browser, in a       *)
(* tenant, perhaps flagged, and not challenged yet.                        *)
SessionInit ==
  /\ FactorInit
  /\ \E first \in SessionIds, tenant \in Tenants :
       /\ session = [s \in SessionIds |-> IF s # first THEN NoSession
                       ELSE [state |-> "live", tenant |-> tenant, mfa |-> FALSE]]
       /\ given = {first}
       /\ flagged \in {{}, {first}}
  /\ handler = [h \in Handlers |-> Waiting]
  /\ lostWrites = 0 /\ changes = 0
  /\ challenged = {} /\ overlap = FALSE
  /\ root = [s \in SessionIds |-> s]

Step(h, at) == handler' = [handler EXCEPT ![h].at = at]
Finish(h) == handler' = [handler EXCEPT ![h] = Ended]

(* INSERT INTO sessions *)
Insert(s, tenant, mfa) ==
  /\ session[s] = NoSession
  /\ session' = [session EXCEPT ![s] = [state |-> "live", tenant |-> tenant, mfa |-> mfa]]

-------------------------------------------------------------------------------
(* Login.  The session is created, then flagged when the risk asks for a   *)
(* step-up (an error of that is ignored); then its id goes to the browser. *)

LoginCreate(h, s, tenant, stepUp) ==
  /\ handler[h] = Waiting
  /\ Insert(s, tenant, FALSE)
  /\ IF stepUp
     THEN handler' = [handler EXCEPT ![h] = [at |-> "flag", of |-> s]] /\ UNCHANGED given
     ELSE given' = given \cup {s} /\ Finish(h)
  /\ UNCHANGED <<flagged, lostWrites, challenged, root, overlap>>

MarkStepUp(h) ==
  /\ handler[h].at = "flag"
  /\ flagged' = flagged \cup {handler[h].of}
  /\ given' = given \cup {handler[h].of}
  /\ Finish(h)
  /\ UNCHANGED <<session, lostWrites, challenged, root, overlap>>

MarkStepUpLost(h) ==
  /\ handler[h].at = "flag"
  /\ lostWrites < MaxLost /\ lostWrites' = lostWrites + 1
  /\ given' = given \cup {handler[h].of}
  /\ Finish(h)
  /\ UNCHANGED <<session, flagged, challenged, root, overlap>>

(* A passkey login: the assertion is a second factor. *)
PasskeyLogin(h, s, tenant) ==
  /\ handler[h] = Waiting /\ passkey
  /\ Insert(s, tenant, TRUE)
  /\ challenged' = challenged \cup {s}
  /\ given' = given \cup {s}
  /\ Finish(h)
  /\ UNCHANGED <<flagged, lostWrites, root, overlap>>

-------------------------------------------------------------------------------
(* verify: find the session, look at its tenant and at the role, then at   *)
(* the factors.  Every refusal ends the call.  Two fields are history:     *)
(* `owing`, the user had an active TOTP factor ever since the call began,  *)
(* and `exempt`, the call was let through without the challenge.           *)

VerifyFind(h, s) ==
  /\ handler[h] = Waiting
  /\ s \in given /\ Live(s)
  /\ handler' = [handler EXCEPT ![h] =
       [at |-> "tenant", of |-> s, mfa |-> session[s].mfa,
        owing |-> totp = "active", exempt |-> FALSE]]
  /\ UNCHANGED <<session, flagged, given, lostWrites, challenged, root, overlap>>

(* A role that does not reach the minimum of the route is a 403, and so is *)
(* a suspended tenant; when the tenant cannot be read the session passes.  *)
RoleSuffices(s, required) ==
  required = "" \/ EnforceMinRole({RoleIn[session[s].tenant]}, required)

(* The URI the proxy forwarded: none, a page of the MFA challenge, or      *)
(* another one.                                                            *)
Uris == {"none", "mfa page", "page"}

(* The call goes on as if nothing were owed. *)
Exempt(h, at) == handler' = [handler EXCEPT ![h].at = at, ![h].exempt = TRUE]

(* The challenge is for a session without the mark and a forwarded URI     *)
(* outside the pages under /mfa/ and /auth/mfa/: on those the factors are  *)
(* read and decide nothing.                                                *)
VerifyTenant(h, required, suspended, uri) ==
  /\ handler[h].at = "tenant"
  /\ \/ /\ suspended \/ ~RoleSuffices(handler[h].of, required)
        /\ Finish(h)
     \/ /\ ~suspended /\ RoleSuffices(handler[h].of, required)
        /\ \/ handler[h].mfa /\ Step(h, "admitted")
           \/ ~handler[h].mfa /\ uri = "page" /\ Step(h, "totp")
           \/ ~handler[h].mfa /\ uri # "page" /\ Exempt(h, "admitted")
  /\ UNCHANGED <<session, flagged, given, lostWrites, challenged, root, overlap>>

(* Mutant: only a flagged session is challenged. *)
VerifyFlaggedOnly(h) ==
  /\ handler[h].at = "totp"
  /\ Step(h, "step-up")
  /\ UNCHANGED <<session, flagged, given, lostWrites, challenged, root, overlap>>

(* has_active: a user with TOTP is sent to the challenge. *)
VerifyTotp(h) ==
  /\ handler[h].at = "totp"
  /\ IF totp = "active" THEN Finish(h) ELSE Step(h, "step-up")
  /\ UNCHANGED <<session, flagged, given, lostWrites, challenged, root, overlap>>

(* is_required and list_by_user: a flagged session of a user with a        *)
(* passkey is sent to the challenge too.                                   *)
VerifyStepUp(h) ==
  /\ handler[h].at = "step-up"
  /\ IF handler[h].of \in flagged /\ passkey THEN Finish(h) ELSE Step(h, "admitted")
  /\ UNCHANGED <<session, flagged, given, lostWrites, challenged, root, overlap>>

(* A read of the factors that fails counts as no factor, as no flag or as  *)
(* no passkey.                                                             *)
VerifyReadFails(h) ==
  /\ \/ handler[h].at = "totp" /\ Exempt(h, "step-up")
     \/ handler[h].at = "step-up" /\ Exempt(h, "admitted")
  /\ UNCHANGED <<session, flagged, given, lostWrites, challenged, root, overlap>>

-------------------------------------------------------------------------------
(* mfa_verify_login: find the session and the active factor, check the     *)
(* code (TOTP, or a recovery code that is consumed by one UPDATE), mark    *)
(* the session.                                                            *)

ChallengeFind(h, s) ==
  /\ handler[h] = Waiting
  /\ s \in given /\ Live(s) /\ totp = "active"
  /\ handler' = [handler EXCEPT ![h] = [at |-> "code", of |-> s]]
  /\ UNCHANGED <<session, flagged, given, lostWrites, challenged, root, overlap, factorVars>>

(* The code of the authenticator is right. *)
ChallengeTotp(h) ==
  /\ handler[h].at = "code"
  /\ challenged' = challenged \cup {handler[h].of}
  /\ Step(h, "mark")
  /\ UNCHANGED <<session, flagged, given, lostWrites, root, overlap, factorVars>>

(* consume *)
ChallengeRecovery(h, c) ==
  /\ handler[h].at = "code"
  /\ recovery[c] = "unused"
  /\ recovery' = [recovery EXCEPT ![c] = "spent"]
  /\ challenged' = challenged \cup {handler[h].of}
  /\ Step(h, "mark")
  /\ UNCHANGED <<session, flagged, given, lostWrites, root, overlap, totp, passkey, setup>>

(* mark_mfa_verified *)
MarkMfaVerified(h) ==
  /\ handler[h].at = "mark"
  /\ session' = [session EXCEPT ![handler[h].of].mfa = TRUE]
  /\ Finish(h)
  /\ UNCHANGED <<flagged, given, lostWrites, challenged, root, overlap, factorVars>>

-------------------------------------------------------------------------------
(* keepalive.                                                              *)

(* Mutant: the update does not look at the session's state. *)
TouchAny(s) ==
  /\ session[s].state \in {"live", "expired"}
  /\ session' = [session EXCEPT ![s].state = "live"]

(* touch: one UPDATE that insists on a live session.  Renewing one leaves  *)
(* it live, so it is visible only as an expiry that does not happen.       *)
Touch(s) ==
  /\ Live(s)
  /\ session' = [session EXCEPT ![s].state = "live"]

(* keepalive asks for the renewal of the session the browser holds. *)
RenewSession(s) ==
  /\ s \in given
  /\ Touch(s)
  /\ UNCHANGED <<flagged, handler, given, lostWrites, challenged, root, overlap>>

-------------------------------------------------------------------------------
(* switch_tenant: find, membership, revoke the old, create the new one     *)
(* without an MFA mark.                                                    *)

Switching(h) == handler[h].at \in {"switch", "create"}

SwitchFind(h, s, tenant) ==
  /\ handler[h] = Waiting
  /\ s \in given /\ Live(s)
  /\ handler' = [handler EXCEPT ![h] = [at |-> "switch", of |-> s, to |-> tenant]]
  /\ overlap' = (overlap \/ \E other \in Handlers : Switching(other))
  /\ UNCHANGED <<session, flagged, given, lostWrites, challenged, root>>

(* Mutant: the old session is left for its expiry. *)
SwitchKeeps(h) ==
  /\ handler[h].at = "switch"
  /\ Step(h, "create")
  /\ UNCHANGED <<session, flagged, given, lostWrites, challenged, root, overlap>>

(* revoke of the old session; an error is ignored. *)
SwitchRevoke(h) ==
  /\ handler[h].at = "switch"
  /\ session' = [session EXCEPT ![handler[h].of].state = "revoked"]
  /\ Step(h, "create")
  /\ UNCHANGED <<flagged, given, lostWrites, challenged, root, overlap>>

SwitchRevokeLost(h) ==
  /\ handler[h].at = "switch"
  /\ lostWrites < MaxLost /\ lostWrites' = lostWrites + 1
  /\ Step(h, "create")
  /\ UNCHANGED <<session, flagged, given, challenged, root, overlap>>

(* Mutant: the mark of the old session is copied. *)
SwitchCreateCopying(h, s) ==
  /\ handler[h].at = "create"
  /\ Insert(s, handler[h].to, session[handler[h].of].mfa)
  /\ root' = [root EXCEPT ![s] = root[handler[h].of]]
  /\ given' = given \cup {s}
  /\ Finish(h)
  /\ UNCHANGED <<flagged, lostWrites, challenged, overlap>>

(* create; the tenant was found. *)
SwitchCreate(h, s) ==
  /\ handler[h].at = "create"
  /\ Insert(s, handler[h].to, FALSE)
  /\ root' = [root EXCEPT ![s] = root[handler[h].of]]
  /\ given' = given \cup {s}
  /\ Finish(h)
  /\ UNCHANGED <<flagged, lostWrites, challenged, overlap>>

-------------------------------------------------------------------------------
(* The ends of sessions.                                                   *)

(* revoke and revoke_all_for_user, the UPDATEs. *)
Revoke(s) ==
  /\ session[s].state # "revoked"
  /\ session' = [session EXCEPT ![s].state = "revoked"]
  /\ UNCHANGED <<flagged, handler, given, lostWrites, challenged, root, overlap>>

RevokeAllForUser ==
  /\ session' = [s \in SessionIds |->
       IF session[s] # NoSession THEN [session[s] EXCEPT !.state = "revoked"] ELSE NoSession]
  /\ UNCHANGED <<flagged, handler, given, lostWrites, challenged, root, overlap>>

(* The calls that end the session of the browser: logout, by link or by    *)
(* API, and switch_account.                                                *)
LogoutGet(s) == s \in given /\ Revoke(s)
LogoutPost(s) == s \in given /\ Revoke(s)
SwitchAccount(s) == s \in given /\ Revoke(s)

(* list_by_user and resolve_session_reference: the rows there are. *)
Rows == {s \in SessionIds : session[s] # NoSession}

(* The calls that end another session, chosen from a list; the user's own  *)
(* need a live session of the user.                                        *)
RevokeSession(s) == s \in Rows /\ (\E mine \in given : Live(mine)) /\ Revoke(s)
AdminRevokeSession(s) == s \in Rows /\ Revoke(s)
RevokeAllSessions == (\E mine \in given : Live(mine)) /\ RevokeAllForUser

Expire(s) ==
  /\ Live(s)
  /\ session' = [session EXCEPT ![s].state = "expired"]
  /\ UNCHANGED <<flagged, handler, given, lostWrites, challenged, root, overlap>>

(* The client goes away between two statements. *)
HandlerDropped(h) ==
  /\ handler[h] \notin {Waiting, Ended} /\ handler[h].at # "admitted"
  /\ Finish(h)
  /\ UNCHANGED <<session, flagged, given, lostWrites, challenged, root, overlap>>

Verify(h) ==
  \/ \E s \in SessionIds : VerifyFind(h, s)
  \/ \E required \in Required, suspended \in BOOLEAN, uri \in Uris :
       VerifyTenant(h, required, suspended, uri)
  \/ VerifyTotp(h) \/ VerifyStepUp(h) \/ VerifyReadFails(h)

SwitchTenant(h) ==
  \/ \E s \in SessionIds, t \in Tenants : SwitchFind(h, s, t)
  \/ SwitchRevoke(h) \/ SwitchRevokeLost(h)
  \/ \E s \in SessionIds : SwitchCreate(h, s)

Login(h) ==
  \/ \E s \in SessionIds, t \in Tenants, stepUp \in BOOLEAN : LoginCreate(h, s, t, stepUp)
  \/ \E s \in SessionIds, t \in Tenants : PasskeyLogin(h, s, t)
  \/ MarkStepUp(h) \/ MarkStepUpLost(h)

MfaVerifyLogin(h) ==
  \/ \E s \in SessionIds : ChallengeFind(h, s)
  \/ ChallengeTotp(h) \/ (\E c \in Codes : ChallengeRecovery(h, c)) \/ MarkMfaVerified(h)

(* A factor that is not active any more is not owed by the calls in        *)
(* progress.                                                               *)
FactorStep ==
  /\ FactorNext
  /\ changes' = IF setup = "idle" THEN changes + 1 ELSE changes
  /\ changes' <= MaxChanges
  /\ handler' = [h \in Handlers |->
       IF "owing" \in DOMAIN handler[h]
       THEN [handler[h] EXCEPT !.owing = @ /\ totp' = "active"] ELSE handler[h]]
  /\ UNCHANGED <<session, flagged, given, lostWrites, challenged, root, overlap>>

SessionNext ==
  \/ /\ \/ \E h \in Handlers : Verify(h) \/ SwitchTenant(h) \/ Login(h) \/ HandlerDropped(h)
        \/ \E s \in SessionIds : \/ RenewSession(s) \/ Expire(s)
                                 \/ LogoutGet(s) \/ LogoutPost(s) \/ SwitchAccount(s)
                                 \/ RevokeSession(s) \/ AdminRevokeSession(s)
        \/ RevokeAllSessions
     /\ UNCHANGED <<factorVars, changes>>
  \/ (\E h \in Handlers : MfaVerifyLogin(h)) /\ UNCHANGED changes
  \/ FactorStep

-------------------------------------------------------------------------------
(* Properties. *)

(***************************************************************************)
(* A session that was revoked or has expired never lives again: touch, the *)
(* MFA mark and switch_tenant race with revocation and do not revive it.   *)
(***************************************************************************)
DeadStaysDead ==
  [][\A s \in SessionIds :
       session[s].state \in {"expired", "revoked"} => session'[s].state # "live"]_sessionVars

(***************************************************************************)
(* The MFA mark is earned on the session that has it (#12 in               *)
(* switch_tenant): it never carries over to another tenant.                *)
(***************************************************************************)
MfaEarned ==
  \A s \in SessionIds : session[s] # NoSession /\ session[s].mfa => s \in challenged

(***************************************************************************)
(* verify admits nobody who owes a second factor: when the user had an     *)
(* active TOTP factor during the whole call, the session was challenged.   *)
(* The code lets three kinds of calls through unchallenged: one with no    *)
(* forwarded URI, one for a page under /mfa/ or /auth/mfa/, and one whose  *)
(* read of the factors failed.                                             *)
(***************************************************************************)
AdmittedPaid ==
  \A h \in Handlers :
    handler[h].at = "admitted" /\ handler[h].owing /\ ~handler[h].exempt =>
      handler[h].of \in challenged

(***************************************************************************)
(* switch_tenant replaces a session: unless two switches overlap or the    *)
(* revocation fails, a login has at most one live session.                 *)
(***************************************************************************)
SwitchReplaces ==
  ~overlap /\ lostWrites = 0 =>
    \A l \in SessionIds : Cardinality({s \in SessionIds : Live(s) /\ root[s] = l}) <= 1

(***************************************************************************)
(* Nobody whose factors were asked for is let in without showing one, no   *)
(* mark is inherited, and a switch leaves no second session behind.        *)
(***************************************************************************)
SessionsSound == MfaEarned /\ AdmittedPaid /\ SwitchReplaces
=============================================================================
