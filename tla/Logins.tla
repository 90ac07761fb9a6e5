------------------------------- MODULE Logins -------------------------------
(***************************************************************************)
(* How a person becomes a user with a session: the OIDC callback, magic    *)
(* links and SAML (auth-server/src/handlers/oidc.rs, magic_link.rs and     *)
(* saml.rs), and the identities linked to a user (unlink_identity in       *)
(* op.rs), over the stores of auth-core/src/store/pg.rs.                   *)
(*                                                                         *)
(* Calls run concurrently and one statement is one step; a statement that  *)
(* fails ends its call, unless the code ignores the error.  A user is      *)
(* named by the e-mail address of its row, which is unique and never       *)
(* changes.  What the identity provider answers is an input.               *)
(***************************************************************************)
EXTENDS Policy

CONSTANTS
  Emails,        \* addresses; a user row has one
  Registered,    \* addresses that have a user row from the start
  LocalPart,     \* of each address: the slug of the personal tenant
  Subjects,      \* accounts at the identity provider
  Devices,       \* device hashes
  Flows,         \* oidc_flows rows that can be created
  Links,         \* magic links that can be created
  Calls,         \* concurrent handler calls, each used once
  FirstRole,     \* initial_role: of each address, by TRUSTED_EMAIL_DOMAINS
  MaxLostLinks   \* bound: statements whose error is ignored and that fail

NoOne == "no one"

ASSUME LoginAssumption ==
  /\ Registered \subseteq Emails /\ Flows \cap Links = {} /\ MaxLostLinks \in Nat
  /\ NoOne \notin Emails /\ IsFiniteSet(Subjects)
  /\ FirstRole \in [Emails -> {"OWNER", "MEMBER", "GUEST"}]

VARIABLES
  user,         \* users: the google_sub of each row
  identity,     \* user_identities: the user each subject is linked to
  tenant,       \* tenants: the personal tenant each call created
  ticket,       \* oidc_flows and magic_links: what a login consumes
  knownDevice,  \* risk_known_devices
  call,         \* where each call is, and what it has read
  signedIn,     \* history: sessions created, with the ticket and the subject
  lostLinks,    \* ignored errors so far
  raced         \* history: what the properties make an exception for

loginVars == <<user, identity, tenant, ticket, knownDevice, call, signedIn,
               lostLinks, raced>>

NoRow == "no row"
NoSub == "null"
NoTenant == [owner |-> NoOne]
Unused == [at |-> "unused"]
Done == [at |-> "done"]
SamlSub == "made from the address"

Busy == {c \in Calls : call[c] \notin {Unused, Done}}

LoginTypeOK ==
  /\ user \in [Emails -> {NoRow, NoSub, SamlSub} \cup Subjects]
  /\ identity \in [Subjects -> Emails \cup {NoOne}]
  /\ tenant \in [Calls -> {NoTenant} \cup
       [owner : Emails, slug : {LocalPart[e] : e \in Emails}, role : {"OWNER", "MEMBER", "GUEST"}]]
  /\ ticket \in [Flows \cup Links -> {"none", "open", "consumed"}]
  /\ knownDevice \subseteq Emails \X Devices
  /\ lostLinks \in 0 .. MaxLostLinks

LoginInit ==
  /\ user = [e \in Emails |-> IF e \in Registered THEN NoSub ELSE NoRow]
  /\ \E e \in Registered \cup {NoOne} : identity = [s \in Subjects |-> e]
  /\ tenant = [c \in Calls |-> NoTenant]
  /\ ticket = [t \in Flows \cup Links |-> "none"]
  /\ knownDevice = {}
  /\ call = [c \in Calls |-> Unused]
  /\ signedIn = {}
  /\ lostLinks = 0
  /\ raced = {}

Go(c, at) == call' = [call EXCEPT ![c].at = at]
Fail(c) == call' = [call EXCEPT ![c] = Done]
As(c, e, at) == call' = [call EXCEPT ![c].user = e, ![c].at = at]

-------------------------------------------------------------------------------
(* Tickets.                                                                *)

(* begin_oidc_flow: save.  magic_link send: create. *)
BeginOidcFlow(f) ==
  /\ f \in Flows /\ ticket[f] = "none"
  /\ ticket' = [ticket EXCEPT ![f] = "open"]
  /\ UNCHANGED <<user, identity, tenant, knownDevice, call, signedIn, lostLinks, raced>>

SendMagicLink(l) ==
  /\ l \in Links /\ ticket[l] = "none"
  /\ ticket' = [ticket EXCEPT ![l] = "open"]
  /\ UNCHANGED <<user, identity, tenant, knownDevice, call, signedIn, lostLinks, raced>>

(* The row expires; delete_expired removes it. *)
TicketExpires(t) ==
  /\ ticket[t] = "open"
  /\ ticket' = [ticket EXCEPT ![t] = "consumed"]
  /\ UNCHANGED <<user, identity, tenant, knownDevice, call, signedIn, lostLinks, raced>>

(* Mutant: the row is read, and deleted later. *)
ReadTicket(t) == ticket[t] = "open" /\ UNCHANGED ticket

(* consume: DELETE ... RETURNING, or UPDATE ... WHERE used_at IS NULL. *)
ConsumeTicket(t) ==
  /\ ticket[t] = "open"
  /\ ticket' = [ticket EXCEPT ![t] = "consumed"]

-------------------------------------------------------------------------------
(* callback and callback_complete, and complete_oidc up to the user.       *)

(* The flow is consumed, then the code exchanged and the ID token          *)
(* verified: the provider vouches for the subject and reports an address.  *)
Callback(c, f, s, e, verified) ==
  /\ call[c] = Unused /\ f \in Flows
  /\ ConsumeTicket(f)
  /\ call' = [call EXCEPT ![c] =
       [at |-> "subject", ticket |-> f, subject |-> s, email |-> e,
        verified |-> verified, user |-> NoOne]]
  /\ raced' = raced \cup
       (IF \E d \in Busy : call[d].subject = s THEN {<<"subject", s>>} ELSE {})
  /\ UNCHANGED <<user, identity, tenant, knownDevice, signedIn, lostLinks>>

(* Mutant: the address alone decides who it is. *)
IgnoreSubject(c) ==
  /\ call[c].at = "subject"
  /\ Go(c, IF call[c].verified THEN "email" ELSE "upsert")
  /\ UNCHANGED <<user, identity, tenant, ticket, knownDevice, signedIn, lostLinks, raced>>

(* find_by_subject *)
FindBySubject(c) ==
  /\ call[c].at = "subject"
  /\ IF identity[call[c].subject] # NoOne
     THEN As(c, identity[call[c].subject], "tenants")
     ELSE Go(c, IF call[c].verified THEN "email" ELSE "upsert")
  /\ UNCHANGED <<user, identity, tenant, ticket, knownDevice, signedIn, lostLinks, raced>>

(* find_by_email *)
FindByEmail(c) ==
  /\ call[c].at = "email"
  /\ IF user[call[c].email] # NoRow
     THEN As(c, call[c].email, IF call[c].subject = NoOne THEN "tenants" ELSE "link")
     ELSE Go(c, "upsert")
  /\ UNCHANGED <<user, identity, tenant, ticket, knownDevice, signedIn, lostLinks, raced>>

(* upsert: ON CONFLICT (email) updates google_sub and returns the row that *)
(* is there; google_sub is unique, so another user's is an error.          *)
UpsertUser(c, sub, next) ==
  LET e == call[c].email IN
  /\ IF sub # NoSub /\ \E other \in Emails \ {e} : user[other] = sub
     THEN Fail(c) /\ UNCHANGED user
     ELSE user' = [user EXCEPT ![e] = sub] /\ As(c, e, next)
  /\ UNCHANGED <<identity, tenant, ticket, knownDevice, signedIn, lostLinks, raced>>

OidcUpsert(c) ==
  /\ call[c].at = "upsert" /\ call[c].subject # NoOne
  /\ UpsertUser(c, call[c].subject, "link")

(* Mutant: a second login takes the identity over. *)
RelinkIdentity(c) ==
  /\ call[c].at = "link"
  /\ identity' = [identity EXCEPT ![call[c].subject] = call[c].user]
  /\ Go(c, "tenants")
  /\ UNCHANGED <<user, tenant, ticket, knownDevice, signedIn, lostLinks, raced>>

(* link: ON CONFLICT (provider, subject) leaves user_id alone. *)
LinkIdentity(c) ==
  /\ call[c].at = "link"
  /\ identity' = [identity EXCEPT ![call[c].subject] =
                    IF @ = NoOne THEN call[c].user ELSE @]
  /\ Go(c, "tenants")
  /\ UNCHANGED <<user, tenant, ticket, knownDevice, signedIn, lostLinks, raced>>

(* The error of link is ignored. *)
LinkLost(c) ==
  /\ call[c].at = "link"
  /\ lostLinks < MaxLostLinks /\ lostLinks' = lostLinks + 1
  /\ raced' = raced \cup {<<"subject", call[c].subject>>}
  /\ Go(c, "tenants")
  /\ UNCHANGED <<user, identity, tenant, ticket, knownDevice, signedIn>>

-------------------------------------------------------------------------------
(* magic_link verify: consume, find_by_email, upsert without google_sub.   *)
MagicVerify(c, l, e) ==
  /\ call[c] = Unused /\ l \in Links
  /\ ConsumeTicket(l)
  /\ call' = [call EXCEPT ![c] =
       [at |-> "email", ticket |-> l, subject |-> NoOne, email |-> e,
        verified |-> TRUE, user |-> NoOne]]
  /\ UNCHANGED <<user, identity, tenant, knownDevice, signedIn, lostLinks, raced>>

MagicUpsert(c) ==
  /\ call[c].at = "upsert" /\ call[c].subject = NoOne
  /\ UpsertUser(c, NoSub, "tenants")

(* saml_callback: the response was accepted for address e; upsert with a   *)
(* subject made from the address, then an active membership is required.   *)
SamlCallback(c, e) ==
  /\ call[c] = Unused
  /\ user' = [user EXCEPT ![e] = SamlSub]
  /\ call' = [call EXCEPT ![c] =
       [at |-> "member", ticket |-> NoOne, subject |-> NoOne, email |-> e,
        verified |-> TRUE, user |-> e]]
  /\ UNCHANGED <<identity, tenant, ticket, knownDevice, signedIn, lostLinks, raced>>

SamlMember(c) ==
  /\ call[c].at = "member"
  /\ IF \E t \in Calls : tenant[t].owner = call[c].user THEN Go(c, "session") ELSE Fail(c)
  /\ UNCHANGED <<user, identity, tenant, ticket, knownDevice, signedIn, lostLinks, raced>>

-------------------------------------------------------------------------------
(* The tenant, the risk and the session.                                   *)

AfterTenant(c) == IF call[c].subject = NoOne THEN "session" ELSE "risk"

(* TenantStore::find_by_user *)
FindTenants(c) ==
  /\ call[c].at = "tenants"
  /\ Go(c, IF \E t \in Calls : tenant[t].owner = call[c].user
           THEN AfterTenant(c) ELSE "create tenant")
  /\ UNCHANGED <<user, identity, tenant, ticket, knownDevice, signedIn, lostLinks, raced>>

NewTenant(c) == [owner |-> call[c].user, slug |-> LocalPart[call[c].email], role |-> "OWNER"]

AfterCreate(c) ==
  IF call[c].subject # NoOne /\ FirstRole[call[c].email] # "OWNER" THEN "role" ELSE AfterTenant(c)

(* Mutant: the slug is made unique by a suffix. *)
CreatePersonalAnyway(c) ==
  /\ call[c].at = "create tenant"
  /\ tenant' = [tenant EXCEPT ![c] = NewTenant(c)]
  /\ Go(c, AfterCreate(c))
  /\ UNCHANGED <<user, identity, ticket, knownDevice, signedIn, lostLinks, raced>>

(* create_personal: tenant and membership in one transaction; a slug that  *)
(* is taken is an error.                                                   *)
CreatePersonal(c) ==
  /\ call[c].at = "create tenant"
  /\ IF \E t \in Calls : tenant[t] # NoTenant /\ tenant[t].slug = LocalPart[call[c].email]
     THEN Fail(c) /\ UNCHANGED tenant
     ELSE tenant' = [tenant EXCEPT ![c] = NewTenant(c)] /\ Go(c, AfterCreate(c))
  /\ UNCHANGED <<user, identity, ticket, knownDevice, signedIn, lostLinks, raced>>

(* update_role to the initial role of the address; an error is ignored. *)
SetFirstRole(c) ==
  /\ call[c].at = "role"
  /\ \/ /\ tenant' = [tenant EXCEPT ![c].role = FirstRole[call[c].email]]
        /\ UNCHANGED lostLinks
     \/ /\ lostLinks < MaxLostLinks /\ lostLinks' = lostLinks + 1
        /\ UNCHANGED tenant
  /\ Go(c, "risk")
  /\ UNCHANGED <<user, identity, ticket, knownDevice, signedIn, raced>>

(* check_and_record and the last session's address; a Block refuses the    *)
(* login.                                                                  *)
Risk(c, device, ipChanged) ==
  LET pair == <<call[c].user, device>>
      signals == (IF pair \in knownDevice THEN {} ELSE {"new_device"})
                 \cup (IF ipChanged THEN {"ip_changed"} ELSE {}) IN
  /\ call[c].at = "risk"
  /\ knownDevice' = knownDevice \cup {pair}
  /\ IF Evaluate(signals, 0) = "Block" THEN Fail(c) ELSE Go(c, "session")
  /\ UNCHANGED <<user, identity, tenant, ticket, signedIn, lostLinks, raced>>

(* SessionStore::create *)
CreateSession(c) ==
  /\ call[c].at = "session"
  /\ signedIn' = signedIn \cup
       {[by |-> c, user |-> call[c].user, ticket |-> call[c].ticket, subject |-> call[c].subject]}
  /\ Fail(c)
  /\ UNCHANGED <<user, identity, tenant, ticket, knownDevice, lostLinks, raced>>

(* The provider refuses the code, a statement fails or the client is gone. *)
LoginAborted(c) ==
  /\ c \in Busy
  /\ Fail(c)
  /\ UNCHANGED <<user, identity, tenant, ticket, knownDevice, signedIn, lostLinks, raced>>

-------------------------------------------------------------------------------
(* unlink_identity: count_by_user, then a DELETE of one identity of the    *)
(* user.                                                                   *)

LinkedTo(e) == {s \in Subjects : identity[s] = e}

(* Mutant: refuses only a user without any. *)
CountSome(c, e) ==
  /\ call[c] = Unused /\ user[e] # NoRow
  /\ LinkedTo(e) # {}
  /\ call' = [call EXCEPT ![c] =
       [at |-> "unlink", ticket |-> NoOne, subject |-> NoOne, email |-> e,
        verified |-> TRUE, user |-> e]]
  /\ raced' = raced \cup
       (IF \E d \in Busy : call[d].at = "unlink" THEN {<<"unlink", e>>} ELSE {})
  /\ UNCHANGED <<user, identity, tenant, ticket, knownDevice, signedIn, lostLinks>>

UnlinkCount(c, e) ==
  /\ call[c] = Unused /\ user[e] # NoRow
  /\ Cardinality(LinkedTo(e)) > 1
  /\ call' = [call EXCEPT ![c] =
       [at |-> "unlink", ticket |-> NoOne, subject |-> NoOne, email |-> e,
        verified |-> TRUE, user |-> e]]
  /\ raced' = raced \cup
       (IF \E d \in Busy : call[d].at = "unlink" THEN {<<"unlink", e>>} ELSE {})
  /\ UNCHANGED <<user, identity, tenant, ticket, knownDevice, signedIn, lostLinks>>

Unlink(c, s) ==
  /\ call[c].at = "unlink" /\ identity[s] = call[c].user
  /\ identity' = [identity EXCEPT ![s] = NoOne]
  /\ raced' = raced \cup {<<"subject", s>>}
  /\ Fail(c)
  /\ UNCHANGED <<user, tenant, ticket, knownDevice, signedIn, lostLinks>>

-------------------------------------------------------------------------------
OidcStep(c) ==
  \/ \E f \in Flows, s \in Subjects, e \in Emails, v \in BOOLEAN : Callback(c, f, s, e, v)
  \/ FindBySubject(c) \/ FindByEmail(c) \/ OidcUpsert(c) \/ LinkIdentity(c) \/ LinkLost(c)
  \/ FindTenants(c) \/ CreatePersonal(c) \/ SetFirstRole(c)
  \/ \E d \in Devices, changed \in BOOLEAN : Risk(c, d, changed)
  \/ CreateSession(c)

LoginNext ==
  \/ \E f \in Flows : BeginOidcFlow(f)
  \/ \E l \in Links : SendMagicLink(l)
  \/ \E t \in Flows \cup Links : TicketExpires(t)
  \/ \E c \in Calls :
       \/ OidcStep(c) \/ MagicUpsert(c) \/ SamlMember(c) \/ LoginAborted(c)
       \/ \E l \in Links, e \in Emails : MagicVerify(c, l, e)
       \/ \E e \in Emails : SamlCallback(c, e) \/ UnlinkCount(c, e)
       \/ \E s \in Subjects : Unlink(c, s)

-------------------------------------------------------------------------------
(* Properties. *)

(***************************************************************************)
(* Single-use consume: a flow row or a magic link opens at most one        *)
(* session, however many callbacks present it at once.                     *)
(***************************************************************************)
TicketOpensOneSession ==
  \A a, b \in signedIn : a.ticket = b.ticket /\ a.ticket # NoOne => a.by = b.by

(***************************************************************************)
(* An identity keeps its user: once linked a subject never moves to        *)
(* another user by a login, only unlink_identity frees it.                 *)
(***************************************************************************)
IdentityKeepsItsUser ==
  [][\A s \in Subjects : identity[s] # NoOne => identity'[s] \in {identity[s], NoOne}]_loginVars

(***************************************************************************)
(* One person, one account: the subject decides who signs in, whatever     *)
(* address the provider reports from one login to the next, as long as its *)
(* logins do not overlap, its link was written and it was not unlinked.    *)
(***************************************************************************)
OneUserPerSubject ==
  \A a, b \in signedIn :
    a.subject = b.subject /\ a.subject # NoOne /\ <<"subject", a.subject>> \notin raced
      => a.user = b.user

(***************************************************************************)
(* Concurrent first logins of a user create one personal tenant: the       *)
(* lookup and the creation are two statements, and the unique slug decides,*)
(* unless the provider reports an address other than the user's own.       *)
(***************************************************************************)
OnePersonalTenant ==
  \A e \in Emails :
    LET own == {t \in Calls : tenant[t].owner = e} IN
    (\A t \in own : tenant[t].slug = LocalPart[e]) => Cardinality(own) <= 1

(***************************************************************************)
(* Refuse to remove the last federated identity: a user whose unlinks do   *)
(* not overlap and who had an identity keeps one.                          *)
(***************************************************************************)
LastIdentityKept ==
  [][\A e \in Emails :
       <<"unlink", e>> \notin raced' /\ LinkedTo(e) # {} =>
         \E s \in Subjects : identity'[s] = e]_loginVars
=============================================================================
