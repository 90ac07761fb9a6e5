---------------------------- MODULE OAuthProvider ----------------------------
(***************************************************************************)
(* The OpenID provider: authorization codes with consent, rotating refresh *)
(* tokens with reuse detection, and token exchange                         *)
(* (auth-server/src/handlers/op.rs, the dispatch in manage.rs, and the     *)
(* stores of auth-core/src/store/pg.rs).                                   *)
(*                                                                         *)
(* Handlers are concurrent calls.  One SQL statement or transaction is one *)
(* step; a handler that makes several can be overtaken between them, and   *)
(* can end there for good (DropCall: the client hangs up, or the process   *)
(* dies, after part of the work is committed).  Answers that change nothing *)
(* (failed client authentication, unknown codes, expired tokens) are not   *)
(* steps.  Expiry is a step of its own: it can come at any time.           *)
(***************************************************************************)
EXTENDS FiniteSets, Naturals

CONSTANTS
  Users, Clients,
  ScopeSets,       \* sets of scopes that are asked for; {} is an empty scope
  Offline,         \* clients with the grant type refresh_token
  AuthCodes,       \* authorization codes the provider can draw
  RefreshTokens,   \* refresh tokens
  Families,        \* family ids
  OAuthCalls,      \* concurrent handler calls
  Nobody,          \* no code or family; a row that does not exist
  MaxConsents,     \* bound: pages are allowed until so many grants were
  MaxAccess        \* bound: exchanges stop when so many access tokens are out

(* The scope an exchange puts in place of an empty one. *)
SignInOnly == {"openid"}

VARIABLES
  consent,        \* oauth_consents: the scopes of a user's consent to a client
  codes,          \* oauth_authorization_codes
  refreshTokens,  \* oauth_refresh_tokens
  oauthCall,      \* where each handler call is, and what it carries
  allowed,        \* history: what users allowed on a consent page
  accessTokens,   \* history: the access tokens that were signed
  redeemed,       \* history: how often tokens were signed for a code
  reused          \* history: families in which a reuse was detected

provider == <<consent, codes, refreshTokens>>
grants == <<allowed, accessTokens, redeemed, reused>>
oauthVars == <<provider, oauthCall, grants>>

Grant == [client : Clients, user : Users, scope : ScopeSets]
Code == [status : {"live", "consumed", "expired"}, grant : Grant]
Token == [status : {"live", "revoked", "expired"}, grant : Grant, family : Families]

ASSUME OAuthAssumption ==
  /\ Nobody \notin AuthCodes /\ Nobody \notin Families /\ Nobody \notin ScopeSets
  /\ Nobody \notin Code /\ Nobody \notin Token
  /\ SignInOnly \in ScopeSets
  /\ Offline \subseteq Clients
  /\ MaxConsents \in Nat /\ MaxAccess \in Nat

(* An access token: who holds it, and the client whose grant it goes back to. *)
Access == [user : Users, scope : ScopeSets, client : Clients, root : Clients]

NoCall == [at |-> "idle"]
OAuthCallState ==
  {NoCall}
    \cup [at : {"issue_code"}, grant : Grant]
    \cup [at : {"issue_tokens"}, grant : Grant,
          family : Families \cup {Nobody}, code : AuthCodes \cup {Nobody}]

(* Every variable has the shape the code's types give it. *)
OAuthTypeOK ==
  /\ consent \in [Users -> [Clients -> ScopeSets \cup {Nobody}]]
  /\ codes \in [AuthCodes -> Code \cup {Nobody}]
  /\ refreshTokens \in [RefreshTokens -> Token \cup {Nobody}]
  /\ oauthCall \in [OAuthCalls -> OAuthCallState]
  /\ allowed \subseteq Grant
  /\ accessTokens \subseteq Access
  /\ redeemed \in [AuthCodes -> Nat]
  /\ reused \subseteq Families

OAuthInit ==
  /\ consent = [u \in Users |-> [c \in Clients |-> Nobody]]
  /\ codes = [x \in AuthCodes |-> Nobody]
  /\ refreshTokens = [t \in RefreshTokens |-> Nobody]
  /\ oauthCall = [k \in OAuthCalls |-> NoCall]
  /\ allowed = {} /\ accessTokens = {}
  /\ redeemed = [x \in AuthCodes |-> 0]
  /\ reused = {}

Enter(k, state) == oauthCall[k] = NoCall /\ oauthCall' = [oauthCall EXCEPT ![k] = state]
Leave(k) == oauthCall' = [oauthCall EXCEPT ![k] = NoCall]

-------------------------------------------------------------------------------
(* Authorization codes.                                                    *)

(* GET /authorize with a remembered consent that covers the scope. *)
Authorize(k, g) ==
  /\ consent[g.user][g.client] # Nobody
  /\ g.scope \subseteq consent[g.user][g.client]
  /\ Enter(k, [at |-> "issue_code", grant |-> g])
  /\ UNCHANGED <<provider, grants>>

(* POST /authorize/consent with "allow": a consent is stored in place of   *)
(* an earlier one; an error of that statement is ignored.                  *)
AuthorizeConsent(k, g) ==
  /\ Cardinality(allowed) < MaxConsents \/ g \in allowed
  /\ Enter(k, [at |-> "issue_code", grant |-> g])
  /\ allowed' = allowed \cup {g}
  /\ \/ consent' = [consent EXCEPT ![g.user][g.client] = g.scope]
     \/ UNCHANGED consent
  /\ UNCHANGED <<codes, refreshTokens, accessTokens, redeemed, reused>>

(* save_code: the code goes to the redirect_uri. *)
IssueCode(k, x) ==
  /\ oauthCall[k].at = "issue_code"
  /\ codes[x] = Nobody
  /\ codes' = [codes EXCEPT ![x] =
       [status |-> "live", grant |-> oauthCall[k].grant]]
  /\ Leave(k)
  /\ UNCHANGED <<consent, refreshTokens, grants>>

(* Mutant: the code is looked up first and marked by a later statement.  *)
RedeemUnmarked(k, x, c, proof) ==
  /\ codes[x] # Nobody /\ codes[x].status = "live"
  /\ codes' = codes
  /\ IF codes[x].grant.client = c /\ proof
     THEN Enter(k, [at |-> "issue_tokens", grant |-> codes[x].grant,
                    family |-> Nobody, code |-> x])
     ELSE oauthCall[k] = NoCall /\ UNCHANGED oauthCall
  /\ UNCHANGED <<consent, refreshTokens, grants>>

(* Grant authorization_code: consume_code marks the code, then client,     *)
(* redirect_uri and PKCE verifier (proof) are compared: a mismatch burns   *)
(* the code.                                                               *)
Redeem(k, x, c, proof) ==
  /\ codes[x] # Nobody /\ codes[x].status = "live"
  /\ codes' = [codes EXCEPT ![x].status = "consumed"]
  /\ IF codes[x].grant.client = c /\ proof
     THEN Enter(k, [at |-> "issue_tokens", grant |-> codes[x].grant,
                    family |-> Nobody, code |-> x])
     ELSE oauthCall[k] = NoCall /\ UNCHANGED oauthCall
  /\ UNCHANGED <<consent, refreshTokens, grants>>

-------------------------------------------------------------------------------
(* Refresh tokens.                                                         *)

(* Signing an access token in issue_tokens. *)
SignAccess(k) ==
  /\ oauthCall[k].at = "issue_tokens"
  /\ LET g == oauthCall[k].grant
     IN  accessTokens' = accessTokens \cup
           {[user |-> g.user, scope |-> g.scope, client |-> g.client, root |-> g.client]}
  /\ redeemed' = IF oauthCall[k].code = Nobody THEN redeemed
                 ELSE [redeemed EXCEPT ![oauthCall[k].code] = @ + 1]
  /\ Leave(k)

(* Mutant: a first refresh token gets no family. *)
IssueTokensNoFamily(k, t, f) ==
  /\ SignAccess(k)
  /\ oauthCall[k].grant.client \in Offline
  /\ refreshTokens[t] = Nobody
  /\ refreshTokens' = [refreshTokens EXCEPT ![t] =
       [status |-> "live", grant |-> oauthCall[k].grant, family |-> oauthCall[k].family]]
  /\ UNCHANGED <<consent, codes, allowed, reused>>

(* issue_tokens with save_refresh: a new family after a code, the old one  *)
(* after a rotation.                                                       *)
IssueTokens(k, t, f) ==
  /\ SignAccess(k)
  /\ oauthCall[k].grant.client \in Offline
  /\ refreshTokens[t] = Nobody
  /\ IF oauthCall[k].family = Nobody
     THEN \A u \in RefreshTokens : refreshTokens[u] # Nobody => refreshTokens[u].family # f
     ELSE f = oauthCall[k].family
  /\ refreshTokens' = [refreshTokens EXCEPT ![t] =
       [status |-> "live", grant |-> oauthCall[k].grant, family |-> f]]
  /\ UNCHANGED <<consent, codes, allowed, reused>>

(* issue_tokens without a refresh token: the client has not the grant type *)
(* or save_refresh failed.                                                 *)
IssueAccessOnly(k) ==
  /\ SignAccess(k)
  /\ UNCHANGED <<provider, allowed, reused>>

(* Mutant: the rotated token is not revoked. *)
RotateKeepsOld(k, t, c) ==
  /\ oauthCall[k] = NoCall
  /\ refreshTokens[t] # Nobody /\ refreshTokens[t].status = "live"
  /\ refreshTokens' = refreshTokens
  /\ IF refreshTokens[t].grant.client = c
     THEN Enter(k, [at |-> "issue_tokens", grant |-> refreshTokens[t].grant,
                    family |-> refreshTokens[t].family, code |-> Nobody])
     ELSE UNCHANGED oauthCall
  /\ UNCHANGED <<consent, codes, grants>>

(* Mutant: the replacement is issued to the client that asked. *)
RotateForAsker(k, t, c) ==
  /\ oauthCall[k] = NoCall
  /\ refreshTokens[t] # Nobody /\ refreshTokens[t].status = "live"
  /\ refreshTokens' = [refreshTokens EXCEPT ![t].status = "revoked"]
  /\ Enter(k, [at |-> "issue_tokens", grant |-> [refreshTokens[t].grant EXCEPT !.client = c],
               family |-> refreshTokens[t].family, code |-> Nobody])
  /\ UNCHANGED <<consent, codes, grants>>

(* Grant refresh_token, rotate_refresh of a live token: it is revoked and  *)
(* committed before the client is compared and the replacement is made.    *)
RotateRefresh(k, t, c) ==
  /\ oauthCall[k] = NoCall
  /\ refreshTokens[t] # Nobody /\ refreshTokens[t].status = "live"
  /\ refreshTokens' = [refreshTokens EXCEPT ![t].status = "revoked"]
  /\ IF refreshTokens[t].grant.client = c
     THEN Enter(k, [at |-> "issue_tokens", grant |-> refreshTokens[t].grant,
                    family |-> refreshTokens[t].family, code |-> Nobody])
     ELSE UNCHANGED oauthCall
  /\ UNCHANGED <<consent, codes, grants>>

(* rotate_refresh of a revoked token: what is live in the family then is   *)
(* revoked in the same transaction.                                        *)
Reuse(t) ==
  /\ refreshTokens[t] # Nobody /\ refreshTokens[t].status = "revoked"
  /\ refreshTokens' = [u \in RefreshTokens |->
       IF refreshTokens[u] # Nobody /\ refreshTokens[u].family = refreshTokens[t].family
       THEN [refreshTokens[u] EXCEPT !.status = "revoked"] ELSE refreshTokens[u]]
  /\ reused' = reused \cup {refreshTokens[t].family}
  /\ UNCHANGED <<consent, codes, oauthCall, allowed, accessTokens, redeemed>>

(* POST /oauth/revoke: by the token alone, expired or not. *)
RevokeRefresh(t) ==
  /\ refreshTokens[t] # Nobody /\ refreshTokens[t].status # "revoked"
  /\ refreshTokens' = [refreshTokens EXCEPT ![t].status = "revoked"]
  /\ UNCHANGED <<consent, codes, oauthCall, grants>>

(* Mutant: the requested scope is not compared with the subject token's. *)
ExchangeAny(a, c, scope) ==
  /\ Cardinality(accessTokens) < MaxAccess
  /\ accessTokens' = accessTokens \cup {[a EXCEPT !.scope = scope, !.client = c]}
  /\ UNCHANGED <<provider, oauthCall, allowed, redeemed, reused>>

(* base_scope of token_exchange: what an exchanged token may have.  An      *)
(* empty scope of the subject token counts as "openid".                    *)
BaseScope(scope) == IF scope = {} THEN SignInOnly ELSE scope

(* Grant token-exchange: client c trades the access token a, of whatever   *)
(* client, for one of its own with the same scope or a part of it.         *)
Exchange(a, c, scope) ==
  /\ Cardinality(accessTokens) < MaxAccess
  /\ scope \subseteq BaseScope(a.scope)
  /\ accessTokens' = accessTokens \cup {[a EXCEPT !.scope = scope, !.client = c]}
  /\ UNCHANGED <<provider, oauthCall, allowed, redeemed, reused>>

-------------------------------------------------------------------------------
(* Time and failures.                                                      *)

ExpireCode(x) ==
  /\ codes[x] # Nobody /\ codes[x].status = "live"
  /\ codes' = [codes EXCEPT ![x].status = "expired"]
  /\ UNCHANGED <<consent, refreshTokens, oauthCall, grants>>

ExpireToken(t) ==
  /\ refreshTokens[t] # Nobody /\ refreshTokens[t].status = "live"
  /\ refreshTokens' = [refreshTokens EXCEPT ![t].status = "expired"]
  /\ UNCHANGED <<consent, codes, oauthCall, grants>>

(* A call ends between two of its statements. *)
DropCall(k) ==
  /\ oauthCall[k] # NoCall
  /\ Leave(k)
  /\ UNCHANGED <<provider, grants>>

CodeStep(k) ==
  \/ \E g \in Grant : Authorize(k, g) \/ AuthorizeConsent(k, g)
  \/ \E x \in AuthCodes : IssueCode(k, x)
  \/ \E x \in AuthCodes, c \in Clients, proof \in BOOLEAN : Redeem(k, x, c, proof)

RefreshStep(k) ==
  \/ \E t \in RefreshTokens, f \in Families : IssueTokens(k, t, f)
  \/ IssueAccessOnly(k)
  \/ \E t \in RefreshTokens, c \in Clients : RotateRefresh(k, t, c)

OAuthNext ==
  \/ \E k \in OAuthCalls : CodeStep(k) \/ RefreshStep(k) \/ DropCall(k)
  \/ \E t \in RefreshTokens : Reuse(t) \/ RevokeRefresh(t) \/ ExpireToken(t)
  \/ \E a \in accessTokens, c \in Clients, scope \in ScopeSets : Exchange(a, c, scope)
  \/ \E x \in AuthCodes : ExpireCode(x)

OAuthSpec == OAuthInit /\ [][OAuthNext]_oauthVars

-------------------------------------------------------------------------------
(* Properties.                                                             *)

Unrevoked(t) == refreshTokens[t] # Nobody /\ refreshTokens[t].status # "revoked"
Minting(k, f) == oauthCall[k].at = "issue_tokens" /\ oauthCall[k].family = f

(***************************************************************************)
(* A code is worth one set of tokens, however many token requests present  *)
(* it at the same time.                                                    *)
(***************************************************************************)
CodeSingleUse == \A x \in AuthCodes : redeemed[x] <= 1

(***************************************************************************)
(* A family has one end: at most one refresh token of it is not revoked,   *)
(* or one replacement is on its way, whatever retries, reuses, revocations *)
(* and lost answers happened before.                                       *)
(***************************************************************************)
OneLivePerFamily ==
  \A f \in Families :
    /\ \A t, u \in RefreshTokens :
         (Unrevoked(t) /\ Unrevoked(u) /\ refreshTokens[t].family = f /\ refreshTokens[u].family = f) => t = u
    /\ \A k \in OAuthCalls : Minting(k, f) =>
         /\ \A t \in RefreshTokens : Unrevoked(t) => refreshTokens[t].family # f
         /\ \A l \in OAuthCalls : Minting(l, f) => l = k

(***************************************************************************)
(* Rotation never changes hands: all refresh tokens of a family, however   *)
(* often rotated, are for the client, the user and the scope of the first. *)
(***************************************************************************)
Lineage ==
  \A t, u \in RefreshTokens :
    (refreshTokens[t] # Nobody /\ refreshTokens[u] # Nobody /\ refreshTokens[t].family = refreshTokens[u].family)
      => refreshTokens[t].grant = refreshTokens[u].grant

(***************************************************************************)
(* Every access token, also one from a rotation or a chain of exchanges    *)
(* long after, goes back to a consent its user gave to the client the      *)
(* chain began with, and is within its scope.  The one thing it can have   *)
(* beyond is "openid" alone: token_exchange puts it in place of an empty   *)
(* scope, also where the page did not list it.                             *)
(***************************************************************************)
ConsentCovers ==
  \A a \in accessTokens : \E g \in allowed :
    /\ g.user = a.user /\ g.client = a.root
    /\ a.scope \subseteq g.scope \/ a.scope = SignInOnly

(***************************************************************************)
(* record/oauth.rs: when a revoked token is presented again, the family    *)
(* must be revoked wholesale, so none of its tokens is usable afterwards.  *)
(***************************************************************************)
ReuseEndsFamily == \A t \in RefreshTokens : Unrevoked(t) => refreshTokens[t].family \notin reused
===============================================================================
