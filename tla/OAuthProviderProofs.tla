------------------------- MODULE OAuthProviderProofs -------------------------
(***************************************************************************)
(* What the provider promises of codes, refresh tokens and consent, for    *)
(* any number of users, clients, codes, tokens and concurrent calls.       *)
(***************************************************************************)
EXTENDS OAuthProvider, TLAPS

Redeeming(k, x) == oauthCall[k].at = "issue_tokens" /\ oauthCall[k].code = x

(* A code that can still be presented was not redeemed and is in no call's *)
(* hands; one in a call's hands is in that call's only.                    *)
CodeInv ==
  /\ CodeSingleUse
  /\ \A x \in AuthCodes :
       /\ codes[x] = Nobody \/ codes[x].status = "live" =>
            redeemed[x] = 0 /\ \A k \in OAuthCalls : ~Redeeming(k, x)
       /\ \A k \in OAuthCalls : Redeeming(k, x) =>
            redeemed[x] = 0 /\ \A l \in OAuthCalls : Redeeming(l, x) => l = k

(* A call that makes a replacement works for a family that exists, with    *)
(* the family's grant.                                                     *)
FamilyInv ==
  /\ OneLivePerFamily
  /\ Lineage
  /\ \A k \in OAuthCalls : oauthCall[k].at = "issue_tokens" /\ oauthCall[k].family # Nobody =>
       /\ \E t \in RefreshTokens : refreshTokens[t] # Nobody /\ refreshTokens[t].family = oauthCall[k].family
       /\ \A t \in RefreshTokens : refreshTokens[t] # Nobody /\ refreshTokens[t].family = oauthCall[k].family =>
            refreshTokens[t].grant = oauthCall[k].grant

Covered(g) ==
  \E h \in allowed : h.user = g.user /\ h.client = g.client /\ g.scope \subseteq h.scope

(* What is remembered, stored or on its way goes back to a consent page. *)
ConsentInv ==
  /\ ConsentCovers
  /\ \A u \in Users, c \in Clients : consent[u][c] # Nobody =>
       \E h \in allowed : h.user = u /\ h.client = c /\ h.scope = consent[u][c]
  /\ \A x \in AuthCodes : codes[x] # Nobody => Covered(codes[x].grant)
  /\ \A t \in RefreshTokens : refreshTokens[t] # Nobody => Covered(refreshTokens[t].grant)
  /\ \A k \in OAuthCalls : oauthCall[k].at \in {"issue_code", "issue_tokens"} => Covered(oauthCall[k].grant)

-------------------------------------------------------------------------------
(* What a call's position says about what it carries. *)
LEMMA CallFacts ==
  ASSUME NEW s \in OAuthCallState
  PROVE  /\ s.at \in {"idle", "issue_code", "issue_tokens"}
         /\ s.at # "idle" => s.grant \in Grant
         /\ s.at = "issue_tokens" => s.family \in Families \cup {Nobody}
                                     /\ s.code \in AuthCodes \cup {Nobody}
BY DEF OAuthCallState, NoCall

(* The provider starts with nothing stored. *)
LEMMA InitType == OAuthInit => OAuthTypeOK
BY OAuthAssumption DEF OAuthInit, OAuthTypeOK, OAuthCallState, NoCall

(* Every step keeps the types. *)
LEMMA NextType == OAuthTypeOK /\ [OAuthNext]_oauthVars => OAuthTypeOK'
<1> SUFFICES ASSUME OAuthTypeOK, [OAuthNext]_oauthVars PROVE OAuthTypeOK'
  OBVIOUS
<1> USE DEF OAuthTypeOK
<1>i. NoCall \in OAuthCallState
  BY DEF OAuthCallState
<1>l. ASSUME NEW k \in OAuthCalls, Leave(k) PROVE oauthCall' \in [OAuthCalls -> OAuthCallState]
  BY <1>l, <1>i DEF Leave
<1>s. ASSUME NEW k \in OAuthCalls, SignAccess(k)
      PROVE  /\ oauthCall' \in [OAuthCalls -> OAuthCallState]
             /\ accessTokens' \subseteq Access
             /\ redeemed' \in [AuthCodes -> Nat]
             /\ oauthCall[k].grant \in Grant
  <2> oauthCall[k] \in OAuthCallState /\ oauthCall[k].at = "issue_tokens"
    BY <1>s DEF SignAccess
  <2>1. oauthCall[k].grant \in Grant /\ oauthCall[k].code \in AuthCodes \cup {Nobody}
    BY CallFacts
  <2>2. accessTokens' \subseteq Access
    BY <1>s, <2>1 DEF SignAccess, Access, Grant
  <2>3. redeemed' \in [AuthCodes -> Nat]
    BY <1>s, <2>1 DEF SignAccess
  <2> QED BY <1>s, <1>l, <2>1, <2>2, <2>3 DEF SignAccess
<1>1. ASSUME NEW k \in OAuthCalls, NEW g \in Grant, Authorize(k, g) PROVE OAuthTypeOK'
  <2>1. [at |-> "issue_code", grant |-> g] \in OAuthCallState
    BY DEF OAuthCallState
  <2> QED BY <1>1, <2>1 DEF Authorize, Enter, provider, grants
<1>2. ASSUME NEW k \in OAuthCalls, NEW g \in Grant, AuthorizeConsent(k, g) PROVE OAuthTypeOK'
  <2>1. [at |-> "issue_code", grant |-> g] \in OAuthCallState
    BY DEF OAuthCallState
  <2>2. oauthCall' \in [OAuthCalls -> OAuthCallState] /\ allowed' \subseteq Grant
    BY <1>2, <2>1 DEF AuthorizeConsent, Enter
  <2>3. consent' \in [Users -> [Clients -> ScopeSets \cup {Nobody}]]
    <3>1. g.user \in Users /\ g.client \in Clients /\ g.scope \in ScopeSets
      BY DEF Grant
    <3>2. [consent[g.user] EXCEPT ![g.client] = g.scope] \in [Clients -> ScopeSets \cup {Nobody}]
      BY <3>1
    <3> QED BY <1>2, <3>1, <3>2 DEF AuthorizeConsent
  <2> QED BY <1>2, <2>2, <2>3 DEF AuthorizeConsent
<1>3. ASSUME NEW k \in OAuthCalls, NEW x \in AuthCodes, IssueCode(k, x) PROVE OAuthTypeOK'
  <2>1. oauthCall[k].grant \in Grant
    BY <1>3, CallFacts DEF IssueCode
  <2>2. codes' \in [AuthCodes -> Code \cup {Nobody}]
    BY <1>3, <2>1 DEF IssueCode, Code
  <2> QED BY <1>3, <1>l, <2>2 DEF IssueCode, grants
<1>4. ASSUME NEW k \in OAuthCalls, NEW x \in AuthCodes, NEW c \in Clients, NEW proof \in BOOLEAN,
             Redeem(k, x, c, proof)
      PROVE  OAuthTypeOK'
  <2>1. codes[x] \in Code
    BY <1>4 DEF Redeem
  <2>2. codes' \in [AuthCodes -> Code \cup {Nobody}]
    BY <1>4, <2>1 DEF Redeem, Code
  <2>3. [at |-> "issue_tokens", grant |-> codes[x].grant, family |-> Nobody, code |-> x]
          \in OAuthCallState
    BY <2>1 DEF OAuthCallState, Code
  <2>4. oauthCall' \in [OAuthCalls -> OAuthCallState]
    BY <1>4, <2>3 DEF Redeem, Enter
  <2> QED BY <1>4, <2>2, <2>4 DEF Redeem, grants
<1>5. ASSUME NEW k \in OAuthCalls, NEW t \in RefreshTokens, NEW f \in Families, IssueTokens(k, t, f)
      PROVE  OAuthTypeOK'
  <2>1. refreshTokens' \in [RefreshTokens -> Token \cup {Nobody}]
    BY <1>5, <1>s DEF IssueTokens, Token
  <2> QED BY <1>5, <1>s, <2>1 DEF IssueTokens
<1>6. ASSUME NEW k \in OAuthCalls, IssueAccessOnly(k) PROVE OAuthTypeOK'
  BY <1>6, <1>s DEF IssueAccessOnly, provider
<1>7. ASSUME NEW k \in OAuthCalls, NEW t \in RefreshTokens, NEW c \in Clients, RotateRefresh(k, t, c)
      PROVE  OAuthTypeOK'
  <2>1. refreshTokens[t] \in Token
    BY <1>7 DEF RotateRefresh
  <2>2. refreshTokens' \in [RefreshTokens -> Token \cup {Nobody}]
    BY <1>7, <2>1 DEF RotateRefresh, Token
  <2>3. [at |-> "issue_tokens", grant |-> refreshTokens[t].grant, family |-> refreshTokens[t].family,
         code |-> Nobody] \in OAuthCallState
    BY <2>1 DEF OAuthCallState, Token
  <2>4. oauthCall' \in [OAuthCalls -> OAuthCallState]
    BY <1>7, <2>3 DEF RotateRefresh, Enter
  <2> QED BY <1>7, <2>2, <2>4 DEF RotateRefresh, grants
<1>8. ASSUME NEW t \in RefreshTokens, Reuse(t) PROVE OAuthTypeOK'
  <2>1. refreshTokens[t] \in Token
    BY <1>8 DEF Reuse
  <2>2. \A u \in RefreshTokens : refreshTokens[u] # Nobody =>
          [refreshTokens[u] EXCEPT !.status = "revoked"] \in Token
    BY DEF Token
  <2> QED BY <1>8, <2>1, <2>2 DEF Reuse, Token
<1>9. ASSUME NEW t \in RefreshTokens, RevokeRefresh(t) \/ ExpireToken(t) PROVE OAuthTypeOK'
  <2>1. refreshTokens[t] \in Token
    BY <1>9 DEF RevokeRefresh, ExpireToken
  <2>2. refreshTokens' \in [RefreshTokens -> Token \cup {Nobody}]
    BY <1>9, <2>1 DEF RevokeRefresh, ExpireToken, Token
  <2> QED BY <1>9, <2>2 DEF RevokeRefresh, ExpireToken, grants
<1>10. ASSUME NEW a \in accessTokens, NEW c \in Clients, NEW scope \in ScopeSets,
              Exchange(a, c, scope)
       PROVE  OAuthTypeOK'
  <2>1. [a EXCEPT !.scope = scope, !.client = c] \in Access
    BY DEF Access
  <2> QED BY <1>10, <2>1 DEF Exchange, provider
<1>11. ASSUME NEW x \in AuthCodes, ExpireCode(x) PROVE OAuthTypeOK'
  <2>1. codes[x] \in Code
    BY <1>11 DEF ExpireCode
  <2>2. codes' \in [AuthCodes -> Code \cup {Nobody}]
    BY <1>11, <2>1 DEF ExpireCode, Code
  <2> QED BY <1>11, <2>2 DEF ExpireCode, grants
<1>12. ASSUME NEW k \in OAuthCalls, DropCall(k) PROVE OAuthTypeOK'
  BY <1>12, <1>l DEF DropCall, provider, grants
<1>13. CASE UNCHANGED oauthVars
  BY <1>13 DEF oauthVars, provider, grants
<1> HIDE DEF OAuthTypeOK
<1> QED
  BY <1>1, <1>2, <1>3, <1>4, <1>5, <1>6, <1>7, <1>8, <1>9, <1>10, <1>11, <1>12, <1>13
     DEF OAuthNext, CodeStep, RefreshStep

-------------------------------------------------------------------------------
(* A step that leaves codes, counts and the calls' codes alone, or only     *)
(* takes calls away, keeps CodeInv.                                         *)
LEMMA CodeKept ==
  ASSUME CodeInv, UNCHANGED <<codes, redeemed>>,
         \A k \in OAuthCalls, x \in AuthCodes : Redeeming(k, x)' => Redeeming(k, x)
  PROVE  CodeInv'
BY DEF CodeInv, CodeSingleUse

(* Every step keeps codes single-use. *)
LEMMA NextCode == OAuthTypeOK /\ CodeInv /\ [OAuthNext]_oauthVars => CodeInv'
<1> SUFFICES ASSUME OAuthTypeOK, CodeInv, [OAuthNext]_oauthVars PROVE CodeInv'
  OBVIOUS
<1>t. /\ codes \in [AuthCodes -> Code \cup {Nobody}]
      /\ oauthCall \in [OAuthCalls -> OAuthCallState]
      /\ redeemed \in [AuthCodes -> Nat]
  BY DEF OAuthTypeOK
<1>c. \A k \in OAuthCalls : oauthCall[k] \in OAuthCallState
  BY <1>t
<1>i. NoCall.at = "idle"
  BY DEF NoCall
<1>l. ASSUME NEW k \in OAuthCalls, Leave(k)
      PROVE  \A l \in OAuthCalls, x \in AuthCodes : Redeeming(l, x)' => Redeeming(l, x) /\ l # k
  BY <1>l, <1>t, <1>i DEF Leave, Redeeming
<1>1. ASSUME NEW k \in OAuthCalls, NEW g \in Grant, Authorize(k, g) \/ AuthorizeConsent(k, g)
      PROVE  CodeInv'
  <2>1. \A l \in OAuthCalls, x \in AuthCodes : Redeeming(l, x)' => Redeeming(l, x)
    BY <1>1, <1>t DEF Authorize, AuthorizeConsent, Enter, Redeeming
  <2> QED BY <1>1, <2>1, CodeKept DEF Authorize, AuthorizeConsent, provider, grants
<1>2. ASSUME NEW k \in OAuthCalls, NEW x \in AuthCodes, IssueCode(k, x) PROVE CodeInv'
  <2>1. \A l \in OAuthCalls, y \in AuthCodes : Redeeming(l, y)' => Redeeming(l, y)
    BY <1>2, <1>l DEF IssueCode
  <2>2. redeemed' = redeemed /\ codes[x] = Nobody /\ \A y \in AuthCodes : y # x => codes'[y] = codes[y]
    BY <1>2, <1>t DEF IssueCode, grants
  <2> QED BY <2>1, <2>2 DEF CodeInv, CodeSingleUse
<1>3. ASSUME NEW k \in OAuthCalls, NEW x \in AuthCodes, NEW c \in Clients, NEW proof \in BOOLEAN,
             Redeem(k, x, c, proof)
      PROVE  CodeInv'
  <2>1. /\ redeemed' = redeemed
        /\ codes[x] # Nobody /\ codes[x].status = "live"
        /\ \A y \in AuthCodes : y # x => codes'[y] = codes[y]
    BY <1>3, <1>t DEF Redeem, grants
  <2>2. codes'[x] # Nobody /\ codes'[x].status = "consumed"
    <3>1. codes[x] \in Code
      BY <1>t, <2>1
    <3>2. codes'[x] = [codes[x] EXCEPT !.status = "consumed"]
      BY <1>3, <1>t DEF Redeem
    <3>3. codes'[x] \in Code /\ codes'[x].status = "consumed"
      BY <3>1, <3>2 DEF Code
    <3> QED BY <3>3, OAuthAssumption
  <2>3. \A l \in OAuthCalls, y \in AuthCodes : Redeeming(l, y)' => Redeeming(l, y) \/ (l = k /\ y = x)
    BY <1>3, <1>t DEF Redeem, Enter, Redeeming
  <2>4. redeemed[x] = 0 /\ \A l \in OAuthCalls : ~Redeeming(l, x)
    BY <2>1 DEF CodeInv
  <2> QED BY <2>1, <2>2, <2>3, <2>4 DEF CodeInv, CodeSingleUse
<1>4. ASSUME NEW k \in OAuthCalls, SignAccess(k), UNCHANGED codes PROVE CodeInv'
  <2>1. \A l \in OAuthCalls, y \in AuthCodes : Redeeming(l, y)' => Redeeming(l, y) /\ l # k
    BY <1>4, <1>l DEF SignAccess
  <2>2. oauthCall[k].at = "issue_tokens" /\ oauthCall[k].code \in AuthCodes \cup {Nobody}
    BY <1>4, <1>c, CallFacts DEF SignAccess
  <2>3. CASE oauthCall[k].code = Nobody
    <3>1. redeemed' = redeemed
      BY <1>4, <2>3 DEF SignAccess
    <3> QED BY <1>4, <2>1, <3>1, CodeKept
  <2>4. CASE oauthCall[k].code # Nobody
    <3> DEFINE x == oauthCall[k].code
    <3>1. x \in AuthCodes /\ Redeeming(k, x)
      BY <2>2, <2>4 DEF Redeeming
    <3>2. redeemed[x] = 0 /\ (\A l \in OAuthCalls : Redeeming(l, x) => l = k)
          /\ codes[x] # Nobody /\ codes[x].status # "live"
      BY <3>1 DEF CodeInv
    <3>3. redeemed'[x] = 1 /\ \A y \in AuthCodes : y # x => redeemed'[y] = redeemed[y]
      BY <1>4, <1>t, <2>4, <3>1, <3>2 DEF SignAccess
    <3> QED BY <1>4, <2>1, <3>1, <3>2, <3>3 DEF CodeInv, CodeSingleUse
  <2> QED BY <2>3, <2>4
<1>5. ASSUME NEW k \in OAuthCalls, NEW t \in RefreshTokens, NEW c \in Clients, RotateRefresh(k, t, c)
      PROVE  CodeInv'
  <2>1. \A l \in OAuthCalls, x \in AuthCodes : Redeeming(l, x)' => Redeeming(l, x)
    BY <1>5, <1>t, OAuthAssumption DEF RotateRefresh, Enter, Redeeming
  <2> QED BY <1>5, <2>1, CodeKept DEF RotateRefresh, grants
<1>6. ASSUME NEW t \in RefreshTokens, Reuse(t) \/ RevokeRefresh(t) \/ ExpireToken(t) PROVE CodeInv'
  BY <1>6, CodeKept DEF Reuse, RevokeRefresh, ExpireToken, grants, Redeeming
<1>7. ASSUME NEW a \in accessTokens, NEW c \in Clients, NEW scope \in ScopeSets,
             Exchange(a, c, scope)
      PROVE  CodeInv'
  BY <1>7, CodeKept DEF Exchange, provider, Redeeming
<1>8. ASSUME NEW x \in AuthCodes, ExpireCode(x) PROVE CodeInv'
  <2>1. /\ UNCHANGED <<oauthCall, redeemed>>
        /\ codes[x] # Nobody /\ codes[x].status = "live"
        /\ \A y \in AuthCodes : y # x => codes'[y] = codes[y]
    BY <1>8, <1>t DEF ExpireCode, grants
  <2> QED BY <2>1 DEF CodeInv, CodeSingleUse, Redeeming
<1>9. ASSUME NEW k \in OAuthCalls, DropCall(k) PROVE CodeInv'
  BY <1>9, <1>l, CodeKept DEF DropCall, provider, grants
<1>10. CASE UNCHANGED oauthVars
  BY <1>10, CodeKept DEF oauthVars, provider, grants, Redeeming
<1> QED
  BY <1>1, <1>2, <1>3, <1>4, <1>5, <1>6, <1>7, <1>8, <1>9, <1>10
     DEF OAuthNext, CodeStep, RefreshStep, IssueTokens, IssueAccessOnly, provider

-------------------------------------------------------------------------------
(* A step that only revokes or expires tokens and takes calls away keeps   *)
(* FamilyInv.                                                              *)
LEMMA FamilyKept ==
  ASSUME FamilyInv,
         \A t \in RefreshTokens :
           /\ refreshTokens'[t] # Nobody <=> refreshTokens[t] # Nobody
           /\ refreshTokens[t] # Nobody => /\ refreshTokens'[t].family = refreshTokens[t].family
                                           /\ refreshTokens'[t].grant = refreshTokens[t].grant
           /\ Unrevoked(t)' => Unrevoked(t),
         \A k \in OAuthCalls :
           oauthCall'[k].at = "issue_tokens" => oauthCall'[k] = oauthCall[k] \/ oauthCall'[k].family = Nobody
  PROVE  FamilyInv'
BY OAuthAssumption DEF FamilyInv, OneLivePerFamily, Lineage, Minting, Unrevoked

(* Every step keeps one end, and one grant, per family. *)
LEMMA NextFamily == OAuthTypeOK /\ FamilyInv /\ [OAuthNext]_oauthVars => FamilyInv'
<1> SUFFICES ASSUME OAuthTypeOK, FamilyInv, [OAuthNext]_oauthVars PROVE FamilyInv'
  OBVIOUS
<1>t. /\ refreshTokens \in [RefreshTokens -> Token \cup {Nobody}]
      /\ oauthCall \in [OAuthCalls -> OAuthCallState]
  BY DEF OAuthTypeOK
<1>i. NoCall.at = "idle"
  BY DEF NoCall
<1>e. ASSUME NEW t \in RefreshTokens, refreshTokens[t] # Nobody,
             NEW st \in {"revoked", "expired"}
      PROVE  LET r == [refreshTokens[t] EXCEPT !.status = st]
             IN  /\ r # Nobody /\ r.status = st
                 /\ r.family = refreshTokens[t].family /\ r.grant = refreshTokens[t].grant
  <2>1. refreshTokens[t] \in Token
    BY <1>e, <1>t
  <2>2. [refreshTokens[t] EXCEPT !.status = st] \in Token
    BY <2>1 DEF Token
  <2> QED BY <2>1, <2>2, OAuthAssumption DEF Token
<1>1. ASSUME NEW k \in OAuthCalls, Leave(k)
      PROVE  \A l \in OAuthCalls : oauthCall'[l].at = "issue_tokens" => oauthCall'[l] = oauthCall[l] /\ l # k
  BY <1>1, <1>t, <1>i DEF Leave
<1>2. ASSUME UNCHANGED refreshTokens,
             \A k \in OAuthCalls : oauthCall'[k].at = "issue_tokens" =>
               oauthCall'[k] = oauthCall[k] \/ oauthCall'[k].family = Nobody
      PROVE  FamilyInv'
  BY <1>2, FamilyKept DEF Unrevoked
<1>3. ASSUME NEW k \in OAuthCalls, NEW g \in Grant, Authorize(k, g) \/ AuthorizeConsent(k, g)
      PROVE  FamilyInv'
  BY <1>3, <1>2, <1>t DEF Authorize, AuthorizeConsent, Enter, provider
<1>4. ASSUME NEW k \in OAuthCalls, NEW x \in AuthCodes, IssueCode(k, x) PROVE FamilyInv'
  BY <1>4, <1>1, <1>2 DEF IssueCode
<1>5. ASSUME NEW k \in OAuthCalls, NEW x \in AuthCodes, NEW c \in Clients, NEW proof \in BOOLEAN,
             Redeem(k, x, c, proof)
      PROVE  FamilyInv'
  BY <1>5, <1>2, <1>t DEF Redeem, Enter
<1>6. ASSUME NEW k \in OAuthCalls, NEW t \in RefreshTokens, NEW f \in Families, IssueTokens(k, t, f)
      PROVE  FamilyInv'
  <2> DEFINE new == [status |-> "live", grant |-> oauthCall[k].grant, family |-> f]
  <2>1. /\ oauthCall[k].at = "issue_tokens"
        /\ refreshTokens[t] = Nobody
        /\ refreshTokens' = [refreshTokens EXCEPT ![t] = new]
        /\ \A l \in OAuthCalls : oauthCall'[l].at = "issue_tokens" => oauthCall'[l] = oauthCall[l] /\ l # k
    BY <1>6, <1>1 DEF IssueTokens, SignAccess
  <2>2. /\ refreshTokens'[t] = new
        /\ \A u \in RefreshTokens : u # t => refreshTokens'[u] = refreshTokens[u]
    BY <1>t, <2>1
  <2>3. new # Nobody
    <3>1. oauthCall[k].grant \in Grant
      BY <1>t, <2>1, CallFacts
    <3>2. new \in Token
      BY <3>1 DEF Token
    <3> QED BY <3>2, OAuthAssumption
  <2>4. \A u \in RefreshTokens : refreshTokens[u] # Nobody /\ refreshTokens[u].family = f =>
          refreshTokens[u].status = "revoked" /\ refreshTokens[u].grant = oauthCall[k].grant
    <3>1. CASE oauthCall[k].family = Nobody
      BY <1>6, <3>1 DEF IssueTokens
    <3>2. CASE oauthCall[k].family # Nobody
      <4>1. f = oauthCall[k].family
        BY <1>6, <3>2 DEF IssueTokens
      <4>2. Minting(k, f)
        BY <2>1, <4>1 DEF Minting
      <4>3. \A u \in RefreshTokens : Unrevoked(u) => refreshTokens[u].family # f
        BY <4>2 DEF FamilyInv, OneLivePerFamily
      <4> QED BY <2>1, <3>2, <4>1, <4>3 DEF FamilyInv, Unrevoked
    <3> QED BY <3>1, <3>2
  <2>5. \A l \in OAuthCalls : oauthCall'[l].at = "issue_tokens" => oauthCall[l].family # f
    <3> SUFFICES ASSUME NEW l \in OAuthCalls, oauthCall'[l].at = "issue_tokens", oauthCall[l].family = f
                 PROVE  FALSE
      OBVIOUS
    <3>1. l # k /\ oauthCall[l].at = "issue_tokens"
      BY <2>1
    <3>2. Minting(l, f) /\ oauthCall[l].family # Nobody
      BY <3>1, OAuthAssumption DEF Minting
    <3>3. \E u \in RefreshTokens : refreshTokens[u] # Nobody /\ refreshTokens[u].family = f
      BY <3>1, <3>2 DEF FamilyInv
    <3>4. oauthCall[k].family = f
      BY <1>6, <3>3 DEF IssueTokens
    <3>5. Minting(k, f)
      BY <2>1, <3>4 DEF Minting
    <3> QED BY <3>1, <3>2, <3>5 DEF FamilyInv, OneLivePerFamily
  <2>6. OneLivePerFamily'
    <3>1. \A g \in Families, u, v \in RefreshTokens :
            (Unrevoked(u) /\ Unrevoked(v) /\ refreshTokens[u].family = g /\ refreshTokens[v].family = g)'
              => u = v
      BY <2>2, <2>3, <2>4 DEF FamilyInv, OneLivePerFamily, Unrevoked
    <3>2. \A g \in Families, l \in OAuthCalls : Minting(l, g)' =>
            /\ g # f /\ Minting(l, g)
            /\ \A u \in RefreshTokens : Unrevoked(u)' => refreshTokens'[u].family # g
      BY <2>1, <2>2, <2>5 DEF FamilyInv, OneLivePerFamily, Unrevoked, Minting
    <3> QED BY <3>1, <3>2 DEF FamilyInv, OneLivePerFamily
  <2>7. Lineage'
    BY <2>2, <2>3, <2>4 DEF FamilyInv, Lineage
  <2>8. \A l \in OAuthCalls : oauthCall'[l].at = "issue_tokens" /\ oauthCall'[l].family # Nobody =>
          /\ \E u \in RefreshTokens : refreshTokens'[u] # Nobody /\ refreshTokens'[u].family = oauthCall'[l].family
          /\ \A u \in RefreshTokens : refreshTokens'[u] # Nobody /\ refreshTokens'[u].family = oauthCall'[l].family =>
               refreshTokens'[u].grant = oauthCall'[l].grant
    BY <2>1, <2>2, <2>3, <2>5 DEF FamilyInv
  <2> QED BY <2>6, <2>7, <2>8 DEF FamilyInv
<1>7. ASSUME NEW k \in OAuthCalls, IssueAccessOnly(k) PROVE FamilyInv'
  BY <1>7, <1>1, <1>2 DEF IssueAccessOnly, SignAccess, provider
<1>8. ASSUME NEW k \in OAuthCalls, NEW t \in RefreshTokens, NEW c \in Clients, RotateRefresh(k, t, c)
      PROVE  FamilyInv'
  <2>1. /\ refreshTokens[t] # Nobody /\ refreshTokens[t].status = "live" /\ oauthCall[k] = NoCall
        /\ refreshTokens'[t] = [refreshTokens[t] EXCEPT !.status = "revoked"]
        /\ \A u \in RefreshTokens : u # t => refreshTokens'[u] = refreshTokens[u]
    BY <1>8, <1>t DEF RotateRefresh
  <2>2. /\ refreshTokens'[t] # Nobody /\ refreshTokens'[t].status = "revoked"
        /\ refreshTokens'[t].family = refreshTokens[t].family /\ refreshTokens'[t].grant = refreshTokens[t].grant
    BY <1>e, <2>1
  <2>3. \A u \in RefreshTokens :
          /\ refreshTokens'[u] # Nobody <=> refreshTokens[u] # Nobody
          /\ refreshTokens[u] # Nobody => /\ refreshTokens'[u].family = refreshTokens[u].family
                                          /\ refreshTokens'[u].grant = refreshTokens[u].grant
          /\ Unrevoked(u)' => Unrevoked(u) /\ u # t
    BY <2>1, <2>2 DEF Unrevoked
  <2>4. \A l \in OAuthCalls : l # k => oauthCall'[l] = oauthCall[l]
    BY <1>8, <1>t DEF RotateRefresh, Enter
  <2>5. oauthCall'[k].at = "issue_tokens" =>
          oauthCall'[k].family = refreshTokens[t].family /\ oauthCall'[k].grant = refreshTokens[t].grant
    BY <1>8, <1>t, <1>i, <2>1 DEF RotateRefresh, Enter
  <2>6. Unrevoked(t) /\ refreshTokens[t].family \in Families
    BY <1>t, <2>1, OAuthAssumption DEF Unrevoked, Token
  <2>7. \A l \in OAuthCalls : oauthCall[l].at = "issue_tokens" => oauthCall[l].family # refreshTokens[t].family
    BY <2>6 DEF FamilyInv, OneLivePerFamily, Minting
  <2>8. OneLivePerFamily'
    <3>1. \A g \in Families, u, v \in RefreshTokens :
            (Unrevoked(u) /\ Unrevoked(v) /\ refreshTokens[u].family = g /\ refreshTokens[v].family = g)'
              => u = v
      BY <2>3 DEF FamilyInv, OneLivePerFamily, Unrevoked
    <3>2. \A g \in Families, l \in OAuthCalls : Minting(l, g)' =>
            \A u \in RefreshTokens : Unrevoked(u)' => refreshTokens'[u].family # g
      <4> SUFFICES ASSUME NEW g \in Families, NEW l \in OAuthCalls, Minting(l, g)',
                          NEW u \in RefreshTokens, Unrevoked(u)'
                   PROVE  refreshTokens'[u].family # g
        OBVIOUS
      <4>1. Unrevoked(u) /\ u # t /\ refreshTokens'[u].family = refreshTokens[u].family
        BY <2>3 DEF Unrevoked
      <4>2. CASE l = k
        BY <2>5, <2>6, <4>1, <4>2 DEF FamilyInv, OneLivePerFamily, Minting
      <4>3. CASE l # k
        BY <2>4, <4>1, <4>3 DEF FamilyInv, OneLivePerFamily, Minting
      <4> QED BY <4>2, <4>3
    <3>3. \A g \in Families, l, m \in OAuthCalls : Minting(l, g)' /\ Minting(m, g)' => l = m
      BY <2>4, <2>5, <2>7 DEF FamilyInv, OneLivePerFamily, Minting
    <3> QED BY <3>1, <3>2, <3>3 DEF OneLivePerFamily
  <2>9. Lineage'
    BY <2>3 DEF FamilyInv, Lineage
  <2>10. \A l \in OAuthCalls : oauthCall'[l].at = "issue_tokens" /\ oauthCall'[l].family # Nobody =>
          /\ \E u \in RefreshTokens : refreshTokens'[u] # Nobody /\ refreshTokens'[u].family = oauthCall'[l].family
          /\ \A u \in RefreshTokens : refreshTokens'[u] # Nobody /\ refreshTokens'[u].family = oauthCall'[l].family =>
               refreshTokens'[u].grant = oauthCall'[l].grant
    BY <2>1, <2>3, <2>4, <2>5 DEF FamilyInv, Lineage
  <2> QED BY <2>8, <2>9, <2>10 DEF FamilyInv
<1>9. ASSUME NEW t \in RefreshTokens, Reuse(t) PROVE FamilyInv'
  <2>1. \A u \in RefreshTokens :
          \/ refreshTokens'[u] = refreshTokens[u]
          \/ refreshTokens[u] # Nobody /\ refreshTokens'[u] = [refreshTokens[u] EXCEPT !.status = "revoked"]
    BY <1>9, <1>t DEF Reuse
  <2>2. oauthCall' = oauthCall
    BY <1>9 DEF Reuse
  <2>3. ASSUME NEW u \in RefreshTokens
        PROVE  /\ refreshTokens'[u] # Nobody <=> refreshTokens[u] # Nobody
               /\ refreshTokens[u] # Nobody => /\ refreshTokens'[u].family = refreshTokens[u].family
                                               /\ refreshTokens'[u].grant = refreshTokens[u].grant
               /\ Unrevoked(u)' => Unrevoked(u)
    <3>1. CASE refreshTokens'[u] = refreshTokens[u]
      BY <3>1 DEF Unrevoked
    <3>2. CASE refreshTokens'[u] # refreshTokens[u]
      BY <1>e, <2>1, <3>2 DEF Unrevoked
    <3> QED BY <3>1, <3>2
  <2> QED BY <2>1, <2>2, <2>3, FamilyKept
<1>10. ASSUME NEW t \in RefreshTokens, RevokeRefresh(t) \/ ExpireToken(t) PROVE FamilyInv'
  <2>1. /\ oauthCall' = oauthCall /\ refreshTokens[t] # Nobody /\ refreshTokens[t].status # "revoked"
        /\ \A u \in RefreshTokens : u # t => refreshTokens'[u] = refreshTokens[u]
        /\ \E st \in {"revoked", "expired"} : refreshTokens'[t] = [refreshTokens[t] EXCEPT !.status = st]
    BY <1>10, <1>t DEF RevokeRefresh, ExpireToken
  <2>3. ASSUME NEW u \in RefreshTokens
        PROVE  /\ refreshTokens'[u] # Nobody <=> refreshTokens[u] # Nobody
               /\ refreshTokens[u] # Nobody => /\ refreshTokens'[u].family = refreshTokens[u].family
                                               /\ refreshTokens'[u].grant = refreshTokens[u].grant
               /\ Unrevoked(u)' => Unrevoked(u)
    <3>1. CASE refreshTokens'[u] = refreshTokens[u]
      BY <3>1 DEF Unrevoked
    <3>2. CASE refreshTokens'[u] # refreshTokens[u]
      <4>1. u = t
        BY <2>1, <3>2
      <4>2. PICK st \in {"revoked", "expired"} : refreshTokens'[t] = [refreshTokens[t] EXCEPT !.status = st]
        BY <2>1
      <4>3. /\ refreshTokens'[t] # Nobody
            /\ refreshTokens'[t].family = refreshTokens[t].family /\ refreshTokens'[t].grant = refreshTokens[t].grant
        BY <1>e, <2>1, <4>2
      <4> QED BY <2>1, <4>1, <4>3 DEF Unrevoked
    <3> QED BY <3>1, <3>2
  <2> QED BY <2>1, <2>3, FamilyKept
<1>11. ASSUME NEW a \in accessTokens, NEW c \in Clients, NEW scope \in ScopeSets,
              Exchange(a, c, scope)
       PROVE  FamilyInv'
  BY <1>11, <1>2 DEF Exchange, provider
<1>12. ASSUME NEW x \in AuthCodes, ExpireCode(x) PROVE FamilyInv'
  BY <1>12, <1>2 DEF ExpireCode
<1>13. ASSUME NEW k \in OAuthCalls, DropCall(k) PROVE FamilyInv'
  BY <1>13, <1>1, <1>2 DEF DropCall, provider
<1>14. CASE UNCHANGED oauthVars
  BY <1>14, <1>2 DEF oauthVars, provider
<1> QED
  BY <1>3, <1>4, <1>5, <1>6, <1>7, <1>8, <1>9, <1>10, <1>11, <1>12, <1>13, <1>14
     DEF OAuthNext, CodeStep, RefreshStep

-------------------------------------------------------------------------------
(* Every step keeps to what users allowed. *)
LEMMA NextConsent == OAuthTypeOK /\ ConsentInv /\ [OAuthNext]_oauthVars => ConsentInv'
<1> SUFFICES ASSUME OAuthTypeOK, ConsentInv, [OAuthNext]_oauthVars PROVE ConsentInv'
  OBVIOUS
<1>t. /\ consent \in [Users -> [Clients -> ScopeSets \cup {Nobody}]]
      /\ codes \in [AuthCodes -> Code \cup {Nobody}]
      /\ refreshTokens \in [RefreshTokens -> Token \cup {Nobody}]
      /\ oauthCall \in [OAuthCalls -> OAuthCallState]
      /\ allowed \subseteq Grant /\ accessTokens \subseteq Access
  BY DEF OAuthTypeOK
<1>i. NoCall.at = "idle"
  BY DEF NoCall
<1> DEFINE Remembered ==
             \A u \in Users, c \in Clients : consent[u][c] # Nobody =>
               \E h \in allowed : h.user = u /\ h.client = c /\ h.scope = consent[u][c]
           CodesOK == \A x \in AuthCodes : codes[x] # Nobody => Covered(codes[x].grant)
           TokensOK == \A t \in RefreshTokens : refreshTokens[t] # Nobody => Covered(refreshTokens[t].grant)
           CallsOK == \A k \in OAuthCalls : oauthCall[k].at \in {"issue_code", "issue_tokens"} =>
                        Covered(oauthCall[k].grant)
<1>p. ConsentCovers /\ Remembered /\ CodesOK /\ TokensOK /\ CallsOK
  BY DEF ConsentInv
<1>l. ASSUME NEW k \in OAuthCalls, Leave(k), UNCHANGED allowed PROVE CallsOK'
  BY <1>l, <1>t, <1>i, <1>p DEF Leave, Covered
<1>s. ASSUME NEW k \in OAuthCalls, SignAccess(k), UNCHANGED allowed
      PROVE  ConsentCovers' /\ CallsOK' /\ Covered(oauthCall[k].grant)
  <2>1. Covered(oauthCall[k].grant) /\ oauthCall[k].grant \in Grant
    BY <1>s, <1>t, <1>p, CallFacts DEF SignAccess
  <2>2. ConsentCovers'
    BY <1>s, <1>p, <2>1 DEF SignAccess, ConsentCovers, Covered
  <2> QED BY <1>s, <1>l, <2>1, <2>2 DEF SignAccess
<1>1. ASSUME NEW k \in OAuthCalls, NEW g \in Grant, Authorize(k, g) PROVE ConsentInv'
  <2>1. Covered(g)
    BY <1>1, <1>p DEF Authorize, Covered, Grant
  <2>2. CallsOK'
    BY <1>1, <1>t, <1>p, <2>1 DEF Authorize, Enter, grants, Covered
  <2> QED BY <1>1, <1>p, <2>2 DEF Authorize, provider, grants, ConsentInv, ConsentCovers, Covered
<1>2. ASSUME NEW k \in OAuthCalls, NEW g \in Grant, AuthorizeConsent(k, g) PROVE ConsentInv'
  <2>1. allowed' = allowed \cup {g} /\ UNCHANGED <<codes, refreshTokens, accessTokens>>
    BY <1>2 DEF AuthorizeConsent
  <2>2. ConsentCovers' /\ CodesOK' /\ TokensOK'
    BY <1>p, <2>1 DEF ConsentCovers, Covered
  <2>3. CallsOK'
    BY <1>2, <1>t, <1>p, <2>1 DEF AuthorizeConsent, Enter, Covered
  <2>4. Remembered'
    <3>1. CASE UNCHANGED consent
      BY <1>p, <2>1, <3>1
    <3>2. CASE consent' = [consent EXCEPT ![g.user][g.client] = g.scope]
      <4>1. g.user \in Users /\ g.client \in Clients
        BY DEF Grant
      <4>2. \A u \in Users, c \in Clients :
              \/ consent'[u][c] = consent[u][c]
              \/ u = g.user /\ c = g.client /\ consent'[u][c] = g.scope
        BY <1>t, <3>2, <4>1
      <4> QED BY <1>p, <2>1, <4>2
    <3> QED BY <1>2, <3>1, <3>2 DEF AuthorizeConsent
  <2> QED BY <2>2, <2>3, <2>4 DEF ConsentInv
<1>3. ASSUME NEW k \in OAuthCalls, NEW x \in AuthCodes, IssueCode(k, x) PROVE ConsentInv'
  <2>1. Covered(oauthCall[k].grant) /\ UNCHANGED <<consent, refreshTokens, allowed, accessTokens>>
    BY <1>3, <1>p DEF IssueCode, grants
  <2>2. CodesOK'
    BY <1>3, <1>t, <1>p, <2>1 DEF IssueCode, Covered
  <2>3. CallsOK'
    BY <1>3, <1>l, <2>1 DEF IssueCode
  <2> QED BY <1>p, <2>1, <2>2, <2>3 DEF ConsentInv, ConsentCovers, Covered
<1>4. ASSUME NEW k \in OAuthCalls, NEW x \in AuthCodes, NEW c \in Clients, NEW proof \in BOOLEAN,
             Redeem(k, x, c, proof)
      PROVE  ConsentInv'
  <2>1. codes[x] # Nobody /\ Covered(codes[x].grant) /\ UNCHANGED <<consent, refreshTokens, allowed, accessTokens>>
    BY <1>4, <1>p DEF Redeem, grants
  <2>2. CodesOK'
    <3>1. codes'[x].grant = codes[x].grant /\ \A y \in AuthCodes : y # x => codes'[y] = codes[y]
      BY <1>4, <1>t, <2>1 DEF Redeem, Code
    <3> QED BY <1>p, <2>1, <3>1 DEF Covered
  <2>3. CallsOK'
    BY <1>4, <1>t, <1>p, <2>1 DEF Redeem, Enter, Covered
  <2> QED BY <1>p, <2>1, <2>2, <2>3 DEF ConsentInv, ConsentCovers, Covered
<1>5. ASSUME NEW k \in OAuthCalls, NEW t \in RefreshTokens, NEW f \in Families, IssueTokens(k, t, f)
      PROVE  ConsentInv'
  <2>1. ConsentCovers' /\ CallsOK' /\ Covered(oauthCall[k].grant)
    BY <1>5, <1>s DEF IssueTokens
  <2>2. TokensOK'
    BY <1>5, <1>t, <1>p, <2>1 DEF IssueTokens, Covered
  <2> QED BY <1>5, <1>p, <2>1, <2>2 DEF IssueTokens, ConsentInv, Covered
<1>6. ASSUME NEW k \in OAuthCalls, IssueAccessOnly(k) PROVE ConsentInv'
  BY <1>6, <1>p, <1>s DEF IssueAccessOnly, provider, ConsentInv, Covered
<1>7. ASSUME UNCHANGED <<consent, codes, allowed, accessTokens>>,
             \A u \in RefreshTokens : /\ refreshTokens[u] = Nobody => refreshTokens'[u] = Nobody
                                      /\ refreshTokens[u] # Nobody => refreshTokens'[u].grant = refreshTokens[u].grant
      PROVE  ConsentCovers' /\ Remembered' /\ CodesOK' /\ TokensOK'
  BY <1>7, <1>p DEF ConsentCovers, Covered
<1>8. ASSUME NEW k \in OAuthCalls, NEW t \in RefreshTokens, NEW c \in Clients, RotateRefresh(k, t, c)
      PROVE  ConsentInv'
  <2>1. refreshTokens[t] # Nobody /\ Covered(refreshTokens[t].grant) /\ UNCHANGED <<consent, codes, allowed, accessTokens>>
    BY <1>8, <1>p DEF RotateRefresh, grants
  <2>2. \A u \in RefreshTokens : /\ refreshTokens[u] = Nobody => refreshTokens'[u] = Nobody
                                 /\ refreshTokens[u] # Nobody => refreshTokens'[u].grant = refreshTokens[u].grant
    BY <1>8, <1>t, <2>1 DEF RotateRefresh, Token
  <2>3. CallsOK'
    BY <1>8, <1>t, <1>p, <2>1 DEF RotateRefresh, Enter, Covered
  <2> QED BY <1>7, <2>1, <2>2, <2>3 DEF ConsentInv
<1>9. ASSUME NEW t \in RefreshTokens, Reuse(t) \/ RevokeRefresh(t) \/ ExpireToken(t) PROVE ConsentInv'
  <2>1. refreshTokens[t] # Nobody /\ UNCHANGED <<consent, codes, oauthCall, allowed, accessTokens>>
    BY <1>9 DEF Reuse, RevokeRefresh, ExpireToken, grants
  <2>2. \A u \in RefreshTokens : /\ refreshTokens[u] = Nobody => refreshTokens'[u] = Nobody
                                 /\ refreshTokens[u] # Nobody => refreshTokens'[u].grant = refreshTokens[u].grant
    <3>1. \A u \in RefreshTokens, st \in {"revoked", "expired"} :
            refreshTokens[u] # Nobody => [refreshTokens[u] EXCEPT !.status = st].grant = refreshTokens[u].grant
      BY <1>t DEF Token
    <3>2. CASE Reuse(t)
      BY <1>t, <3>1, <3>2 DEF Reuse
    <3>3. CASE RevokeRefresh(t) \/ ExpireToken(t)
      BY <1>t, <2>1, <3>1, <3>3 DEF RevokeRefresh, ExpireToken
    <3> QED BY <1>9, <3>2, <3>3
  <2>3. CallsOK'
    BY <1>p, <2>1 DEF Covered
  <2> QED BY <1>7, <2>1, <2>2, <2>3 DEF ConsentInv
<1>10. ASSUME NEW a \in accessTokens, NEW c \in Clients, NEW scope \in ScopeSets,
              Exchange(a, c, scope)
       PROVE  ConsentInv'
  <2> DEFINE b == [a EXCEPT !.scope = scope, !.client = c]
  <2>1. b.user = a.user /\ b.root = a.root /\ b.scope = scope
    BY <1>t DEF Access
  <2>2. /\ accessTokens' = accessTokens \cup {b} /\ scope \subseteq BaseScope(a.scope)
        /\ UNCHANGED <<consent, codes, refreshTokens, oauthCall, allowed>>
    BY <1>10 DEF Exchange, provider
  <2>3. ConsentCovers'
    <3> HIDE DEF b
    <3>1. PICK g \in allowed : /\ g.user = a.user /\ g.client = a.root
                               /\ a.scope \subseteq g.scope \/ a.scope = SignInOnly
      BY <1>p DEF ConsentCovers
    <3>2. b.scope \subseteq g.scope \/ b.scope = SignInOnly
      BY <2>1, <2>2, <3>1 DEF BaseScope, SignInOnly
    <3>3. g.user = b.user /\ g.client = b.root
      BY <2>1, <3>1
    <3> QED BY <1>p, <2>2, <3>2, <3>3 DEF ConsentCovers
  <2> QED BY <1>p, <2>2, <2>3 DEF ConsentInv, Covered
<1>11. ASSUME NEW x \in AuthCodes, ExpireCode(x) PROVE ConsentInv'
  <2>1. codes[x] # Nobody /\ UNCHANGED <<consent, refreshTokens, oauthCall, allowed, accessTokens>>
    BY <1>11 DEF ExpireCode, grants
  <2>2. codes'[x].grant = codes[x].grant /\ \A y \in AuthCodes : y # x => codes'[y] = codes[y]
    BY <1>11, <1>t, <2>1 DEF ExpireCode, Code
  <2> QED BY <1>p, <2>1, <2>2 DEF ConsentInv, ConsentCovers, Covered
<1>12. ASSUME NEW k \in OAuthCalls, DropCall(k) PROVE ConsentInv'
  <2>1. UNCHANGED <<consent, codes, refreshTokens, allowed, accessTokens>> /\ CallsOK'
    BY <1>12, <1>l DEF DropCall, provider, grants
  <2> QED BY <1>p, <2>1 DEF ConsentInv, ConsentCovers, Covered
<1>13. CASE UNCHANGED oauthVars
  BY <1>13, <1>p DEF oauthVars, provider, grants, ConsentInv, ConsentCovers, Covered
<1> HIDE DEF Remembered, CodesOK, TokensOK, CallsOK
<1> QED
  BY <1>1, <1>2, <1>3, <1>4, <1>5, <1>6, <1>8, <1>9, <1>10, <1>11, <1>12, <1>13
     DEF OAuthNext, CodeStep, RefreshStep

-------------------------------------------------------------------------------
(* The provider's state always has the types of the code. *)
THEOREM TypeCorrect == OAuthSpec => []OAuthTypeOK
BY InitType, NextType, PTL DEF OAuthSpec

(***************************************************************************)
(* Authorization codes are single-use: however many token requests present *)
(* one at the same time, tokens are signed for it at most once.            *)
(***************************************************************************)
THEOREM CodesSingleUse == OAuthSpec => []CodeSingleUse
<1>1. OAuthInit => CodeInv
  BY DEF OAuthInit, CodeInv, CodeSingleUse, Redeeming, NoCall
<1>2. CodeInv => CodeSingleUse
  BY DEF CodeInv
<1> QED BY <1>1, <1>2, NextCode, TypeCorrect, PTL DEF OAuthSpec

(***************************************************************************)
(* A refresh-token family never has two usable ends, and never two grants: *)
(* rotation, reuse, revocation, failed saves and calls that die between    *)
(* rotate_refresh and save_refresh all keep this.                          *)
(***************************************************************************)
THEOREM FamiliesSound == OAuthSpec => [](OneLivePerFamily /\ Lineage)
<1>1. OAuthInit => FamilyInv
  BY DEF OAuthInit, FamilyInv, OneLivePerFamily, Lineage, Unrevoked, Minting, NoCall
<1>2. FamilyInv => OneLivePerFamily /\ Lineage
  BY DEF FamilyInv
<1> QED BY <1>1, <1>2, NextFamily, TypeCorrect, PTL DEF OAuthSpec

(* Rotation never changes hands: all refresh tokens of a family are for    *)
(* the user, the client and the scope of the first.                        *)
THEOREM LineageKept == OAuthSpec => []Lineage
<1>1. (OneLivePerFamily /\ Lineage) => Lineage
  OBVIOUS
<1> QED BY <1>1, FamiliesSound, PTL

(***************************************************************************)
(* Whatever is redeemed, rotated or exchanged later, an access token has   *)
(* no more scope than its user allowed on a consent page, or is for        *)
(* "openid" alone.                                                         *)
(***************************************************************************)
THEOREM ConsentBounds == OAuthSpec => []ConsentCovers
<1>1. OAuthInit => ConsentInv
  BY DEF OAuthInit, ConsentInv, ConsentCovers, NoCall
<1>2. ConsentInv => ConsentCovers
  BY DEF ConsentInv
<1> QED BY <1>1, <1>2, NextConsent, TypeCorrect, PTL DEF OAuthSpec
=============================================================================
