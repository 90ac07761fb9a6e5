------------------------- MODULE IdentityAssertion --------------------------
(***************************************************************************)
(* The identity that the gateway hands to a backend: how the request to    *)
(* the backend, its retry and a WebSocket upgrade are put together         *)
(* (gateway/src/proxy.rs, websocket.rs), the signature over it             *)
(* (GatewayAssertionSigner) and its verification by a consumer that is     *)
(* moved from one key to the next (GatewayAssertionVerifier, assertion.rs).*)
(* docs/gateway-auth-trust-contract.md fixes what is signed.               *)
(*                                                                         *)
(* A key is a number: its id and its secret.  The MAC is external: it      *)
(* verifies only with the secret and the text it was made with.            *)
(***************************************************************************)
EXTENDS Naturals, FiniteSets

CONSTANTS
  AssertionUsers,
  LastKey,         \* keys 1..LastKey are used, one after the other
  MaxSkew,         \* max_clock_skew_secs of the consumer, in ticks
  AssertionHorizon \* bound on time

ASSUME AssertionAssumption ==
  LastKey \in Nat \ {0} /\ MaxSkew \in Nat /\ AssertionHorizon \in Nat

VARIABLES
  gatewayTime,   \* the gateway's clock; the consumer's may be one off
  signingKey,    \* the key the gateway was started with
  verifierKeys,  \* [current, previous]: the consumer's keys
  switched,      \* when the gateway was last restarted with a new key
  sent,          \* the request on its way, or {}
  verdicts       \* the last verification: {} or {[request, age, accepted]}

assertionVars == <<gatewayTime, signingKey, verifierKeys, switched, sent, verdicts>>

-----------------------------------------------------------------------------
(* A client's own x-volta-* headers, a plugin's and a route's are dropped. *)

(* Mutant: an upgrade keeps every x- header of the client. *)
IdentityHeadersAllX(kind, user, client) ==
  IF kind = "upgrade" THEN {user} \cup client ELSE {user}

IdentityHeaders(kind, user, client) == {user}

(* strip_prefix and add_prefix; an upgrade goes to the path as it came.    *)
ForwardedPath(kind, rewritten) == IF kind # "upgrade" /\ rewritten THEN "/rewritten" ELSE "/as-sent"

(* sign_at: the canonical text, with the method in capitals. *)
SignAt(key, time, path, user) == [key |-> key, time |-> time, path |-> path, user |-> user]

(* The request, its retry and an upgrade are each signed when they are     *)
(* built; one is on its way at a time.  The header with the key id always  *)
(* goes with them; a proxy in between may lose it.                         *)
ForwardSigned(kind, user, client, rewritten, keyIdKept) ==
  LET path == ForwardedPath(kind, rewritten) IN
  /\ sent = {}
  /\ sent' = {[users |-> IdentityHeaders(kind, user, client), path |-> path,
               keyId |-> IF keyIdKept THEN signingKey ELSE 0,
               time |-> gatewayTime, mac |-> SignAt(signingKey, gatewayTime, path, user)]}
  /\ verdicts' = {}
  /\ UNCHANGED <<gatewayTime, signingKey, verifierKeys, switched>>

-----------------------------------------------------------------------------
AbsDiff(a, b) == IF a > b THEN a - b ELSE b - a

(* Mutant: the previous key is not tried. *)
KeyForCurrentOnly(keyId) == IF keyId \in {0, verifierKeys.current} THEN {verifierKeys.current} ELSE {}

KeyFor(keyId) ==
  IF keyId = 0
  THEN IF verifierKeys.previous = {} THEN {verifierKeys.current} ELSE {}
  ELSE {keyId} \cap ({verifierKeys.current} \cup verifierKeys.previous)

(* verify_at, with the user that the consumer read from the headers. *)
VerifyAt(r, user, now) ==
  /\ AbsDiff(now, r.time) <= MaxSkew
  /\ r.mac.key \in KeyFor(r.keyId)
  /\ r.mac.time = r.time /\ r.mac.path = r.path /\ r.mac.user = user

Consume(r, now) ==
  /\ AbsDiff(now, gatewayTime) <= 1
  /\ sent' = sent \ {r}
  /\ \E user \in r.users :
       verdicts' = {[request |-> r, age |-> AbsDiff(now, r.time), accepted |-> VerifyAt(r, user, now)]}
  /\ UNCHANGED <<gatewayTime, signingKey, verifierKeys, switched>>

(* The order of a rotation: the consumer learns the next key, the gateway  *)
(* is restarted with it, and the consumer forgets the old one once nothing *)
(* signed with it can be inside the window.  GatewayAssertionVerifier::new *)
(* refuses equal key ids.                                                  *)
LearnKey ==
  /\ verifierKeys.previous = {} /\ verifierKeys.current = signingKey /\ signingKey < LastKey
  /\ verifierKeys' = [current |-> signingKey + 1, previous |-> {signingKey}]
  /\ UNCHANGED <<gatewayTime, signingKey, switched, sent, verdicts>>

RestartWithKey ==
  /\ verifierKeys.current = signingKey + 1
  /\ signingKey' = signingKey + 1 /\ switched' = gatewayTime
  /\ UNCHANGED <<gatewayTime, verifierKeys, sent, verdicts>>

ForgetKey ==
  /\ verifierKeys.previous # {} /\ verifierKeys.current = signingKey
  /\ gatewayTime > switched + MaxSkew + 1
  /\ verifierKeys' = [verifierKeys EXCEPT !.previous = {}]
  /\ UNCHANGED <<gatewayTime, signingKey, switched, sent, verdicts>>

AssertionTick ==
  /\ gatewayTime < AssertionHorizon
  /\ gatewayTime' = gatewayTime + 1
  /\ UNCHANGED <<signingKey, verifierKeys, switched, sent, verdicts>>

AssertionInit ==
  /\ gatewayTime = 1 /\ signingKey = 1 /\ switched = 0
  /\ verifierKeys = [current |-> 1, previous |-> {}]
  /\ sent = {} /\ verdicts = {}

AssertionNext ==
  \/ \E kind \in {"first", "retry", "upgrade"}, user \in AssertionUsers,
        client \in {{}} \cup {{u} : u \in AssertionUsers}, rewritten, kept \in BOOLEAN :
       ForwardSigned(kind, user, client, rewritten, kept)
  \/ \E r \in sent : \E now \in {gatewayTime - 1, gatewayTime, gatewayTime + 1} : Consume(r, now)
  \/ LearnKey \/ RestartWithKey \/ ForgetKey \/ AssertionTick

-----------------------------------------------------------------------------
(* A rotation loses nothing: whatever the gateway signed, request, retry   *)
(* or upgrade, before or after its restart, the consumer accepts when the  *)
(* key id arrives with it and it is inside the window.                     *)
RotationLossless ==
  \A v \in verdicts : v.request.keyId # 0 /\ v.age <= MaxSkew => v.accepted

(* What the consumer accepts carries one user, the one the gateway         *)
(* authenticated, and the path it went to, and is inside the window: no    *)
(* value of a client stands beside the signed one.                         *)
AcceptedAsSigned ==
  \A v \in verdicts : v.accepted =>
    /\ v.age <= MaxSkew
    /\ v.request.users = {v.request.mac.user}
    /\ v.request.path = v.request.mac.path

(***************************************************************************)
(* A backend that checks the assertion accepts what the gateway signed,    *)
(* across key rotations, and nothing else.                                 *)
(***************************************************************************)
AssertionsSound == RotationLossless /\ AcceptedAsSigned
=============================================================================
