---------------------------- MODULE GatewayAuth ----------------------------
(***************************************************************************)
(* How the gateway decides who a request is from (gateway/src/auth.rs) and *)
(* the JWKS cache behind its degraded mode (auth-core/src/jwks.rs): every  *)
(* request asks the auth server, nothing is cached; when the call fails    *)
(* and the caller allows it, the session's JWT is verified with cached     *)
(* keys, fetched again when the key is unknown, and by a refresher task.   *)
(***************************************************************************)
EXTENDS Integers, FiniteSets

CONSTANTS
    AuthRequests,     \* requests under way
    SignKeys,         \* keys of the auth server
    FirstKey          \* the key published at the start

ASSUME GatewayAuthAssumption == FirstKey \in SignKeys

VARIABLES
    published,    \* the keys of /.well-known/jwks.json
    dropped,      \* keys the auth server revoked
    ended,        \* the session was revoked on the auth server
    jwks,         \* the cache: [warm, keys, due, forced]
    check,        \* check[r]: one call of check_with_degraded_policy
    refresher     \* the refresher task: [at, got]

gatewayAuthVars == <<published, dropped, ended, jwks, check, refresher>>

(* warm: the cache holds a set; due: its TTL has passed; forced: a forced   *)
(* refresh was marked less than FORCE_REFRESH_MIN_INTERVAL ago.             *)
JwksCache == [warm : BOOLEAN, keys : SUBSET SignKeys, due : BOOLEAN, forced : BOOLEAN]

Checks == [at : {"idle", "online", "lookup", "mark", "fetch", "store", "again", "admitted", "refused", "failed"},
           kid : SignKeys, expired : BOOLEAN,
           gated : BOOLEAN,     \* a min_role applies, the route's or an auth rule's
           soft : BOOLEAN,      \* the route asks for soft auth
           after : BOOLEAN,     \* history: began after the session was revoked
           local : BOOLEAN,     \* history: the online call failed
           got : SUBSET SignKeys]

NoCheck == [at |-> "idle", kid |-> FirstKey, expired |-> FALSE, gated |-> FALSE,
            soft |-> FALSE, after |-> FALSE, local |-> FALSE, got |-> {}]

GatewayAuthInit ==
    /\ published = {FirstKey} /\ dropped = {} /\ ended = FALSE
    /\ jwks = [warm |-> FALSE, keys |-> {}, due |-> FALSE, forced |-> FALSE]
    /\ check = [r \in AuthRequests |-> NoCheck]
    /\ refresher = [at |-> "idle", got |-> {}]

Goto(r, at) == check' = [check EXCEPT ![r].at = at]
auth == <<published, dropped, ended>>

----------------------------------------------------------------------------
(* check_with_degraded_policy                                              *)

(* A request with a session cookie: a JWT of some key, expired or not.      *)
BeginCheck(r) ==
    /\ check[r].at = "idle"
    /\ \E k \in SignKeys, x, g, s \in BOOLEAN :
        check' = [check EXCEPT ![r] = [NoCheck EXCEPT !.at = "online", !.kid = k, !.expired = x,
                                                      !.gated = g, !.soft = s, !.after = ended]]
    /\ UNCHANGED <<auth, jwks, refresher>>

(* The auth server answers: 200, or 401/302/403.                            *)
OnlineAnswer(r) ==
    /\ check[r].at = "online"
    /\ Goto(r, IF ended THEN "refused" ELSE "admitted")
    /\ UNCHANGED <<auth, jwks, refresher>>

(* Mutant: every caller lets the request fall back. *)
FallbackAlways(r) == TRUE

(* What the callers pass: soft auth always falls back, whatever role an     *)
(* auth rule asks for; every other request only where no role is asked for. *)
FallbackAllowed(r) == check[r].soft \/ ~check[r].gated

(* Transport error, timeout or 5xx, which a server that is up can also      *)
(* produce: fall back where the caller allows it, fail closed otherwise.    *)
OnlineError(r) ==
    /\ check[r].at = "online"
    /\ check' = [check EXCEPT ![r].at = IF FallbackAllowed(r) THEN "lookup" ELSE "failed",
                              ![r].local = TRUE]
    /\ UNCHANGED <<auth, jwks, refresher>>

----------------------------------------------------------------------------
(* MultiVerifier::verify_async with key_for_kid                            *)

Verified(r) == IF check[r].expired THEN "failed" ELSE "admitted"

ShouldRefresh == ~jwks.warm \/ jwks.due \/ ~jwks.forced

LookupKey(r) ==
    /\ check[r].at = "lookup"
    /\ Goto(r, IF check[r].kid \in jwks.keys THEN Verified(r)
               ELSE IF ShouldRefresh THEN "mark" ELSE "again")
    /\ UNCHANGED <<auth, jwks, refresher>>

(* A second lock: only a warm cache can take the mark.                      *)
MarkForced(r) ==
    /\ check[r].at = "mark"
    /\ jwks' = [jwks EXCEPT !.forced = jwks.warm]
    /\ Goto(r, "fetch")
    /\ UNCHANGED <<auth, refresher>>

FetchKeys(r) ==
    /\ check[r].at = "fetch"
    /\ \/ check' = [check EXCEPT ![r].at = "store", ![r].got = published]
       \/ Goto(r, "failed")
    /\ UNCHANGED <<auth, jwks, refresher>>

(* Mutant: the keys fetched are added to the ones the cache holds. *)
Merged(keys) == [jwks EXCEPT !.warm = TRUE, !.keys = jwks.keys \union keys, !.due = FALSE]

(* The tail of refresh: the new set replaces the old one.                   *)
Replaced(keys) == [jwks EXCEPT !.warm = TRUE, !.keys = keys, !.due = FALSE]

StoreKeys(r) ==
    /\ check[r].at = "store"
    /\ jwks' = Replaced(check[r].got)
    /\ check' = [check EXCEPT ![r].at = "again", ![r].got = {}]
    /\ UNCHANGED <<auth, refresher>>

LookupAgain(r) ==
    /\ check[r].at = "again"
    /\ Goto(r, IF check[r].kid \in jwks.keys THEN Verified(r) ELSE "failed")
    /\ UNCHANGED <<auth, jwks, refresher>>

(* The answer is sent; the connection's next request may begin.             *)
EndCheck(r) ==
    /\ check[r].at \in {"admitted", "refused", "failed"}
    /\ check' = [check EXCEPT ![r] = NoCheck]
    /\ UNCHANGED <<auth, jwks, refresher>>

----------------------------------------------------------------------------
(* spawn_refresher, and time.                                              *)

(* One fetch, answered.  One that fails changes nothing, and one that hangs *)
(* keeps the task, since the HTTP client has no timeout: then this step is  *)
(* not taken, and nothing says it has to be.                                *)
RefresherFetch ==
    /\ refresher.at = "idle"
    /\ refresher' = [at |-> "store", got |-> published]
    /\ UNCHANGED <<auth, jwks, check>>

RefresherStore ==
    /\ refresher.at = "store"
    /\ jwks' = Replaced(refresher.got)
    /\ refresher' = [at |-> "idle", got |-> {}]
    /\ UNCHANGED <<auth, check>>

TtlPasses == jwks.warm /\ ~jwks.due /\ jwks' = [jwks EXCEPT !.due = TRUE]
             /\ UNCHANGED <<auth, check, refresher>>
IntervalPasses == jwks.forced /\ jwks' = [jwks EXCEPT !.forced = FALSE]
                  /\ UNCHANGED <<auth, check, refresher>>

----------------------------------------------------------------------------
(* The auth server: any call to it may fail.                               *)

PublishKey(k) ==
    /\ k \notin published /\ k \notin dropped
    /\ published' = published \union {k}
    /\ UNCHANGED <<dropped, ended, jwks, check, refresher>>

DropKey(k) ==
    /\ k \in published
    /\ published' = published \ {k}
    /\ dropped' = dropped \union {k}
    /\ UNCHANGED <<ended, jwks, check, refresher>>

RevokeSession ==
    /\ ~ended
    /\ ended' = TRUE
    /\ UNCHANGED <<published, dropped, jwks, check, refresher>>

GatewayAuthNext ==
    \/ RefresherFetch \/ RefresherStore \/ TtlPasses \/ IntervalPasses
    \/ RevokeSession
    \/ \E k \in SignKeys : PublishKey(k) \/ DropKey(k)
    \/ \E r \in AuthRequests :
        \/ BeginCheck(r) \/ OnlineAnswer(r) \/ OnlineError(r) \/ LookupKey(r) \/ MarkForced(r)
        \/ FetchKeys(r) \/ StoreKeys(r) \/ LookupAgain(r) \/ EndCheck(r)

----------------------------------------------------------------------------
GatewayAuthTypeOK ==
    /\ published \subseteq SignKeys /\ dropped \subseteq SignKeys /\ ended \in BOOLEAN
    /\ jwks \in JwksCache /\ check \in [AuthRequests -> Checks]
    /\ refresher \in [at : {"idle", "store"}, got : SUBSET SignKeys]

(* "revocation must be observed on the next request": a request that began  *)
(* after the session was revoked is taken for its user only in degraded     *)
(* mode - its own online call failed, the JWT has not expired, and the      *)
(* route is soft or no role is asked for - never because of an earlier      *)
(* answer.                                                                  *)
RevocationSeen ==
    \A r \in AuthRequests : check[r].at = "admitted" /\ check[r].after =>
        check[r].local /\ ~check[r].expired /\ (check[r].soft \/ ~check[r].gated)

(* A key the auth server no longer publishes leaves the cache for good if   *)
(* the refresher's fetches go on being answered, whatever slower refreshes  *)
(* of requests still wrote after newer ones.  One fetch that hangs keeps    *)
(* the refresher, and the key, for ever.                                    *)
DroppedKeyLeaves ==
    \A k \in SignKeys :
        <>[](k \in dropped) /\ []<>(refresher.at = "store") => <>[](k \notin jwks.keys)
=============================================================================
