--------------------------- MODULE EndpointLimits ---------------------------
(***************************************************************************)
(* The limiters of the auth server's login, passkey, magic-link, device    *)
(* and registration endpoints (auth-server/src/rate_limit.rs): a fixed     *)
(* window per limiter and per client address, in memory, read from the     *)
(* environment at start-up.  gc is offered to callers; none calls it yet,  *)
(* so the model lets it happen at any time.                                *)
(***************************************************************************)
EXTENDS Naturals, FiniteSets

CONSTANTS
  Addresses,      \* addresses of clients
  DefaultLimit,   \* what app.rs gives, in requests per window
  LimitWindow,    \* width of the window in ticks
  LimitHorizon    \* bound on time

ASSUME EndpointLimitsAssumption ==
  DefaultLimit \in Nat \ {0} /\ LimitWindow \in Nat \ {0} /\ LimitHorizon \in Nat

VARIABLES
  limiter,     \* requests per window; 0 switches the limiter off
  limitTime,
  buckets,     \* address -> {} or {[start, count]}
  passed,      \* history: requests let through in the last window, <<address, time, number>>
  refused      \* history: the addresses refused since the last request let through or tick

limitVars == <<limiter, limitTime, buckets, passed, refused>>

-----------------------------------------------------------------------------
(* from_env.  A variable of the environment is {} when it is not set or    *)
(* does not parse.  The multiplier is given in sixths; 0 is ignored, the   *)
(* product is rounded.                                                     *)
EnvLimits == {{}, {0}, {1}}
EnvMultipliers == {{}, {0}, {1}, {9}}

Scaled(sixths) == (2 * DefaultLimit * sixths + 6) \div 12

FromEnv(named, sixths) ==
  IF named # {} THEN CHOOSE n \in named : TRUE
  ELSE IF sixths \in {{}, {0}} THEN DefaultLimit
  ELSE LET n == Scaled(CHOOSE m \in sixths : TRUE) IN IF n > 1 THEN n ELSE 1

LimitsInit ==
  /\ \E named \in EnvLimits : \E sixths \in EnvMultipliers :
       limiter = FromEnv(named, sixths)
  /\ limitTime = 0
  /\ buckets = [a \in Addresses |-> {}]
  /\ passed = {}
  /\ refused = {}

(* client_ip_key: X-Real-IP, then the first of X-Forwarded-For, when they  *)
(* parse as an address, else the peer.                                     *)
ClientIpKey(real, forwarded, peer) ==
  IF real \in Addresses THEN real ELSE IF forwarded \in Addresses THEN forwarded ELSE peer

-----------------------------------------------------------------------------
(* Mutant: a bucket that is full is never rolled over. *)
NeverRolled(b) == TRUE

InWindow(b) == limitTime - b.start < LimitWindow

(* Mutant: a request more than the limit. *)
HasRoomInclusive(count) == count <= limiter

HasRoom(count) == count < limiter

(* Requests of a client let through within the last window. *)
Recent(a) == {p \in passed : p[1] = a}

(* check, under the lock: the bucket is made or rolled over, then counted. *)
Check(a) ==
  LET old == {b \in buckets[a] : InWindow(b)}
      bucket == IF old = {} THEN [start |-> limitTime, count |-> 0] ELSE CHOOSE b \in old : TRUE
  IN IF limiter = 0
     THEN UNCHANGED <<buckets, passed, refused>>
     ELSE IF HasRoom(bucket.count)
     THEN /\ buckets' = [buckets EXCEPT ![a] = {[bucket EXCEPT !.count = @ + 1]}]
          /\ passed' = passed \cup {<<a, limitTime, Cardinality(Recent(a)) + 1>>}
          /\ refused' = {}
     ELSE /\ buckets' = [buckets EXCEPT ![a] = {bucket}]
          /\ refused' = {a}
          /\ UNCHANGED passed

(* limit_by_ip *)
LimitByIp(real, forwarded, peer) ==
  /\ Check(ClientIpKey(real, forwarded, peer))
  /\ UNCHANGED <<limiter, limitTime>>

(* Mutant: the comparison is turned around. *)
RetainsOld(b) == limitTime - b.start >= 2 * LimitWindow

Retains(b) == limitTime - b.start < 2 * LimitWindow

Gc ==
  /\ buckets' = [a \in Addresses |-> {b \in buckets[a] : Retains(b)}]
  /\ UNCHANGED <<limiter, limitTime, passed, refused>>

LimitTick ==
  /\ limitTime < LimitHorizon
  /\ limitTime' = limitTime + 1
  /\ passed' = {p \in passed : p[2] + LimitWindow > limitTime'}
  /\ refused' = {}
  /\ UNCHANGED <<limiter, buckets>>

LimitsNext ==
  \/ \E real \in Addresses \cup {"none"}, forwarded \in Addresses \cup {"none"}, peer \in Addresses :
       LimitByIp(real, forwarded, peer)
  \/ Gc
  \/ LimitTick

-----------------------------------------------------------------------------
(* "#20: limit requests succeed per window and the limit + 1-th is         *)
(* rejected": a client is refused only when it has used up its limit       *)
(* within the last window, whatever other clients send and whenever the    *)
(* buckets are collected.                                                  *)
RefusedOnlyWhenSpent == \A a \in refused : Cardinality(Recent(a)) >= limiter

(* The windows are fixed, not sliding: around a boundary a client gets at  *)
(* most twice the limit within the width of a window, never more, also     *)
(* when buckets are reaped between its requests.                           *)
TwiceTheLimitAtMost ==
  limiter > 0 =>
    \A a \in Addresses : Cardinality(Recent(a)) <= 2 * limiter

(***************************************************************************)
(* A fixed window refuses only who has spent it, and lets no more than two *)
(* windows' worth through across its edge.                                 *)
(***************************************************************************)
EndpointLimitsSound == RefusedOnlyWhenSpent /\ TwiceTheLimitAtMost
=============================================================================
