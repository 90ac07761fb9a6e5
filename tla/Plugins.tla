------------------------------- MODULE Plugins -------------------------------
(***************************************************************************)
(* The request plugins of the gateway (gateway/src/plugin.rs): the chain   *)
(* that PluginManager::run_request walks for every request, with the two   *)
(* built-in plugins that keep state, the window counter of                 *)
(* rate-limit-by-user and the billing cache of monetizer, and the two that *)
(* do not, api-key-auth and header-injector.                               *)
(*                                                                         *)
(* Requests run on several threads; each lock of the cache is a step, and  *)
(* between a miss and the store a request waits for the billing service.   *)
(* A billing record is a version: how often the user's plan has changed.   *)
(***************************************************************************)
EXTENDS Naturals, Sequences, FiniteSets

CONSTANTS
  Payers,        \* users
  PluginCalls,   \* concurrent requests
  Chains,        \* plugin lists: sequences of names
  MaxPerWindow,  \* max_requests
  UserWindow,    \* window_secs
  BillingTtl,    \* cache_ttl_secs
  FetchTimeout,  \* the HTTP client's timeout (code: 2 s)
  CacheLimit,    \* MAX_CACHE_ENTRIES (code: 10000)
  PluginClock,   \* bound: the clock stops
  MaxPlan,       \* bound: how often a plan changes
  MaxCalls       \* bound: requests in all

ASSUME PluginAssumption ==
  /\ MaxPerWindow \in Nat \ {0} /\ UserWindow \in Nat \ {0}
  /\ BillingTtl \in Nat /\ FetchTimeout \in Nat \ {0} /\ CacheLimit \in Nat \ {0}

VARIABLES
  pluginTime,
  pluginChain,      \* the plugins that are configured
  pluginCall,       \* the request on each thread
  begun,      \* how many there were
  userWindow, \* rate-limit-by-user: (count, start), or none
  billing,    \* monetizer: (version, stored at), or none
  plan,       \* environment: the version the billing service has
  superseded, \* history: when a version stopped being true
  admitted    \* history: the times of the requests the counter let through

pluginVars == <<pluginTime, pluginChain, pluginCall, begun, userWindow, billing, plan, superseded, admitted>>
others == <<pluginTime, pluginChain, begun, plan, superseded>>

NoCall == [at |-> "none"]
NoUser == "no user"
None == {}

(* A request in the chain: the next plugin, where in it, its user (or      *)
(* none), whether its API key is right, and the billing it was given.      *)
Begun(u, key) ==
  [at |-> "run", next |-> 1, user |-> u, key |-> key, plan |-> None, since |-> 0]

PluginInit ==
  /\ pluginTime = 0
  /\ pluginChain \in Chains
  /\ pluginCall = [r \in PluginCalls |-> NoCall] /\ begun = 0
  /\ userWindow = [u \in Payers |-> None]
  /\ billing = [u \in Payers |-> None]
  /\ plan = [u \in Payers |-> 0]
  /\ superseded = [u \in Payers |-> <<>>]
  /\ admitted = [u \in Payers |-> <<>>]

-----------------------------------------------------------------------------
(* The proxy hands the request to the chain; GW-60: the user is the one    *)
(* the auth server named, never a header of the client.                    *)
BeginRequest(r, u, key) ==
  /\ pluginCall[r].at \in {"none", "forward", "refused"} /\ begun < MaxCalls
  /\ begun' = begun + 1
  /\ pluginCall' = [pluginCall EXCEPT ![r] = Begun(u, key)]
  /\ UNCHANGED <<pluginTime, pluginChain, plan, superseded, userWindow, billing, admitted>>

AtPlugin(r, name) ==
  pluginCall[r].at = "run" /\ pluginCall[r].next <= Len(pluginChain) /\ pluginChain[pluginCall[r].next] = name

Advance(r) == pluginCall' = [pluginCall EXCEPT ![r].at = "run", ![r].next = @ + 1]
Refuse(r) == pluginCall' = [pluginCall EXCEPT ![r].at = "refused"]

ApiKeyAuth(r) ==
  /\ AtPlugin(r, "api-key-auth")
  /\ IF pluginCall[r].key THEN Advance(r) ELSE Refuse(r)
  /\ UNCHANGED <<others, userWindow, billing, admitted>>

HeaderInjector(r) ==
  /\ AtPlugin(r, "header-injector")
  /\ Advance(r)
  /\ UNCHANGED <<others, userWindow, billing, admitted>>

(* Mutant: the request that opens a new window is not counted in it. *)
CountUncounted(w, now) ==
  IF w = None THEN [count |-> 1, start |-> now]
  ELSE LET old == CHOOSE x \in w : TRUE IN
       IF now - old.start >= UserWindow THEN [count |-> 0, start |-> now]
       ELSE [old EXCEPT !.count = @ + 1]

(* or_insert((0, now)), then a new window or one more in the old one.      *)
Count(w, now) ==
  IF w = None THEN [count |-> 1, start |-> now]
  ELSE LET old == CHOOSE x \in w : TRUE IN
       IF now - old.start >= UserWindow THEN [count |-> 1, start |-> now]
       ELSE [old EXCEPT !.count = @ + 1]

RateLimitByUser(r) ==
  LET u == pluginCall[r].user
      w == Count(userWindow[u], pluginTime)
  IN /\ AtPlugin(r, "rate-limit-by-user")
     /\ IF u = NoUser
        THEN Advance(r) /\ UNCHANGED <<userWindow, admitted>>
        ELSE /\ userWindow' = [userWindow EXCEPT ![u] = {w}]
             /\ IF w.count > MaxPerWindow
                THEN Refuse(r) /\ UNCHANGED admitted
                ELSE Advance(r) /\ admitted' = [admitted EXCEPT ![u] = Append(@, pluginTime)]
     /\ UNCHANGED <<others, billing>>

-----------------------------------------------------------------------------
(* monetizer *)

Billed(r, version) ==
  pluginCall' = [pluginCall EXCEPT ![r].at = "run", ![r].next = @ + 1, ![r].plan = {version},
                       ![r].since = pluginTime]

(* Mutant: an entry is good until it is replaced. *)
FreshForever(entry) == TRUE

FreshBilling(entry) == pluginTime - entry.at < BillingTtl

(* get_cached; no user means the default plan.  An expired entry is        *)
(* removed under a second lock.                                            *)
GetCached(r) ==
  LET u == pluginCall[r].user IN
  /\ AtPlugin(r, "monetizer")
  /\ IF u = NoUser THEN Advance(r)
     ELSE IF billing[u] = None THEN pluginCall' = [pluginCall EXCEPT ![r].at = "fetch", ![r].since = pluginTime]
     ELSE LET entry == CHOOSE e \in billing[u] : TRUE IN
          IF FreshBilling(entry) THEN Billed(r, entry.version)
          ELSE pluginCall' = [pluginCall EXCEPT ![r].at = "remove"]
  /\ UNCHANGED <<others, userWindow, billing, admitted>>

(* Whatever is there now goes, a record that was just stored too. *)
RemoveExpired(r) ==
  /\ pluginCall[r].at = "remove"
  /\ billing' = [billing EXCEPT ![pluginCall[r].user] = None]
  /\ pluginCall' = [pluginCall EXCEPT ![r].at = "fetch", ![r].since = pluginTime]
  /\ UNCHANGED <<others, userWindow, admitted>>

(* fetch_billing: the service reads the plan; its answer may take a while. *)
FetchBilling(r) ==
  /\ pluginCall[r].at = "fetch"
  /\ pluginCall' = [pluginCall EXCEPT ![r].at = "store", ![r].plan = {plan[pluginCall[r].user]}]
  /\ UNCHANGED <<others, userWindow, billing, admitted>>

(* An error of the service, of the connection or of the timeout: the chain *)
(* goes on without billing headers.                                        *)
FetchFails(r) ==
  /\ pluginCall[r].at \in {"fetch", "store"}
  /\ pluginCall' = [pluginCall EXCEPT ![r].at = "run", ![r].next = @ + 1, ![r].plan = None]
  /\ UNCHANGED <<others, userWindow, billing, admitted>>

(* set_cached: at the limit the whole cache is cleared. *)
SetCached(r) ==
  LET u == pluginCall[r].user
      version == CHOOSE v \in pluginCall[r].plan : TRUE
      full == Cardinality({x \in Payers : billing[x] # None}) >= CacheLimit
  IN /\ pluginCall[r].at = "store"
     /\ billing' = [x \in Payers |->
          IF x = u THEN {[version |-> version, at |-> pluginTime]}
          ELSE IF full THEN None ELSE billing[x]]
     /\ Billed(r, version)
     /\ UNCHANGED <<others, userWindow, admitted>>

(* run_request returns: the request goes to its backend. *)
ForwardRequest(r) ==
  /\ pluginCall[r].at = "run" /\ pluginCall[r].next > Len(pluginChain)
  /\ pluginCall' = [pluginCall EXCEPT ![r].at = "forward"]
  /\ UNCHANGED <<others, userWindow, billing, admitted>>

(* Time passes; a call of the service ends within its timeout.             *)
PluginTick ==
  /\ pluginTime < PluginClock
  /\ \A r \in PluginCalls : pluginCall[r].at \in {"fetch", "store"} =>
       pluginTime - pluginCall[r].since < FetchTimeout
  /\ pluginTime' = pluginTime + 1
  /\ UNCHANGED <<pluginChain, pluginCall, begun, userWindow, billing, plan, superseded, admitted>>

PlanChanges(u) ==
  /\ plan[u] < MaxPlan
  /\ plan' = [plan EXCEPT ![u] = @ + 1]
  /\ superseded' = [superseded EXCEPT ![u] = Append(@, pluginTime)]
  /\ UNCHANGED <<pluginTime, pluginChain, pluginCall, begun, userWindow, billing, admitted>>

PluginStep(r) ==
  \/ ApiKeyAuth(r) \/ HeaderInjector(r) \/ RateLimitByUser(r)
  \/ GetCached(r) \/ RemoveExpired(r) \/ FetchBilling(r) \/ FetchFails(r) \/ SetCached(r)
  \/ ForwardRequest(r)

PluginNext ==
  \/ \E r \in PluginCalls, u \in Payers \cup {NoUser}, key \in BOOLEAN : BeginRequest(r, u, key)
  \/ \E r \in PluginCalls : PluginStep(r)
  \/ PluginTick
  \/ \E u \in Payers : PlanChanges(u)

-----------------------------------------------------------------------------
(* A plan that was replaced more than the cache's time to live and one     *)
(* call of the service ago is never attached to a request, although two    *)
(* calls that overtake each other can store the older plan last.           *)
BillingFresh ==
  \A r \in PluginCalls : pluginCall[r].at \in {"run", "forward"} => \A v \in pluginCall[r].plan :
    LET ends == superseded[pluginCall[r].user] IN
    v < Len(ends) => pluginCall[r].since - ends[v + 1] <= BillingTtl + FetchTimeout

(* In any stretch of one window's length a user gets fewer than two        *)
(* windows' worth of requests through, wherever the windows begin.         *)
UserQuota ==
  LET worth == 2 * MaxPerWindow - 1 IN
  \A u \in Payers : \A i \in 1 .. Len(admitted[u]) :
    i + worth <= Len(admitted[u]) => admitted[u][i + worth] - admitted[u][i] >= UserWindow

(***************************************************************************)
(* What a caller may spend: a plan that is fresh enough, and no more calls *)
(* in a window than the plugin grants.                                     *)
(***************************************************************************)
PluginsSound == BillingFresh /\ UserQuota
=============================================================================
