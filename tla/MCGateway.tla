------------------------------ MODULE MCGateway ------------------------------
(***************************************************************************)
(* The gateway's configuration store beside the decisions it makes at      *)
(* start and for every request, on small instances.  The parts share no    *)
(* state that a property relates, so a behaviour exercises one area,       *)
(* picked at the start, and the others stay where they began.              *)
(***************************************************************************)
EXTENDS HotConfig, TLC, RouteAdmission, Listener, ResponseShaping, Plugins,
        GatewayConfig, IdentityAssertion

CONSTANTS a1, a2, s1

VARIABLE area   \* the part this behaviour is about

Areas == {"store", "sources", "rules", "admission", "inbound", "listener", "shaping", "plugins", "config",
          "assertion"}

-----------------------------------------------------------------------------
(* Values of the constants.  The store has two keys and two values, one of *)
(* which the second key must not have, so that base and overlay can        *)
(* disagree.                                                               *)
AdminSymmetry == Permutations(Admins)

MCKeys == {"routing", "proxies"}
MCVals == {"old", "new"}
MCHosts == {"h1", "h2"}
Doc(r, p) == [k \in MCKeys |-> IF k = "routing" THEN r ELSE p]

(* Routing must be there, and new routing excludes old proxies. *)
MCValid == {d \in [MCKeys -> MCVals \cup {Absent}] :
              d["routing"] # Absent /\ d # Doc("new", "old")}
MCBases == {Doc("old", "old"), Doc("new", Absent)}
(* One patch each that is valid on one base only, that adds, deletes and   *)
(* breaks a key.                                                           *)
MCPatches == {Doc("new", Absent), Doc(Absent, "new"), Doc("new", Null)}
OneBase == {Doc("old", "old")}
OnePatch == {Doc("new", "new")}

Route(h) == [k \in MCHosts |-> IF k = h THEN "new" ELSE Absent]
MCAnnouncements == {Route("h1"), Route("h2")}

MCRulePaths == {<<"">>, <<"a">>, <<"a", "">>, <<"a", "b">>, <<"b">>}
MCRulePrefixes == MCRulePaths \ {<<"b">>}
MCCorsPolicies == {{}, {"*"}, {"https://a", "https://b"}}
MCCallerOrigins == {"", "https://a", "https://b", "https://c"}
MCBackendExtras == {"x-volta-user-id", "vary", "set-cookie", "access-control-allow-origin"}
MCChains == {<<"api-key-auth", "rate-limit-by-user", "header-injector">>, <<"monetizer">>}

(* Configurations that differ in their routes, listeners, signing keys or  *)
(* plugins from a valid one.                                               *)
PlainRoute == [host |-> "web", allow |-> {}, backend |-> {"http://one"}, backends |-> <<>>,
               public |-> TRUE, cache |-> FALSE]
NoSigning == [envSecret |-> {}, secret |-> {}, envKeyId |-> {}, keyId |-> {},
              envPreviousKeyId |-> {}, previousKeyId |-> {}, envPreviousSecret |-> {},
              previousSecret |-> {}]
ValidConfig == [version |-> 1, port |-> 80, routes |-> <<PlainRoute>>, tls |-> {},
                forceHttps |-> FALSE, l4 |-> {}, auth |-> NoSigning, plugins |-> {},
                envToken |-> FALSE]

Listings == UNION {[1 .. n -> {[url |-> "http://one", weight |-> 2], [url |-> "http://two", weight |-> 3],
                               [url |-> "no scheme", weight |-> 2]}] : n \in 0 .. 2}
OneRoute == [host : {"app", "APP", "web"}, allow : SUBSET {"net", "junk"},
             backend : {{}, {"http://one"}}, backends : Listings, public : BOOLEAN, cache : BOOLEAN]
TwoRoutes == {<<[PlainRoute EXCEPT !.host = h, !.allow = a], [PlainRoute EXCEPT !.host = k, !.allow = b]>> :
                h, k \in {"app", "APP", "web"}, a, b \in SUBSET {"net", "junk"}}
ByRoutes == {[ValidConfig EXCEPT !.routes = rs] : rs \in {<<r>> : r \in OneRoute} \cup TwoRoutes \cup {<<>>}}

SomeTls == [domains : {{}, {"app"}}, email : {"", "ops"}, port : {0, 443},
            challenge : {"http-01", "dns-01"}, provider : {{}, {"cf"}}, token : {{}, {"t"}}]
SomeL4 == [port : {0, 5432}, backend : {"", "db"}, protocol : {"tcp", "sctp"},
           allow : {{}, {"net", "junk"}}]
ByListeners ==
  {[ValidConfig EXCEPT !.tls = t, !.forceHttps = f, !.envToken = e] :
     t \in {{}} \cup {{s} : s \in SomeTls}, f, e \in BOOLEAN}
  \cup {[ValidConfig EXCEPT !.l4 = l, !.version = v, !.port = p] :
     l \in {{}} \cup {{s} : s \in SomeL4}, v \in {1, 2}, p \in {0, 80}}

Secrets == {{}, {""}, {"short"}, {"long"}}
BySigning ==
  {[ValidConfig EXCEPT !.auth = a, !.plugins = p] :
     a \in [envSecret : Secrets, secret : Secrets, envKeyId : {{}, {""}, {"k1"}},
            keyId : {{}, {""}, {"k1"}, {"k 1"}}, envPreviousKeyId : {{}, {"k0"}},
            previousKeyId : {{}, {""}, {"k1"}}, envPreviousSecret : {{}},
            previousSecret : {{}, {"long"}, {"short"}}],
     p \in {{}, {[name |-> "monetizer", type |-> "native"]}}}
ByPlugins ==
  {[ValidConfig EXCEPT !.plugins = p] :
     p \in SUBSET [name : {"api-key-auth", "api-key-atuh", "header-injector"}, type : {"native", "wasm"}]}
MCConfigurations == ByRoutes \cup ByListeners \cup BySigning \cup ByPlugins

-----------------------------------------------------------------------------
(* Where a part that the behaviour is not about stays. *)
Begin(a, start, still) == IF area = a THEN start ELSE still

AnyRoute == [public |-> FALSE, softAuth |-> FALSE, minRole |-> NoRole, bypass |-> FALSE, rule |-> NoRole]
AnyCaller == [session |-> "none", role |-> "OWNER", jwtRole |-> "OWNER", up |-> TRUE, degraded |-> FALSE]

StillRules == ruling = [rules |-> <<>>, path |-> <<"">>, resolved |-> "pending"]
StillAdmission ==
  ask = [route |-> AnyRoute, caller |-> AnyCaller] /\ httpAnswer = NoAnswer /\ wsAnswer = NoAnswer
StillInbound ==
  /\ inbound = [large |-> FALSE, host |-> "exact", path |-> <<>>, listed |-> "none"]
  /\ verdict = [says |-> "pending", route |-> "none"]
StillListener ==
  /\ arrival = [listener |-> "plain", host |-> "exact", path |-> "/app", method |-> "GET",
                loopback |-> FALSE, bearer |-> "none"]
  /\ condition = [forceHttps |-> FALSE, token |-> FALSE, draining |-> FALSE, authUp |-> TRUE]
  /\ handled = Unhandled
StillShaping ==
  /\ shapeConf = [cors |-> {}, remove |-> {}, add |-> {}, inject |-> {},
                  backend |-> BackendHeaders("identity", {}), cached |-> FALSE]
  /\ slot = {} /\ shaped = NoResponse
StillConfig == conf = ValidConfig /\ gateway = NotStarted


GatewayInit ==
  /\ area \in Areas
  /\ Init /\ (area = "store" \/ base = Doc("old", "old"))
  /\ Begin("rules", RuleInit, StillRules)
  /\ Begin("admission", AdmissionInit, StillAdmission)
  /\ Begin("inbound", ValidatorInit, StillInbound)
  /\ Begin("listener", ListenerInit, StillListener)
  /\ Begin("shaping", ShapeInit, StillShaping)
  /\ Begin("config", ConfigInit, StillConfig)
  /\ PluginInit /\ (area = "plugins" \/ pluginChain = <<"monetizer">>)
  /\ AssertionInit

(* Behaviours about the store only. *)
StoreOnlyInit == area = "store" /\ GatewayInit

(* The sources have the table to themselves, but for one rebuild. *)
AtMostOneRebuilds == \A a, b \in Admins : apc[a] # "idle" /\ apc[b] # "idle" => a = b

AreaStep ==
  \/ area = "store" /\ Next /\ (\A s \in Sources : chan'[s] = <<>> \/ (s = s1 /\ chan'[s] = <<Route("h1")>>))
  \/ area = "sources" /\ Next /\ UNCHANGED <<disk, overlay, holder>> /\ AtMostOneRebuilds'
  \/ area = "rules" /\ ResolveRuling
  \/ area = "admission" /\ (HandleHttp \/ HandleWs)
  \/ area = "inbound" /\ ValidateRequest
  \/ area = "listener" /\ ServeRequest
  \/ area = "shaping" /\ ShapeNext
  \/ area = "plugins" /\ PluginNext
  \/ area = "config" /\ StartGateway
  \/ area = "assertion" /\ AssertionNext

Keep(a, v) == IF area = a THEN TRUE ELSE UNCHANGED v

GatewayNext ==
  /\ UNCHANGED area
  /\ AreaStep
  /\ (area = "sources" \/ Keep("store", vars)) /\ Keep("rules", ruleVars) /\ Keep("admission", admissionVars)
  /\ Keep("inbound", validatorVars) /\ Keep("listener", listenerVars)
  /\ Keep("shaping", shapeVars) /\ Keep("plugins", pluginVars)
  /\ Keep("config", configVars) /\ Keep("assertion", assertionVars)

gatewayVars == <<area, vars, ruleVars, admissionVars, validatorVars, listenerVars, shapeVars,
                 pluginVars, configVars, assertionVars>>
GatewaySpec == GatewayInit /\ [][GatewayNext]_gatewayVars
=============================================================================
