---------------------------- MODULE GatewayConfig ----------------------------
(***************************************************************************)
(* The check of a configuration and what the gateway builds from one that  *)
(* passes (gateway/src/config.rs, main.rs, plugin.rs): the tables of       *)
(* routes, weights and allowlists, the plugins, and the assertion signer,  *)
(* whose constructor panics on what the check should have refused.         *)
(*                                                                         *)
(* A network or an address is a name; "junk" is one that does not parse.   *)
(* Options are sets of at most one element.  An environment variable and   *)
(* its YAML field are two options of their own.                            *)
(***************************************************************************)
EXTENDS Naturals, Sequences, FiniteSets, SequencesExt

CONSTANT Configurations   \* the configurations a file and an environment can give

(* The structs of these names, as far as the model reads them. *)
WeightedBackend == [url : STRING, weight : Nat]
RouteEntry == [host : STRING, allow : SUBSET STRING, backend : SUBSET STRING,
               backends : Seq(WeightedBackend), public : BOOLEAN, cache : BOOLEAN]

ASSUME ConfigurationAssumption ==
  \A c \in Configurations : c.routes \in Seq(RouteEntry) /\ \A t \in c.tls : t.port \in Nat

VARIABLES
  conf,     \* the configuration
  gateway   \* the process: not started, exited with a code, or serving

configVars == <<conf, gateway>>

ExitSchema == 1
ExitBackendUrl == 3
ExitUnknownPlugin == 4
ExitTlsCredentials == 5

(* Host names are lower-cased; "APP" and "app" differ only in case. *)
Lower(host) == IF host = "APP" THEN "app" ELSE host
Parses(net) == net # "junk"

Flag(broken, code) == IF broken THEN {code} ELSE {}
-----------------------------------------------------------------------------
(* RouteEntry *)

(* backend comes first unless backends names it too. *)
AllBackends(r) ==
  LET listed == [i \in DOMAIN r.backends |-> r.backends[i].url] IN
  IF r.backend = {} \/ r.backend \subseteq ToSet(listed) THEN listed
  ELSE <<CHOOSE b \in r.backend : TRUE>> \o listed

(* Mutant: the single backend's weight goes to the end of the list. *)
AllWeightsAppended(r) ==
  LET listed == [i \in DOMAIN r.backends |-> r.backends[i].weight]
      urls == {r.backends[i].url : i \in DOMAIN r.backends}
  IN IF r.backend = {} \/ r.backend \subseteq urls THEN listed ELSE Append(listed, 1)

AllWeights(r) ==
  LET listed == [i \in DOMAIN r.backends |-> r.backends[i].weight]
      urls == {r.backends[i].url : i \in DOMAIN r.backends}
  IN IF r.backend = {} \/ r.backend \subseteq urls THEN listed ELSE <<1>> \o listed

(* AuthConfig: a variable that is set and not empty wins over the file.    *)
Given(env, yaml) == IF env \notin {{}, {""}} THEN env ELSE yaml
EffectiveSecret(a) == Given(a.envSecret, a.secret \ {""})
EffectiveKeyId(a) ==
  LET id == Given(a.envKeyId, a.keyId \ {""}) IN IF id = {} THEN {"legacy"} ELSE id
EffectivePrevious(a) ==
  [keyId |-> Given(a.envPreviousKeyId, a.previousKeyId),
   secret |-> Given(a.envPreviousSecret, a.previousSecret)]

LongEnough(secrets) == "short" \notin secrets /\ "" \notin secrets
ValidKeyId(ids) == {"", "k 1"} \cap ids = {}

-----------------------------------------------------------------------------
(* validate_detailed: the exit codes of the errors it finds. *)

SchemaErrors(c) ==
  Flag(c.version # 1 \/ c.routes = <<>> \/ c.port = 0, ExitSchema)

(* Hosts are compared as they are written. *)
HostErrors(c) ==
  Flag(\E i, j \in DOMAIN c.routes : i # j /\ c.routes[i].host = c.routes[j].host, ExitSchema)

(* Mutant: the allowlists are not looked at. *)
CidrErrorsNone(c) == {}

CidrErrors(c) ==
  Flag(\E i \in DOMAIN c.routes : ~\A n \in c.routes[i].allow : Parses(n), ExitSchema)

(* Mutant: HTTPS is forced without a listener for it. *)
TlsErrorsUnforced(c) ==
  Flag(\E t \in c.tls : t.domains = {} \/ t.email = "" \/ t.port = 0, ExitSchema)

TlsErrors(c) ==
  Flag(\/ \E t \in c.tls : t.domains = {} \/ t.email = "" \/ t.port = 0
       \/ c.forceHttps /\ c.tls = {}, ExitSchema)

L4Errors(c) ==
  Flag(\E e \in c.l4 : \/ e.port = 0 \/ e.backend = "" \/ e.protocol \notin {"tcp", "udp"}
                       \/ ~\A n \in e.allow : Parses(n), ExitSchema)

BackendErrors(c) ==
  Flag(\E i \in DOMAIN c.routes : \/ AllBackends(c.routes[i]) = <<>>
                                  \/ ~c.routes[i].public /\ c.routes[i].cache, ExitSchema)

(* Mutant: only the secret of the file is measured. *)
SigningErrorsOfFile(c) ==
  LET a == c.auth IN
  IF EffectiveSecret(a) # {}
  THEN Flag(~LongEnough(a.secret) \/ ~ValidKeyId(EffectiveKeyId(a)), ExitSchema)
  ELSE Flag(a.keyId # {} \/ a.envKeyId # {}, ExitSchema)

SigningErrors(c) ==
  LET a == c.auth IN
  IF EffectiveSecret(a) # {}
  THEN Flag(~LongEnough(EffectiveSecret(a)) \/ ~ValidKeyId(EffectiveKeyId(a)), ExitSchema)
  ELSE Flag(a.keyId # {} \/ a.envKeyId # {}, ExitSchema)

PreviousKeyErrors(c) ==
  LET p == EffectivePrevious(c.auth) IN
  IF p.keyId # {} /\ p.secret # {}
  THEN Flag(EffectiveSecret(c.auth) = {} \/ ~LongEnough(p.secret) \/ ~ValidKeyId(p.keyId)
            \/ p.keyId = EffectiveKeyId(c.auth), ExitSchema)
  ELSE Flag(p.keyId # p.secret, ExitSchema)

MonetizerErrors(c) ==
  Flag(EffectiveSecret(c.auth) = {} /\ \E p \in c.plugins : p.name = "monetizer", ExitSchema)

UrlErrors(c) ==
  Flag(\E i \in DOMAIN c.routes : \E b \in ToSet(AllBackends(c.routes[i])) :
         b \in {"junk", "no scheme"}, ExitBackendUrl)

BuiltinPlugins == {"api-key-auth", "rate-limit-by-user", "monetizer", "header-injector"}

(* Mutant: a name that nothing is loaded for passes. *)
PluginErrorsLax(c) ==
  Flag(\E p \in c.plugins : p.type = "native" /\ p.name = "", ExitUnknownPlugin)

PluginErrors(c) ==
  Flag(\E p \in c.plugins : p.type = "native" /\ p.name \notin BuiltinPlugins, ExitUnknownPlugin)

DnsErrors(c) ==
  Flag(\E t \in c.tls : t.challenge = "dns-01" /\ (t.provider = {} \/ (t.token = {} /\ ~c.envToken)),
       ExitTlsCredentials)

ValidateDetailed(c) ==
  SchemaErrors(c) \cup HostErrors(c) \cup CidrErrors(c) \cup TlsErrors(c) \cup L4Errors(c)
    \cup BackendErrors(c) \cup SigningErrors(c) \cup PreviousKeyErrors(c) \cup MonetizerErrors(c)
    \cup UrlErrors(c) \cup PluginErrors(c) \cup DnsErrors(c)

-----------------------------------------------------------------------------
(* What main builds.  A later route of a host replaces an earlier one.     *)

TableHosts(c) == {Lower(c.routes[i].host) : i \in DOMAIN c.routes}
LastOf(c, host) ==
  CHOOSE i \in DOMAIN c.routes : /\ Lower(c.routes[i].host) = host
                                 /\ \A j \in DOMAIN c.routes : Lower(c.routes[j].host) = host => j <= i

RoutingTable(c) ==
  [h \in TableHosts(c) |->
     LET r == c.routes[LastOf(c, h)] IN [backends |-> AllBackends(r), weights |-> AllWeights(r)]]

(* Entries that do not parse are left out; a host without a list has none. *)
IpAllowlistTable(c) ==
  LET listing == {h \in TableHosts(c) : \E i \in DOMAIN c.routes :
                    Lower(c.routes[i].host) = h /\ c.routes[i].allow # {}}
  IN [h \in listing |->
        LET i == CHOOSE i \in DOMAIN c.routes :
                   /\ Lower(c.routes[i].host) = h /\ c.routes[i].allow # {}
                   /\ \A j \in DOMAIN c.routes :
                        Lower(c.routes[j].host) = h /\ c.routes[j].allow # {} => j <= i
        IN {n \in c.routes[i].allow : Parses(n)}]

(* load_from_config: an unknown name is skipped with a warning. *)
LoadFromConfig(c) ==
  {p.name : p \in {q \in c.plugins :
     q.name \in {"api-key-auth", "rate-limit-by-user", "monetizer", "header-injector"}}}

(* GatewayAssertionSigner::new_with_key_id(...).expect(...) *)
Signer(c) ==
  LET secret == EffectiveSecret(c.auth) IN
  IF secret = {} THEN "none"
  ELSE IF LongEnough(secret) /\ ValidKeyId(EffectiveKeyId(c.auth)) THEN "ready" ELSE "panic"

NotStarted == [state |-> "not started"]

ConfigInit == conf \in Configurations /\ gateway = NotStarted

(* main: the least code of the errors, or a gateway. *)
StartGateway ==
  LET errors == ValidateDetailed(conf) IN
  /\ gateway = NotStarted
  /\ gateway' =
       IF errors # {}
       THEN [state |-> "exited", code |-> CHOOSE e \in errors : \A f \in errors : e <= f]
       ELSE [state |-> "serving", routes |-> RoutingTable(conf), allow |-> IpAllowlistTable(conf),
             plugins |-> LoadFromConfig(conf), signer |-> Signer(conf), tls |-> conf.tls]
  /\ UNCHANGED conf

-----------------------------------------------------------------------------
Serving == gateway.state = "serving"

(* Every network that a route of a serving gateway lists is enforced for   *)
(* its host: no list loses an entry, or all of them, between the check and *)
(* the table.  Hosts that differ only in case share one table entry.       *)
AllowlistKept ==
  Serving => \A i \in DOMAIN conf.routes :
    LET r == conf.routes[i] IN
    r.allow # {} /\ (\A j \in DOMAIN conf.routes : i # j => Lower(conf.routes[j].host) # Lower(r.host))
      => Lower(r.host) \in DOMAIN gateway.allow /\ gateway.allow[Lower(r.host)] = r.allow

(* The two lists that the selector walks side by side have one length, and *)
(* every backend of backends has the weight that was written beside it.    *)
WeightsPaired ==
  Serving => \A i \in DOMAIN conf.routes :
    LET r == conf.routes[i]
        t == [backends |-> AllBackends(r), weights |-> AllWeights(r)]
    IN /\ Len(t.backends) = Len(t.weights)
       /\ \A j \in DOMAIN r.backends : \E k \in DOMAIN t.backends :
            t.backends[k] = r.backends[j].url /\ t.weights[k] = r.backends[j].weight

(* A serving gateway that redirects to HTTPS listens for it. *)
HttpsListens == Serving /\ conf.forceHttps => \E t \in gateway.tls : t.port > 0 /\ t.domains # {}

(* The check knows what the loader knows: a native plugin that is          *)
(* configured runs in every gateway that starts.                           *)
PluginsRun ==
  Serving => \A p \in conf.plugins : p.type = "native" => p.name \in gateway.plugins

(* What passes the check builds a signer: the constructor's expect() never *)
(* fires, and monetizer, which needs the signature, has one.               *)
SignerReady ==
  Serving => /\ gateway.signer # "panic"
             /\ "monetizer" \in gateway.plugins => gateway.signer = "ready"

(***************************************************************************)
(* A configuration that passes validation means what it says when the      *)
(* gateway has started from it.                                            *)
(***************************************************************************)
StartsAsConfigured == AllowlistKept /\ WeightsPaired /\ HttpsListens /\ PluginsRun /\ SignerReady
=============================================================================
