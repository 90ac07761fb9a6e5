------------------------------ MODULE Listener ------------------------------
(***************************************************************************)
(* A request's way into the gateway. First what the listeners do before    *)
(* ProxyService sees it: the HTTPS redirect, /metrics, /healthz and the    *)
(* admin API of the plain listener (gateway/src/main.rs, the service of a  *)
(* connection), and the shorter list of the TLS listener                   *)
(* (gateway/src/tls.rs). Then the first states of its lifecycle            *)
(* (gateway/src/flow.rs): RequestValidator with its percent-decoding, and  *)
(* RoutingResolver. A request arrives in the first state, with the gateway *)
(* in any condition, and is answered in one step. A path is a sequence of  *)
(* the characters the decoding tells apart: the percent sign, the digits   *)
(* of %25 and %2e, the dot and a letter that is no hexadecimal digit.      *)
(***************************************************************************)
EXTENDS Integers, Sequences, SequencesExt

CONSTANTS
    PathChars,     \* characters of paths
    MaxPath        \* bound: the length of a path

ASSUME PathAssumption == MaxPath \in Nat

(* Hosts of three kinds: named by a route, covered by a wildcard route      *)
(* only, and known to no route. Paths outside /admin/ stand for themselves. *)
HostKinds == {"exact", "wildcard", "unrouted"}
AdminPaths == {"routes", "backends", "reset", "reload", "config", "validate",
               "overlay", "stats", "drain", "unknown"}
OtherPaths == {"/healthz", "/metrics", "/.well-known", "/app"}
Methods == {"GET", "POST", "PATCH", "DELETE"}

Arrivals ==
    [listener : {"plain", "tls"}, host : HostKinds, path : AdminPaths \union OtherPaths,
     method : Methods, loopback : BOOLEAN, bearer : {"none", "right", "wrong"}]
Conditions ==
    [forceHttps : BOOLEAN, token : BOOLEAN, draining : BOOLEAN, authUp : BOOLEAN]

VARIABLES arrival, condition, handled

listenerVars == <<arrival, condition, handled>>
Unhandled == "arrived"

ListenerInit ==
    /\ arrival \in Arrivals
    /\ condition \in Conditions
    /\ handled = Unhandled

----------------------------------------------------------------------------
(* host_is_routed: an exact route of that name (wildcards are not tried). *)
HostIsRouted(host) == host = "exact"

(* The admin check looks the wildcard up too. *)
AdminIsGatewayAdmin(host) == host \notin {"exact", "wildcard"}

HealthzStatus(draining, authUp) ==
    IF draining THEN "draining" ELSE IF authUp THEN "ok" ELSE "degraded"

(* admin_auth::decide: with a token every call needs it, without one every  *)
(* call that is not a GET is refused.                                       *)
AdminDecide(token, bearer, mutating) ==
    IF token THEN IF bearer = "right" THEN "allow" ELSE "unauthorized"
             ELSE IF mutating THEN "write disabled" ELSE "allow"

(* Mutant: /admin/drain answers any method. *)
AdminEndpointAnyDrain(path, method) ==
    CASE path = "reset"    /\ method = "POST" -> "reset breaker"
      [] path = "reload"   /\ method = "POST" -> "reload"
      [] path = "config"   /\ method \in {"PATCH", "POST"} -> "patch"
      [] path = "overlay"  /\ method = "DELETE" -> "clear overlay"
      [] path = "drain" -> "drain"
      [] OTHER -> "read"

(* The admin handlers that change something, by path and method; the others *)
(* read, or answer 404.                                                     *)
AdminEndpoint(path, method) ==
    CASE path = "reset"    /\ method = "POST" -> "reset breaker"
      [] path = "reload"   /\ method = "POST" -> "reload"
      [] path = "config"   /\ method \in {"PATCH", "POST"} -> "patch"
      [] path = "overlay"  /\ method = "DELETE" -> "clear overlay"
      [] path = "drain"    /\ method = "POST" -> "drain"
      [] path = "config"   /\ method = "GET" -> "read"
      [] path = "validate" /\ method = "POST" -> "read"
      [] path \in {"routes", "backends", "stats"} -> "read"
      [] OTHER -> "not found"

AdminApi(q, c) ==
    IF ~q.loopback THEN "denied"
    ELSE LET verdict == AdminDecide(c.token, q.bearer, q.method # "GET")
         IN  IF verdict # "allow" THEN verdict ELSE AdminEndpoint(q.path, q.method)

Redirects(q, c) == c.forceHttps /\ q.path \notin {"/healthz", "/metrics", "/.well-known"}

(* Mutant: /healthz is answered for every host, as it once was. *)
OwnHealthzAlways(q) == q.path = "/healthz"

OwnHealthz(q) == q.path = "/healthz" /\ ~HostIsRouted(q.host)

PlainService(q, c) ==
    CASE Redirects(q, c) -> "redirect"
      [] q.path = "/metrics" -> "metrics"
      [] OwnHealthz(q) -> HealthzStatus(c.draining, c.authUp)
      [] q.path \in AdminPaths /\ AdminIsGatewayAdmin(q.host) -> AdminApi(q, c)
      [] OTHER -> "proxy"

TlsService(q, c) ==
    CASE q.path = "/metrics" -> "metrics"
      [] OwnHealthz(q) -> HealthzStatus(FALSE, c.authUp)
      [] OTHER -> "proxy"

ServeRequest ==
    /\ handled = Unhandled
    /\ handled' = IF arrival.listener = "plain" THEN PlainService(arrival, condition)
                                                ELSE TlsService(arrival, condition)
    /\ UNCHANGED <<arrival, condition>>

----------------------------------------------------------------------------
(* The gateway's state changes through the admin API only for a call from   *)
(* the machine itself, to a host no route claims, over the plain listener,  *)
(* carrying the configured token: no method and endpoint escape the rule    *)
(* "mutating means not GET" that admin_auth is told.                        *)
ChangesAreAuthorized ==
    handled \in {"reset breaker", "reload", "patch", "clear overlay", "drain"} =>
        /\ arrival.loopback /\ arrival.host = "unrouted" /\ arrival.listener = "plain"
        /\ condition.token /\ arrival.bearer = "right"

(* A host named by a route belongs to its service: apart from /metrics and  *)
(* the redirect to HTTPS, whatever is asked of it reaches the proxy ("a     *)
(* routed Host means the request is for a service, so it must go to that    *)
(* service"). For hosts under a wildcard this holds except for /healthz.    *)
RoutedHostReachesService ==
    /\ handled # Unhandled
    /\ arrival.path # "/metrics"
    /\ \/ arrival.host = "exact"
       \/ arrival.host = "wildcard" /\ arrival.path # "/healthz"
    => handled \in {"proxy", "redirect"}

----------------------------------------------------------------------------
(* RequestValidator and RoutingResolver. *)

VARIABLES inbound, verdict    \* a request and what the validator says of it

validatorVars == <<inbound, verdict>>

----------------------------------------------------------------------------
(* hex_val and the byte of two digits, as a character.                     *)

IsHex(c) == c \in {"2", "5", "e"}
Byte(hi, lo) ==
    CASE hi = "2" /\ lo = "5" -> "%" [] hi = "2" /\ lo = "e" -> "."
      [] OTHER -> "other"     \* a character none of the checks is about
Chars == PathChars \union {"%", ".", "a", "other"}

(* Mutant: an escape that ends the path is missed. *)
EscapeAtShort(s) == Head(s) = "%" /\ Len(s) > 3 /\ IsHex(s[2]) /\ IsHex(s[3])

EscapeAt(s) == Head(s) = "%" /\ Len(s) >= 3 /\ IsHex(s[2]) /\ IsHex(s[3])

(* One pass from left to right.                                             *)
DecodePass[s \in Seq(Chars)] ==
    IF s = <<>> THEN <<>>
    ELSE IF EscapeAt(s) THEN <<Byte(s[2], s[3])>> \o DecodePass[SubSeq(s, 4, Len(s))]
    ELSE <<Head(s)>> \o DecodePass[Tail(s)]

(* Passes are repeated while one changed something and a % is left.         *)
UrlencodingDecode[s \in Seq(Chars)] ==
    LET once == DecodePass[s]
    IN  IF Contains(once, "%") /\ once # s THEN UrlencodingDecode[once] ELSE once

HasDots(s) == \E i \in 1..(Len(s) - 1) : s[i] = "." /\ s[i + 1] = "."

(* Mutant: %2e is decoded, %252e is not. *)
TraversesOnce(path) == HasDots(path) \/ HasDots(DecodePass[path])

Traverses(path) == HasDots(path) \/ HasDots(UrlencodingDecode[path])

----------------------------------------------------------------------------
(* The host is a key of the routing table, or its domain has a wildcard     *)
(* route; an IP allowlist is looked up under the host itself.               *)

InboundHosts == {"", "exact", "wildcard", "unknown"}

KnownHost(host) == host \in {"exact", "wildcard"}

Validate(r) ==
    CASE r.large -> "BAD_REQUEST"
      [] ~r.large /\ r.host = "" -> "BAD_REQUEST"
      [] ~r.large /\ r.host # "" /\ Traverses(r.path) -> "BAD_REQUEST"
      [] ~r.large /\ ~Traverses(r.path) /\ ~KnownHost(r.host) -> "BAD_REQUEST"
      [] ~r.large /\ ~Traverses(r.path) /\ r.host = "exact" /\ r.listed = "outside" -> "DENIED"
      [] OTHER -> "pass"

(* RoutingResolver: the route of the host itself before the wildcard's.     *)
ResolveRoute(host, exactRoute, wildcardRoute) == IF host = "exact" THEN exactRoute ELSE wildcardRoute

Inbounds ==
    {[large |-> FALSE, host |-> "exact", path |-> p, listed |-> "none"] :
        p \in UNION {[1..n -> PathChars] : n \in 0..MaxPath}}
    \union [large : BOOLEAN, host : InboundHosts, path : {<<"a">>, <<".", ".">>}, listed : {"none", "inside", "outside"}]

ValidatorInit == inbound \in Inbounds /\ verdict = [says |-> "pending", route |-> "none"]

ValidateRequest ==
    /\ verdict.says = "pending"
    /\ verdict' = [says |-> Validate(inbound),
                   route |-> IF Validate(inbound) = "pass"
                             THEN ResolveRoute(inbound.host, "exact", "wildcard") ELSE "none"]
    /\ UNCHANGED inbound

----------------------------------------------------------------------------
(* However often the backend or a proxy behind it decodes the path again,   *)
(* a path that passed the validator never turns into one with "..".         *)
NoTraversalPasses ==
    verdict.says = "pass" =>
        LET d1 == DecodePass[inbound.path]
            d2 == DecodePass[d1]
            d3 == DecodePass[d2]
        IN  ~HasDots(inbound.path) /\ ~HasDots(d1) /\ ~HasDots(d2) /\ ~HasDots(d3)

(* The decoding ends where nothing is left to decode: a %25 it produced is  *)
(* not taken for literal text.                                              *)
DecodingSettles ==
    verdict.says # "pending" =>
        LET decoded == UrlencodingDecode[inbound.path]
        IN  \A i \in DOMAIN decoded :
                ~(decoded[i] = "%" /\ i + 2 <= Len(decoded) /\ IsHex(decoded[i + 1]) /\ IsHex(decoded[i + 2]))

(***************************************************************************)
(* What gets in: the administration is for the administrator, a service's  *)
(* host is the service's, and no spelling of ".." passes.                  *)
(***************************************************************************)
InboundSound ==
    ChangesAreAuthorized /\ RoutedHostReachesService /\ NoTraversalPasses /\ DecodingSettles
=============================================================================
