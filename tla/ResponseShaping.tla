--------------------------- MODULE ResponseShaping ---------------------------
(***************************************************************************)
(* What ProxyService::handle makes of a backend's response before a client *)
(* sees it (gateway/src/proxy.rs): the headers of the backend, of the CORS *)
(* and security policy, of the route and of the response plugins, in that  *)
(* order, then compression and the shared cache, whose entries keep the    *)
(* headers that were made for the client that filled them.                 *)
(*                                                                         *)
(* Headers are a function from names to values.  A value names what it     *)
(* says: for content-length, the body whose length it is.                  *)
(***************************************************************************)
EXTENDS Sequences

CONSTANTS
  CorsPolicies,   \* cors_origins of a route: sets of origins; {"*"} is the wildcard
  CallerOrigins,  \* origins of browsers; "" is a request without the header
  BackendExtras   \* headers a backend may send beside its body's

VARIABLES
  shapeConf,  \* the route's configuration and its backend's response
  slot,       \* the cache entry of the requested key: a set of at most one
  shaped      \* the last response, and the request it answered

shapeVars == <<shapeConf, slot, shaped>>

(* HeaderMap: insert replaces what was there under the name. *)
Insert(h, name, value) == [n \in DOMAIN h \cup {name} |-> IF n = name THEN value ELSE h[n]]
InsertAll(h, names, value) == [n \in DOMAIN h \cup names |-> IF n \in names THEN value ELSE h[n]]
Drop(h, names) == [n \in DOMAIN h \ names |-> h[n]]
Identity == {"x-volta-user-id"}

-----------------------------------------------------------------------------
(* The headers, step by step. *)

(* Mutant: only the ids are set. *)
StrippedNothing(h) == InsertAll(h, {"x-request-id", "traceparent"}, "gateway")

(* X-Volta-* of the backend are dropped; the request's ids are set. *)
Stripped(h) == InsertAll(Drop(h, Identity), {"x-request-id", "traceparent"}, "gateway")

AllowedOrigin(cors, origin) ==
  IF "*" \in cors THEN "*" ELSE IF origin \in cors THEN origin ELSE ""

CorsHeaders(h, cors, origin) ==
  LET allowed == AllowedOrigin(cors, origin) IN
  CASE allowed = "" -> h
    [] allowed = "*" -> Insert(h, "access-control-allow-origin", "*")
    [] OTHER -> Insert(Insert(h, "vary", "Origin"), "access-control-allow-origin", allowed)

SecurityHeaders(h, add) ==
  LET always == Insert(Insert(h, "x-content-type-options", "nosniff"), "strict-transport-security", "gateway")
  IN IF {"x-frame-options", "content-security-policy"} \cap add # {}
     THEN always ELSE Insert(always, "x-frame-options", "DENY")

RouteHeaders(h, remove, add) == InsertAll(Drop(h, remove), add, "route")

(* header-injector's on_response; no built-in plugin removes headers. *)
PluginHeaders(h, inject) == InsertAll(h, inject, "plugin")

Shape(c, origin) ==
  PluginHeaders(
    RouteHeaders(
      SecurityHeaders(CorsHeaders(Stripped(c.backend), c.cors, origin), c.add),
      c.remove, c.add),
    c.inject)

(* Mutant: a response that varies is stored like any other. *)
CacheableAnyVary(h) == "set-cookie" \notin DOMAIN h

(* is_response_cacheable; set-cookie stands for the headers that forbid it. *)
IsResponseCacheable(h) == {"set-cookie", "vary"} \cap DOMAIN h = {}

(* Mutant: the headers of the uncompressed body stay. *)
GzipHeadersKept(h) ==
  InsertAll(h, {"content-encoding", "content-length"} \ DOMAIN h, "gzip")

GzipHeaders(h) ==
  InsertAll(Drop(h, {"content-length", "content-encoding", "transfer-encoding"}),
            {"content-encoding", "content-length"}, "gzip")

-----------------------------------------------------------------------------
BackendHeaders(coding, extras) ==
  LET h == Insert([n \in extras |-> "backend"], "content-length", coding)
  IN IF coding = "identity" THEN h ELSE Insert(h, "content-encoding", coding)

Coding(h) == IF "content-encoding" \in DOMAIN h THEN h["content-encoding"] ELSE "identity"

NoResponse == [headers |-> <<>>, body |-> "none", origin |-> ""]
Respond(h, body, origin) == shaped' = [headers |-> h, body |-> body, origin |-> origin]

ShapeInit ==
  /\ shapeConf \in
       [cors : CorsPolicies, remove : SUBSET {"vary"},
        add : SUBSET {"x-frame-options"}, inject : SUBSET {"x-volta-user-id"},
        backend : {BackendHeaders(c, x) : c \in {"identity", "br"}, x \in SUBSET BackendExtras},
        cached : BOOLEAN]
  /\ slot = {}
  /\ shaped = NoResponse

(* A hit: the stored headers and body, whoever asks. *)
ServeHit(origin) ==
  /\ shapeConf.cached
  /\ \E entry \in slot : Respond(Insert(entry.headers, "x-volta-cache", "HIT"), entry.body, origin)
  /\ UNCHANGED <<shapeConf, slot>>

(* The compressed body when it is smaller, the whole one otherwise. *)
SmallerBody(h, origin) ==
  \/ Respond(GzipHeaders(h), "gzip", origin)
  \/ Respond(h, "identity", origin)

(* The path that collects the body: a body that breaks off is a 502, one   *)
(* over the limit is passed on, any other is stored as it came, when its   *)
(* headers allow it, and compressed for this client.                       *)
StoreAndCompress(h, origin) ==
  \/ Respond(<<>>, "error page", origin) /\ UNCHANGED slot
  \/ Respond(h, "identity", origin) /\ UNCHANGED slot
  \/ /\ slot' = IF IsResponseCacheable(h) THEN {[headers |-> h, body |-> "identity"]} ELSE slot
     /\ SmallerBody(h, origin)

(* The streaming path: a body that breaks off leaves the headers alone.    *)
StreamCompress(h, origin) ==
  /\ \/ Respond(GzipHeaders(h), "gzip", origin)
     \/ Respond(h, "cut off", origin)
  /\ UNCHANGED slot

(* A miss, or a request the shared cache does not serve (credentials);     *)
(* gzip: the client accepts it and the content type is text.               *)
ServeFresh(origin, shared, gzip) ==
  LET h == Shape(shapeConf, origin)
      cacheable == shapeConf.cached /\ shared
  IN /\ ~(cacheable /\ slot # {})
     /\ IF Coding(h) # "identity" \/ ~gzip
        THEN Respond(h, Coding(h), origin) /\ UNCHANGED slot
        ELSE IF cacheable THEN StoreAndCompress(h, origin)
        ELSE StreamCompress(h, origin)
     /\ UNCHANGED shapeConf

(* The entry's ttl passes, or it is evicted. *)
EntryGone == slot # {} /\ slot' = {} /\ UNCHANGED <<shapeConf, shaped>>

ShapeNext ==
  \/ \E o \in CallerOrigins : ServeHit(o)
  \/ \E o \in CallerOrigins, shared, gzip \in BOOLEAN : ServeFresh(o, shared, gzip)
  \/ EntryGone

-----------------------------------------------------------------------------
(* An answer allows the wildcard or the origin of the very caller it goes  *)
(* to: a header made for one origin never reaches another one through the  *)
(* shared cache (proxy.rs sets vary with it, cache.rs stores nothing that  *)
(* varies), unless the route's configuration removes vary.                 *)
OwnOriginOnly ==
  LET h == shaped.headers IN
  "access-control-allow-origin" \in DOMAIN h /\ "vary" \notin shapeConf.remove =>
    h["access-control-allow-origin"] \in {"*", "backend", shaped.origin}

(* The coding and the length that the headers announce are those of the    *)
(* body that follows, compressed, stored or neither; only a body that the  *)
(* backend broke off is shorter.                                           *)
BodyAsLabelled ==
  LET h == shaped.headers IN
  shaped.body \in {"identity", "gzip", "br"} =>
    /\ Coding(h) = shaped.body
    /\ "content-length" \in DOMAIN h => h["content-length"] = shaped.body

(* An identity header in a response is never the backend's: configuration  *)
(* may set one, on a fresh response and on one served from the cache.      *)
NoBackendIdentity ==
  \A n \in Identity \cap DOMAIN shaped.headers : shaped.headers[n] # "backend"

(***************************************************************************)
(* What a client gets is meant for it: its own origin, a body as labelled  *)
(* and no identity header that the backend made up.                        *)
(***************************************************************************)
ShapingSound == OwnOriginOnly /\ BodyAsLabelled /\ NoBackendIdentity
=============================================================================
