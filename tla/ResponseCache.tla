---------------------------- MODULE ResponseCache ----------------------------
(***************************************************************************)
(* The shared response cache (gateway/src/cache.rs) and the requests that  *)
(* look up, fetch and store around it in ProxyService::handle              *)
(* (gateway/src/proxy.rs).  get and put each run under the one mutex of    *)
(* the map; between them a request waits for its backend, so requests for  *)
(* the same key miss together and store one after the other.               *)
(*                                                                         *)
(* An entry keeps the ages the code derives from its two instants, created *)
(* and last_used, saturating at MaxTtl.  Nothing is lost: an age of MaxTtl *)
(* is stale whatever the ttl, a stale entry is never compared by last_used *)
(* and last_used is never older than created.  The code's Stale flag is    *)
(* set only in the critical section that removes the entry, so it is no    *)
(* state of its own.                                                       *)
(***************************************************************************)
EXTENDS Naturals, FiniteSets

CONSTANTS
  Keys,         \* cache keys: method, host, path and query
  Requests,     \* concurrent requests
  MaxEntries,   \* capacity (code: 10000)
  TTLs,         \* ttl_secs of the routes
  MaxVersion,   \* bound: how often the content behind a key changes
  Changing      \* bound: the keys whose content changes

MaxTtl == CHOOSE t \in TTLs : \A u \in TTLs : u <= t

ASSUME CacheAssumption ==
  /\ IsFiniteSet(Keys)
  /\ MaxEntries \in Nat
  /\ TTLs \subseteq Nat /\ IsFiniteSet(TTLs) /\ TTLs # {}
  /\ MaxVersion \in Nat
  /\ Changing \subseteq Keys

VARIABLES
  entries,   \* the map; an entry that is not there has there = FALSE
  version,   \* environment: the content a backend has behind each key
  pc,        \* where each request's task is
  key,       \* its cache key
  creds,     \* does it carry a cookie or an authorization header
  body       \* the response it got, from the cache or from the backend

vars == <<entries, version, pc, key, creds, body>>

Bodies == [ver : 0 .. MaxVersion, personal : BOOLEAN]
NoBody == [ver |-> 0, personal |-> FALSE]
CacheEntry == [there : BOOLEAN, created : 0 .. MaxTtl, used : 0 .. MaxTtl,
               ttl : TTLs \cup {0}, body : Bodies]
NoEntry == [there |-> FALSE, created |-> 0, used |-> 0, ttl |-> 0, body |-> NoBody]

Held(es) == {k \in Keys : es[k].there}

(* is_fresh *)
IsFresh(e) == e.there /\ e.created < e.ttl
Stale(es) == {k \in Held(es) : ~IsFresh(es[k])}

(* Every variable has the shape the code's types give it, and no entry was *)
(* last used before it was created (the ages above rely on it).            *)
TypeOK ==
  /\ entries \in [Keys -> CacheEntry]
  /\ \A k \in Keys : entries[k].used <= entries[k].created
  /\ version \in [Keys -> 0 .. MaxVersion]
  /\ pc \in [Requests -> {"idle", "fetch", "reply", "hit", "done"}]
  /\ key \in [Requests -> Keys]
  /\ creds \in [Requests -> BOOLEAN]
  /\ body \in [Requests -> Bodies]

Init ==
  /\ entries = [k \in Keys |-> NoEntry]
  /\ version = [k \in Keys |-> 0]
  /\ pc = [r \in Requests |-> "idle"]
  /\ key \in [Requests -> Keys]
  /\ creds \in [Requests -> BOOLEAN]
  /\ body = [r \in Requests |-> NoBody]

Without(es, ks) == [k \in Keys |-> IF k \in ks THEN NoEntry ELSE es[k]]

(* is_shared_cache_request, on a public route with the cache enabled *)
Shared(r) == ~creds[r]

(* Mutant: a hit extends the life of the entry. *)
TouchExtends(e) == [e EXCEPT !.used = 0, !.created = 0]

(* A hit is a use. *)
Touch(e) == [e EXCEPT !.used = 0]

(* get: a fresh entry is a hit; a stale one is removed. *)
Lookup(r) ==
  LET k == key[r] IN
  /\ pc[r] = "idle"
  /\ IF Shared(r) /\ IsFresh(entries[k])
     THEN /\ entries' = [entries EXCEPT ![k] = Touch(@)]
          /\ pc' = [pc EXCEPT ![r] = "hit"]
          /\ body' = [body EXCEPT ![r] = entries[k].body]
     ELSE /\ entries' = IF Shared(r) THEN Without(entries, {k}) ELSE entries
          /\ pc' = [pc EXCEPT ![r] = "fetch"]
          /\ UNCHANGED body
  /\ UNCHANGED <<version, key, creds>>

(* The backend answers, with the content of this moment. *)
Fetch(r) ==
  /\ pc[r] = "fetch"
  /\ pc' = [pc EXCEPT ![r] = "reply"]
  /\ body' = [body EXCEPT ![r] = [ver |-> version[key[r]], personal |-> creds[r]]]
  /\ UNCHANGED <<entries, version, key, creds>>

(* Mutant: only stale entries are ever evicted. *)
EvictStaleOnly(es, k) ==
  IF Cardinality(Held(es)) < MaxEntries \/ k \in Held(es) THEN {es}
  ELSE {Without(es, Stale(es))}

(* Mutant: the entry that was stored first goes, used or not. *)
EvictFifo(es, k) ==
  LET fresh == Without(es, Stale(es))
      Oldest == {v \in Held(fresh) : \A w \in Held(fresh) : fresh[w].created <= fresh[v].created}
  IN IF Cardinality(Held(es)) < MaxEntries \/ k \in Held(es) THEN {es}
     ELSE IF Cardinality(Held(fresh)) < MaxEntries THEN {fresh}
     ELSE {Without(fresh, {v}) : v \in Oldest}

(***************************************************************************)
(* Making room for k: nothing to do when k replaces an entry or a slot is  *)
(* free; otherwise all stale entries go, and, if that freed no slot, the   *)
(* least recently used one (any of several used at the same instant).      *)
(***************************************************************************)
Evict(es, k) ==
  LET fresh == Without(es, Stale(es))
      Lru == {v \in Held(fresh) : \A w \in Held(fresh) : fresh[w].used <= fresh[v].used}
  IN IF Cardinality(Held(es)) < MaxEntries \/ k \in Held(es) THEN {es}
     ELSE IF Cardinality(Held(fresh)) < MaxEntries THEN {fresh}
     ELSE {Without(fresh, {v}) : v \in Lru}

(* Mutant: replacing an entry keeps its last_used. *)
PutKeepsUsed(es, k, b, t) ==
  IF MaxEntries = 0 THEN {es}
  ELSE {[e EXCEPT ![k] = [there |-> TRUE, created |-> 0, used |-> e[k].used, ttl |-> t, body |-> b]]
          : e \in Evict(es, k)}

(* put *)
Put(es, k, b, t) ==
  IF MaxEntries = 0 THEN {es}
  ELSE {[e EXCEPT ![k] = [there |-> TRUE, created |-> 0, used |-> 0, ttl |-> t, body |-> b]]
          : e \in Evict(es, k)}

(* Mutant: the credentials of the request are not looked at. *)
StoreAny(r, t) ==
  /\ pc[r] = "reply"
  /\ entries' \in Put(entries, key[r], body[r], t)
  /\ pc' = [pc EXCEPT ![r] = "done"]
  /\ body' = [body EXCEPT ![r] = NoBody]
  /\ UNCHANGED <<version, key, creds>>

(* A cacheable response to a shareable request is stored. *)
Store(r, t) ==
  /\ pc[r] = "reply"
  /\ Shared(r)
  /\ entries' \in Put(entries, key[r], body[r], t)
  /\ pc' = [pc EXCEPT ![r] = "done"]
  /\ body' = [body EXCEPT ![r] = NoBody]
  /\ UNCHANGED <<version, key, creds>>

(***************************************************************************)
(* The response is not stored: wrong status, headers, size or encoding, or *)
(* the request is not shareable; or there is none (an error, a client that *)
(* went away).                                                             *)
(***************************************************************************)
NotStored(r) ==
  /\ pc[r] \in {"fetch", "reply"}
  /\ pc' = [pc EXCEPT ![r] = "done"]
  /\ body' = [body EXCEPT ![r] = NoBody]
  /\ UNCHANGED <<entries, version, key, creds>>

(* The client has its answer; the next request is for any key. *)
Again(r, k, c) ==
  /\ pc[r] \in {"hit", "done"}
  /\ pc' = [pc EXCEPT ![r] = "idle"]
  /\ key' = [key EXCEPT ![r] = k]
  /\ creds' = [creds EXCEPT ![r] = c]
  /\ body' = [body EXCEPT ![r] = NoBody]
  /\ UNCHANGED <<entries, version>>

(* The backend changes what it serves. *)
Change(k) ==
  /\ version[k] < MaxVersion
  /\ version' = [version EXCEPT ![k] = @ + 1]
  /\ UNCHANGED <<entries, pc, key, creds, body>>

Older(a) == IF a < MaxTtl THEN a + 1 ELSE a

(* Time passes. *)
Tick ==
  /\ entries' = [k \in Keys |->
       IF entries[k].there
       THEN [entries[k] EXCEPT !.created = Older(@), !.used = Older(@)]
       ELSE entries[k]]
  /\ UNCHANGED <<version, pc, key, creds, body>>

Next ==
  \/ \E r \in Requests :
       \/ Lookup(r) \/ Fetch(r) \/ NotStored(r)
       \/ \E t \in TTLs : Store(r, t)
       \/ \E k \in Keys, c \in BOOLEAN : Again(r, k, c)
  \/ \E k \in Changing : Change(k)
  \/ Tick

Spec == Init /\ [][Next]_vars

(* A handler that has its hit returns it. *)
ReturnHit(r) == pc[r] = "hit" /\ \E k \in Keys, c \in BOOLEAN : Again(r, k, c)

-------------------------------------------------------------------------------
(* The cache never holds more than its capacity. *)
Capacity == Cardinality(Held(entries)) <= MaxEntries

(***************************************************************************)
(* A response made for a request with credentials is never kept or served  *)
(* to another request from the cache.                                      *)
(***************************************************************************)
NothingPersonal ==
  /\ \A k \in Held(entries) : ~entries[k].body.personal
  /\ \A r \in Requests : pc[r] = "hit" => ~body[r].personal

(***************************************************************************)
(* A fresh entry is lost only to a full cache of fresh entries, and then   *)
(* none that stays was used longer ago.                                    *)
(***************************************************************************)
OnlyLruLost ==
  [][\A k \in Keys :
       (IsFresh(entries[k]) /\ ~entries'[k].there) =>
         /\ Stale(entries) = {}
         /\ Cardinality(Held(entries)) = MaxEntries
         /\ \A w \in Held(entries) : entries'[w].there => entries[w].used <= entries[k].used]_vars

(***************************************************************************)
(* Once the content behind the keys stops changing, the cache stops        *)
(* serving old content, although hits may keep coming and requests that    *)
(* fetched the old content may store it late.                              *)
(***************************************************************************)
EventuallyCurrent ==
  \A k \in Changing :
    <>[](version[k] = MaxVersion) =>
      <>[](\A r \in Requests : (pc[r] = "hit" /\ key[r] = k) => body[r].ver = MaxVersion)

(***************************************************************************)
(* The cache holds what it may: no more entries than its limit, and        *)
(* nothing that was answered to somebody's credentials.                    *)
(***************************************************************************)
CacheSound == Capacity /\ NothingPersonal
===============================================================================
