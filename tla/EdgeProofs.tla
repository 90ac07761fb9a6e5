----------------------------- MODULE EdgeProofs -----------------------------
(***************************************************************************)
(* What the parts of MCEdge promise, for every value of their constants:   *)
(* any number of requests, connections, workers, keys and clients, any     *)
(* limit.  First the response cache, then the others part by part; the end *)
(* puts them together for EdgeSpec.                                        *)
(***************************************************************************)
EXTENDS MCEdge, FiniteSetTheorems, TLAPS

(* The shape of entries and responses, without the bounds of TypeOK. *)
AnyBody == [ver : Nat, personal : BOOLEAN]
AnyEntry == [there : BOOLEAN, created : Nat, used : Nat, ttl : Nat, body : AnyBody]

Shape ==
  /\ entries \in [Keys -> AnyEntry]
  /\ version \in [Keys -> Nat]
  /\ pc \in [Requests -> {"idle", "fetch", "reply", "hit", "done"}]
  /\ key \in [Requests -> Keys]
  /\ creds \in [Requests -> BOOLEAN]
  /\ body \in [Requests -> AnyBody]

(* A response on its way to the cache is as personal as its request. *)
Marked == \A r \in Requests : pc[r] = "reply" => body[r].personal = creds[r]

IInv == Shape /\ Capacity /\ NothingPersonal /\ Marked

(* The keys held are finitely many. *)
LEMMA HeldFinite ==
  ASSUME NEW es
  PROVE  IsFiniteSet(Held(es)) /\ Cardinality(Held(es)) \in Nat
<1>1. Held(es) \subseteq Keys
  BY DEF Held
<1> QED
  BY <1>1, CacheAssumption, FS_Subset, FS_CardinalityType

(* Removing keys removes them and nothing else. *)
LEMMA WithoutHeld ==
  ASSUME NEW es \in [Keys -> AnyEntry], NEW ks
  PROVE  /\ Without(es, ks) \in [Keys -> AnyEntry]
         /\ Held(Without(es, ks)) = Held(es) \ ks
         /\ \A k \in Held(es) \ ks : Without(es, ks)[k] = es[k]
<1>1. NoEntry \in AnyEntry /\ NoEntry.there = FALSE
  BY DEF NoEntry, NoBody, AnyEntry, AnyBody
<1> QED
  BY <1>1 DEF Without, Held, AnyEntry

(***************************************************************************)
(* What Evict returns has room for k: within the capacity already if k is  *)
(* held, and strictly below it if k is not.                                *)
(***************************************************************************)
LEMMA EvictMakesRoom ==
  ASSUME NEW es \in [Keys -> AnyEntry], NEW k \in Keys,
         MaxEntries # 0, Cardinality(Held(es)) <= MaxEntries,
         NEW e \in Evict(es, k)
  PROVE  /\ e \in [Keys -> AnyEntry]
         /\ Held(e) \subseteq Held(es)
         /\ \A w \in Held(e) : e[w] = es[w]
         /\ k \in Held(e) => Cardinality(Held(e)) <= MaxEntries
         /\ k \notin Held(e) => Cardinality(Held(e)) < MaxEntries
<1> DEFINE fresh == Without(es, Stale(es))
           Lru == {v \in Held(fresh) : \A w \in Held(fresh) : fresh[w].used <= fresh[v].used}
<1>1. /\ fresh \in [Keys -> AnyEntry]
      /\ Held(fresh) = Held(es) \ Stale(es)
      /\ \A w \in Held(fresh) : fresh[w] = es[w]
  BY WithoutHeld
<1>2. CASE Cardinality(Held(es)) < MaxEntries \/ k \in Held(es)
  BY <1>2 DEF Evict
<1>3. CASE ~(Cardinality(Held(es)) < MaxEntries \/ k \in Held(es))
  <2>1. k \notin Held(es)
    BY <1>3
  <2>2. CASE Cardinality(Held(fresh)) < MaxEntries
    <3>1. e = fresh
      BY <1>3, <2>2 DEF Evict
    <3> QED
      BY <3>1, <1>1, <2>1, <2>2
  <2>3. CASE ~(Cardinality(Held(fresh)) < MaxEntries)
    <3>1. PICK v \in Lru : e = Without(fresh, {v})
      BY <1>3, <2>3 DEF Evict
    <3>2. /\ e \in [Keys -> AnyEntry]
          /\ Held(e) = Held(fresh) \ {v}
          /\ \A w \in Held(e) : e[w] = fresh[w]
      BY <3>1, <1>1, WithoutHeld
    <3>3. v \in Held(fresh)
      BY <3>1
    <3>4. Cardinality(Held(e)) = Cardinality(Held(fresh)) - 1
      <4>1. IsFiniteSet(Held(fresh))
        BY HeldFinite
      <4>2. Cardinality(Held(fresh) \ {v}) = Cardinality(Held(fresh)) - 1
        BY <3>3, <4>1, FS_RemoveElement
      <4> QED
        BY <3>2, <4>2
    <3>5. Cardinality(Held(fresh)) <= Cardinality(Held(es))
      BY <1>1, HeldFinite, FS_Subset
    <3>6. /\ Cardinality(Held(e)) \in Nat
          /\ Cardinality(Held(fresh)) \in Nat
          /\ Cardinality(Held(es)) \in Nat
          /\ MaxEntries \in Nat
      BY HeldFinite, CacheAssumption
    <3>7. Cardinality(Held(e)) < MaxEntries
      BY <3>4, <3>5, <3>6
    <3>8. Held(e) \subseteq Held(es) /\ \A w \in Held(e) : e[w] = es[w]
      BY <3>2, <1>1
    <3> QED
      BY <3>2, <3>7, <3>8, <2>1
  <2> QED
    BY <2>2, <2>3
<1> QED
  BY <1>2, <1>3

(* put respects the capacity, and adds nothing but what it is given. *)
LEMMA PutFacts ==
  ASSUME NEW es \in [Keys -> AnyEntry], NEW k \in Keys, NEW b \in AnyBody, NEW t \in TTLs,
         Cardinality(Held(es)) <= MaxEntries,
         NEW e \in Put(es, k, b, t)
  PROVE  /\ e \in [Keys -> AnyEntry]
         /\ Cardinality(Held(e)) <= MaxEntries
         /\ \A w \in Held(e) : e[w].body = b \/ (w \in Held(es) /\ e[w] = es[w])
<1> DEFINE new == [there |-> TRUE, created |-> 0, used |-> 0, ttl |-> t, body |-> b]
<1>1. CASE MaxEntries = 0
  BY <1>1 DEF Put
<1>2. CASE MaxEntries # 0
  <2>1. PICK f \in Evict(es, k) : e = [f EXCEPT ![k] = new]
    BY <1>2 DEF Put
  <2>2. /\ f \in [Keys -> AnyEntry]
        /\ Held(f) \subseteq Held(es)
        /\ \A w \in Held(f) : f[w] = es[w]
        /\ k \in Held(f) => Cardinality(Held(f)) <= MaxEntries
        /\ k \notin Held(f) => Cardinality(Held(f)) < MaxEntries
    BY <1>2, EvictMakesRoom
  <2>3. new \in AnyEntry /\ new.there /\ new.body = b
    BY CacheAssumption DEF AnyEntry
  <2>4. /\ e \in [Keys -> AnyEntry]
        /\ e[k] = new
        /\ \A w \in Keys \ {k} : e[w] = f[w]
    BY <2>1, <2>2, <2>3
  <2>5. Held(e) = Held(f) \cup {k}
    BY <2>2, <2>3, <2>4 DEF Held
  <2>6. Cardinality(Held(e)) <= MaxEntries
    <3>1. CASE k \in Held(f)
      <4>1. Held(e) = Held(f)
        BY <2>5, <3>1
      <4> QED
        BY <4>1, <3>1, <2>2
    <3>2. CASE k \notin Held(f)
      <4>1. Cardinality(Held(e)) = Cardinality(Held(f)) + 1
        BY <2>5, <3>2, HeldFinite, FS_AddElement
      <4>2. Cardinality(Held(f)) \in Nat /\ MaxEntries \in Nat
        BY HeldFinite, CacheAssumption
      <4> QED
        BY <4>1, <4>2, <3>2, <2>2
    <3> QED
      BY <3>1, <3>2
  <2>7. \A w \in Held(e) : e[w].body = b \/ (w \in Held(es) /\ e[w] = es[w])
    BY <2>2, <2>3, <2>4, <2>5 DEF Held
  <2> QED
    BY <2>4, <2>6, <2>7
<1> QED
  BY <1>1, <1>2

(* The invariant holds initially: nothing is held. *)
LEMMA InitInv == Init => IInv
<1> SUFFICES ASSUME Init PROVE IInv
  OBVIOUS
<1>1. Shape
  BY CacheAssumption DEF Init, Shape, NoEntry, NoBody, AnyEntry, AnyBody
<1>2. Held(entries) = {}
  BY DEF Init, Held, NoEntry
<1>3. Capacity
  BY <1>2, FS_EmptySet, CacheAssumption DEF Capacity
<1>4. NothingPersonal /\ Marked
  BY <1>2 DEF Init, NothingPersonal, Marked
<1> QED
  BY <1>1, <1>3, <1>4 DEF IInv

(* Every step preserves the invariant. *)
LEMMA NextInv == IInv /\ [Next]_vars => IInv'
<1> SUFFICES ASSUME IInv, [Next]_vars PROVE IInv'
  OBVIOUS
<1> USE DEF IInv
<1>1. ASSUME NEW r \in Requests, Lookup(r) PROVE IInv'
  <2> DEFINE k == key[r]
  <2>0. k \in Keys
    BY DEF Shape
  <2>1. CASE Shared(r) /\ IsFresh(entries[k])
    <3>1. /\ entries' = [entries EXCEPT ![k] = Touch(entries[k])]
          /\ pc' = [pc EXCEPT ![r] = "hit"]
          /\ body' = [body EXCEPT ![r] = entries[k].body]
          /\ UNCHANGED <<version, key, creds>>
      BY <1>1, <2>1 DEF Lookup
    <3>2. /\ Touch(entries[k]) \in AnyEntry
          /\ Touch(entries[k]).there = entries[k].there
          /\ Touch(entries[k]).body = entries[k].body
          /\ entries[k].body \in AnyBody
          /\ k \in Held(entries)
      BY <2>0, <2>1 DEF Touch, Shape, AnyEntry, IsFresh, Held
    <3>3. Shape'
      BY <3>1, <3>2, <2>0 DEF Shape
    <3>4. /\ Held(entries') = Held(entries)
          /\ \A w \in Keys : entries'[w].body = entries[w].body
      BY <3>1, <3>2, <2>0 DEF Held, Shape
    <3>5. Capacity'
      BY <3>4 DEF Capacity
    <3>6. NothingPersonal' /\ Marked'
      BY <3>1, <3>2, <3>4 DEF NothingPersonal, Marked, Shape, Held
    <3> QED
      BY <3>3, <3>5, <3>6
  <2>2. CASE ~(Shared(r) /\ IsFresh(entries[k]))
    <3>1. /\ entries' = IF Shared(r) THEN Without(entries, {k}) ELSE entries
          /\ pc' = [pc EXCEPT ![r] = "fetch"]
          /\ UNCHANGED <<body, version, key, creds>>
      BY <1>1, <2>2 DEF Lookup
    <3>2. /\ entries' \in [Keys -> AnyEntry]
          /\ Held(entries') \subseteq Held(entries)
          /\ \A w \in Held(entries') : entries'[w] = entries[w]
      BY <3>1, WithoutHeld DEF Shape
    <3>3. Cardinality(Held(entries')) <= Cardinality(Held(entries))
      BY <3>2, HeldFinite, FS_Subset
    <3>4. Capacity'
      <4>1. /\ Cardinality(Held(entries')) \in Nat
            /\ Cardinality(Held(entries)) \in Nat
            /\ MaxEntries \in Nat
        BY HeldFinite, CacheAssumption
      <4> QED
        BY <4>1, <3>3 DEF Capacity
    <3>5. Shape' /\ NothingPersonal' /\ Marked'
      BY <3>1, <3>2 DEF NothingPersonal, Marked, Shape
    <3> QED
      BY <3>4, <3>5
  <2> QED
    BY <2>1, <2>2
<1>2. ASSUME NEW r \in Requests, Fetch(r) PROVE IInv'
  <2>1. /\ pc[r] = "fetch"
        /\ pc' = [pc EXCEPT ![r] = "reply"]
        /\ body' = [body EXCEPT ![r] = [ver |-> version[key[r]], personal |-> creds[r]]]
        /\ UNCHANGED <<entries, version, key, creds>>
    BY <1>2 DEF Fetch
  <2>2. [ver |-> version[key[r]], personal |-> creds[r]] \in AnyBody
    BY DEF Shape, AnyBody
  <2> QED
    BY <2>1, <2>2 DEF Shape, Capacity, NothingPersonal, Marked, Held
<1>3. ASSUME NEW r \in Requests, NEW t \in TTLs, Store(r, t) PROVE IInv'
  <2>1. /\ pc[r] = "reply" /\ ~creds[r]
        /\ entries' \in Put(entries, key[r], body[r], t)
        /\ pc' = [pc EXCEPT ![r] = "done"]
        /\ body' = [body EXCEPT ![r] = NoBody]
        /\ UNCHANGED <<version, key, creds>>
    BY <1>3 DEF Store, Shared
  <2>2. key[r] \in Keys /\ body[r] \in AnyBody /\ body[r].personal = FALSE
    BY <2>1 DEF Shape, Marked
  <2>3. /\ entries' \in [Keys -> AnyEntry]
        /\ Cardinality(Held(entries')) <= MaxEntries
        /\ \A w \in Held(entries') :
             entries'[w].body = body[r] \/ (w \in Held(entries) /\ entries'[w] = entries[w])
    BY <2>1, <2>2, PutFacts DEF Shape, Capacity
  <2>4. NoBody \in AnyBody /\ NoBody.personal = FALSE
    BY DEF NoBody, AnyBody
  <2>5. NothingPersonal'
    BY <2>1, <2>2, <2>3 DEF NothingPersonal, Shape
  <2>6. Shape' /\ Capacity' /\ Marked'
    BY <2>1, <2>3, <2>4 DEF Shape, Capacity, Marked
  <2> QED
    BY <2>5, <2>6
<1>4. ASSUME NEW r \in Requests, NotStored(r) PROVE IInv'
  <2>1. NoBody \in AnyBody
    BY DEF NoBody, AnyBody
  <2> QED
    BY <1>4, <2>1 DEF NotStored, Shape, Capacity, NothingPersonal, Marked, Held
<1>5. ASSUME NEW r \in Requests, NEW k \in Keys, NEW c \in BOOLEAN, Again(r, k, c) PROVE IInv'
  <2>1. NoBody \in AnyBody
    BY DEF NoBody, AnyBody
  <2> QED
    BY <1>5, <2>1 DEF Again, Shape, Capacity, NothingPersonal, Marked, Held
<1>6. ASSUME NEW k \in Changing, Change(k) PROVE IInv'
  BY <1>6, CacheAssumption DEF Change, Shape, Capacity, NothingPersonal, Marked, Held
<1>7. CASE Tick
  <2>1. \A a \in Nat : Older(a) \in Nat
    BY DEF Older
  <2>2. entries' \in [Keys -> AnyEntry]
    BY <1>7, <2>1 DEF Tick, Shape, AnyEntry
  <2>3. \A k \in Keys : entries'[k].there = entries[k].there /\ entries'[k].body = entries[k].body
    BY <1>7 DEF Tick, Shape, AnyEntry
  <2>4. Held(entries') = Held(entries)
    BY <2>3 DEF Held
  <2> QED
    BY <1>7, <2>2, <2>3, <2>4 DEF Tick, Shape, Capacity, NothingPersonal, Marked, Held
<1>8. CASE UNCHANGED vars
  BY <1>8 DEF vars, Shape, Capacity, NothingPersonal, Marked, Held
<1> QED
  BY <1>1, <1>2, <1>3, <1>4, <1>5, <1>6, <1>7, <1>8 DEF Next

(* The cache never holds more entries than its capacity. *)
THEOREM CapacityRespected == Spec => []Capacity
<1>1. IInv => Capacity
  BY DEF IInv
<1> QED
  BY InitInv, NextInv, <1>1, PTL DEF Spec

(* Nothing made for a request with credentials is cached or served from the *)
(* cache.                                                                   *)
THEOREM NothingPersonalShared == Spec => []NothingPersonal
<1>1. IInv => NothingPersonal
  BY DEF IInv
<1> QED
  BY InitInv, NextInv, <1>1, PTL DEF Spec

(* The cache is bounded and holds nothing personal. *)
THEOREM CacheIsSound == Spec => []CacheSound
<1>1. Capacity /\ NothingPersonal => CacheSound
  BY DEF CacheSound
<1> QED BY <1>1, CapacityRespected, NothingPersonalShared, PTL

(* An entry that is fresh and that making room takes away: the cache was   *)
(* full, of fresh entries, and none that stays was used longer ago.        *)
LEMMA EvictTakesLru ==
  ASSUME NEW es \in [Keys -> AnyEntry], NEW k \in Keys, NEW e \in Evict(es, k),
         Cardinality(Held(es)) <= MaxEntries,
         NEW g \in Keys, IsFresh(es[g]), ~e[g].there
  PROVE  /\ Stale(es) = {} /\ Cardinality(Held(es)) = MaxEntries /\ k \notin Held(es)
         /\ \A w \in Held(es) : e[w].there => es[w].used <= es[g].used
<1>1. PICK fresh : fresh = Without(es, Stale(es))
  OBVIOUS
<1>2. /\ fresh \in [Keys -> AnyEntry]
      /\ Held(fresh) = Held(es) \ Stale(es)
      /\ \A w \in Held(fresh) : fresh[w] = es[w]
  BY <1>1, WithoutHeld
<1>3. g \in Held(es) /\ g \notin Stale(es) /\ g \in Held(fresh)
  BY <1>2 DEF IsFresh, Held, Stale
<1>4. fresh[g].there /\ es[g].there
  BY <1>3 DEF Held
<1>5. ~(Cardinality(Held(es)) < MaxEntries \/ k \in Held(es))
  BY <1>4 DEF Evict
<1>6. ~(Cardinality(Held(fresh)) < MaxEntries)
  BY <1>1, <1>4, <1>5 DEF Evict
<1>7. PICK v \in Held(fresh) : /\ \A w \in Held(fresh) : fresh[w].used <= fresh[v].used
                               /\ e = Without(fresh, {v})
  BY <1>1, <1>5, <1>6 DEF Evict
<1>8. v = g
  <2>1. g # v => e[g] = fresh[g]
    BY <1>2, <1>3, <1>7, WithoutHeld
  <2> QED
    BY <1>4, <2>1
<1>9. Cardinality(Held(es)) \in Nat /\ Cardinality(Held(fresh)) \in Nat /\ MaxEntries \in Nat
  BY HeldFinite, CacheAssumption
<1>10. Cardinality(Held(fresh)) <= Cardinality(Held(es)) /\ Held(fresh) \subseteq Held(es)
  BY <1>2, HeldFinite, FS_Subset
<1>11. Cardinality(Held(es)) = MaxEntries /\ Cardinality(Held(fresh)) = Cardinality(Held(es))
  BY <1>5, <1>6, <1>9, <1>10
<1>12. Held(fresh) = Held(es)
  BY <1>10, <1>11, HeldFinite, FS_Subset
<1>13. Stale(es) = {}
  BY <1>2, <1>12 DEF Stale
<1> QED
  BY <1>2, <1>5, <1>7, <1>8, <1>11, <1>12, <1>13

(***************************************************************************)
(* A fresh entry is lost only to a full cache of fresh entries, and then   *)
(* none that stays was used longer ago, whatever the capacity, the keys    *)
(* and the order in which requests come back from their backends.          *)
(***************************************************************************)
THEOREM OnlyLruIsLost == Spec => OnlyLruLost
<1> DEFINE Lost == \A k \in Keys :
             (IsFresh(entries[k]) /\ ~entries'[k].there) =>
               /\ Stale(entries) = {}
               /\ Cardinality(Held(entries)) = MaxEntries
               /\ \A w \in Held(entries) : entries'[w].there => entries[w].used <= entries[k].used
<1>1. ASSUME IInv, [Next]_vars PROVE [Lost]_vars
  <2> SUFFICES ASSUME Next, NEW g \in Keys, IsFresh(entries[g]), ~entries'[g].there
               PROVE  /\ Stale(entries) = {}
                      /\ Cardinality(Held(entries)) = MaxEntries
                      /\ \A w \in Held(entries) : entries'[w].there => entries[w].used <= entries[g].used
    BY <1>1
  <2>0. entries \in [Keys -> AnyEntry] /\ entries[g].there
    BY <1>1 DEF IInv, Shape, IsFresh
  <2>1. ASSUME NEW r \in Requests, Lookup(r) PROVE FALSE
    <3>1. key[r] \in Keys
      BY <1>1 DEF IInv, Shape
    <3>2. CASE Shared(r) /\ IsFresh(entries[key[r]])
      <4>1. entries' = [entries EXCEPT ![key[r]] = Touch(entries[key[r]])]
        BY <2>1, <3>2 DEF Lookup
      <4>2. Touch(entries[key[r]]).there
        BY <2>0, <3>1, <3>2 DEF Touch, IsFresh, AnyEntry
      <4> QED
        BY <2>0, <3>1, <4>1, <4>2
    <3>3. CASE ~(Shared(r) /\ IsFresh(entries[key[r]]))
      <4>1. entries' = IF Shared(r) THEN Without(entries, {key[r]}) ELSE entries
        BY <2>1, <3>3 DEF Lookup
      <4>2. Shared(r)
        BY <2>0, <4>1
      <4>3. g # key[r]
        BY <3>3, <4>2
      <4> QED
        BY <2>0, <4>1, <4>2, <4>3 DEF Without
    <3> QED
      BY <3>2, <3>3
  <2>2. ASSUME NEW r \in Requests, NEW t \in TTLs, Store(r, t)
        PROVE  /\ Stale(entries) = {}
               /\ Cardinality(Held(entries)) = MaxEntries
               /\ \A w \in Held(entries) : entries'[w].there => entries[w].used <= entries[g].used
    <3>1. PICK k \in Keys : k = key[r]
      BY <1>1 DEF IInv, Shape
    <3>2. entries' \in Put(entries, k, body[r], t)
      BY <2>2, <3>1 DEF Store
    <3>3. PICK new : new = [there |-> TRUE, created |-> 0, used |-> 0, ttl |-> t, body |-> body[r]]
      OBVIOUS
    <3>4. MaxEntries # 0
      BY <2>0, <3>2 DEF Put
    <3>5. PICK f \in Evict(entries, k) : entries' = [f EXCEPT ![k] = new]
      BY <3>2, <3>3, <3>4 DEF Put
    <3>6. Cardinality(Held(entries)) <= MaxEntries
      BY <1>1 DEF IInv, Capacity
    <3>7. f \in [Keys -> AnyEntry]
      BY <2>0, <3>4, <3>6, EvictMakesRoom
    <3>8. new.there /\ entries'[k] = new /\ \A w \in Keys \ {k} : entries'[w] = f[w]
      BY <3>3, <3>5, <3>7
    <3>9. ~f[g].there
      BY <3>8
    <3>10. /\ Stale(entries) = {} /\ Cardinality(Held(entries)) = MaxEntries /\ k \notin Held(entries)
           /\ \A w \in Held(entries) : f[w].there => entries[w].used <= entries[g].used
      BY <2>0, <3>6, <3>9, EvictTakesLru
    <3>11. \A w \in Held(entries) : w \in Keys \ {k}
      BY <3>10 DEF Held
    <3> QED
      BY <3>8, <3>10, <3>11
  <2>3. CASE Tick
    <3>1. \A k \in Keys : entries'[k].there = entries[k].there
      BY <2>0, <2>3 DEF Tick, AnyEntry
    <3> QED
      BY <2>0, <3>1
  <2>4. ASSUME UNCHANGED entries PROVE FALSE
    BY <2>0, <2>4
  <2> QED
    BY <2>1, <2>2, <2>3, <2>4 DEF Next, Fetch, NotStored, Again, Change
<1> QED
  BY <1>1, InitInv, NextInv, PTL DEF Spec, OnlyLruLost

-----------------------------------------------------------------------------
(* Connections.                                                            *)

PlainConns == {c \in Conns : conn[c] = "plain"}

(* Every handshake under way was let in below the limit, so what is open   *)
(* and what may still open stay within the limit and the most handshakes   *)
(* that were ever under way; after a late accept the loop is at its head.  *)
ConnectionInv ==
  /\ shutdown \in BOOLEAN /\ acceptLoop \in {"check", "accept", "exited"}
  /\ conn \in [Conns -> {"out", "plain", "handshake", "tls"}]
  /\ dialing \subseteq Conns
  /\ tunnels \in Nat /\ dialPeak \in Nat
  /\ late \in {0, 1} /\ (late = 1 => shutdown /\ acceptLoop # "accept")
  /\ CountsExact
  /\ wsOpen + Cardinality(dialing) > 0 => wsOpen + Cardinality(dialing) <= MaxWs - 1 + dialPeak

(* The sets of connections the counters are compared with are finite. *)
LEMMA ConnectionSets ==
  /\ IsFiniteSet(OpenConns) /\ IsFiniteSet(PlainConns)
  /\ Cardinality(OpenConns) \in Nat /\ Cardinality(PlainConns) \in Nat
  /\ dialing \subseteq Conns => IsFiniteSet(dialing) /\ Cardinality(dialing) \in Nat
  <1>1. OpenConns \subseteq Conns /\ PlainConns \subseteq Conns
    BY DEF OpenConns, PlainConns
  <1> QED
    BY <1>1, ConnectionsAssumption, FS_Subset, FS_CardinalityType

(* The accept loops start with every counter at the size of its empty      *)
(* set.                                                                    *)
LEMMA ConnectionInitInv == ConnInit => ConnectionInv
  <1> SUFFICES ASSUME ConnInit PROVE ConnectionInv
    OBVIOUS
  <1>1. OpenConns = {} /\ PlainConns = {}
    BY DEF ConnInit, OpenConns, PlainConns
  <1>2. Cardinality({}) = 0
    BY FS_EmptySet
  <1>3. CountsExact
    BY <1>1, <1>2, ConnectionsAssumption DEF ConnInit, CountsExact, PlainConns
  <1> QED
    <2>1. wsOpen + Cardinality(dialing) = 0 /\ tunnels \in Nat /\ dialPeak \in Nat /\ late = 0
      BY <1>2 DEF ConnInit
    <2>2. /\ shutdown \in BOOLEAN /\ acceptLoop \in {"check", "accept", "exited"} /\ dialing \subseteq Conns
          /\ conn \in [Conns -> {"out", "plain", "handshake", "tls"}]
      BY DEF ConnInit
    <2> QED
      BY <1>3, <2>1, <2>2 DEF ConnectionInv

(* One connection changes its state. *)
LEMMA ConnectionMoves ==
  ASSUME ConnectionInv, NEW c \in Conns, NEW s \in {"out", "plain", "handshake", "tls"},
         conn' = [conn EXCEPT ![c] = s]
  PROVE  /\ conn' \in [Conns -> {"out", "plain", "handshake", "tls"}]
         /\ conn[c] = "out" /\ s # "out" => Cardinality(OpenConns') = Cardinality(OpenConns) + 1
         /\ conn[c] # "out" /\ s = "out" => Cardinality(OpenConns') = Cardinality(OpenConns) - 1
         /\ conn[c] # "out" /\ s # "out" => OpenConns' = OpenConns
         /\ conn[c] # "plain" /\ s = "plain" => Cardinality(PlainConns') = Cardinality(PlainConns) + 1
         /\ conn[c] = "plain" /\ s # "plain" => Cardinality(PlainConns') = Cardinality(PlainConns) - 1
         /\ conn[c] # "plain" /\ s # "plain" => PlainConns' = PlainConns
  <1>1. /\ conn \in [Conns -> {"out", "plain", "handshake", "tls"}]
        /\ conn' \in [Conns -> {"out", "plain", "handshake", "tls"}]
        /\ conn'[c] = s /\ \A d \in Conns : d # c => conn'[d] = conn[d]
    BY DEF ConnectionInv
  <1>2. OpenConns' = (IF s = "out" THEN OpenConns \ {c} ELSE OpenConns \cup {c})
    BY <1>1 DEF OpenConns
  <1>3. PlainConns' = (IF s # "plain" THEN PlainConns \ {c} ELSE PlainConns \cup {c})
    BY <1>1 DEF PlainConns
  <1>4. (c \in OpenConns <=> conn[c] # "out") /\ (c \in PlainConns <=> conn[c] = "plain")
    BY DEF OpenConns, PlainConns
  <1>5. IsFiniteSet(OpenConns) /\ IsFiniteSet(PlainConns)
    BY ConnectionSets
  <1>6. ASSUME conn[c] = "out", s # "out"
        PROVE  Cardinality(OpenConns') = Cardinality(OpenConns) + 1
    BY <1>2, <1>4, <1>5, <1>6, FS_AddElement
  <1>7. ASSUME conn[c] # "out", s = "out"
        PROVE  Cardinality(OpenConns') = Cardinality(OpenConns) - 1
    BY <1>2, <1>4, <1>5, <1>7, FS_RemoveElement
  <1>8. ASSUME conn[c] # "out", s # "out"
        PROVE  OpenConns' = OpenConns
    BY <1>2, <1>4, <1>8
  <1>9. ASSUME conn[c] # "plain", s = "plain"
        PROVE  Cardinality(PlainConns') = Cardinality(PlainConns) + 1
    BY <1>3, <1>4, <1>5, <1>9, FS_AddElement
  <1>10. ASSUME conn[c] = "plain", s # "plain"
         PROVE  Cardinality(PlainConns') = Cardinality(PlainConns) - 1
    BY <1>3, <1>4, <1>5, <1>10, FS_RemoveElement
  <1>11. ASSUME conn[c] # "plain", s # "plain"
         PROVE  PlainConns' = PlainConns
    BY <1>3, <1>4, <1>11
  <1> QED
    BY <1>1, <1>6, <1>7, <1>8, <1>9, <1>10, <1>11

(* A handshake ends, with or without a tunnel. *)
LEMMA DialEnds ==
  ASSUME ConnectionInv, NEW c, dialing' = dialing \ {c}
  PROVE  /\ dialing' \subseteq Conns /\ Cardinality(dialing') \in Nat /\ Cardinality(dialing) \in Nat
         /\ Cardinality(dialing') <= Cardinality(dialing)
         /\ c \in dialing => Cardinality(dialing') = Cardinality(dialing) - 1
  <1>1. dialing \subseteq Conns /\ dialing' \subseteq Conns
    BY DEF ConnectionInv
  <1>2. IsFiniteSet(dialing) /\ IsFiniteSet(dialing') /\ dialing' \subseteq dialing
    BY <1>1, ConnectionsAssumption, FS_Subset
  <1> QED
    BY <1>1, <1>2, FS_Subset, FS_RemoveElement, FS_CardinalityType

(* Accepting, TLS handshakes, tunnels, ends of connections and the drain   *)
(* keep the counters exact.                                                *)
LEMMA ConnectionStepInv ==
  ASSUME ConnectionInv, [ConnNext]_connVars
  PROVE  ConnectionInv'
  <1> DEFINE d == Cardinality(dialing)
             o == Cardinality(OpenConns)
             p == Cardinality(PlainConns)
  <1>1. /\ d \in Nat /\ o \in Nat /\ p \in Nat /\ MaxWs \in Nat /\ MaxConcurrent \in Nat
        /\ wsOpen = tunnels /\ inFlight = o /\ permits = MaxConcurrent - p
    BY ConnectionSets, ConnectionsAssumption DEF ConnectionInv, CountsExact, PlainConns
  <1>2. ASSUME UNCHANGED <<conn, inFlight, permits, dialing, wsOpen, tunnels, dialPeak>>,
               shutdown' \in BOOLEAN, acceptLoop' \in {"check", "accept", "exited"},
               late' \in {0, 1}, late' = 1 => shutdown' /\ acceptLoop' # "accept"
        PROVE  ConnectionInv'
    BY <1>2 DEF ConnectionInv, CountsExact, OpenConns
  <1>3. CASE UNCHANGED connVars
    BY <1>2, <1>3 DEF connVars, ConnectionInv
  <1>4. CASE RequestShutdown
    BY <1>2, <1>4 DEF RequestShutdown, wsVars, ConnectionInv
  <1>5. CASE LoopCheck
    BY <1>2, <1>5 DEF LoopCheck, ShouldAcceptNew, wsVars, ConnectionInv
  <1>6. CASE DrainTick
    BY <1>2, <1>6 DEF DrainTick, wsVars, ConnectionInv
  <1>7. CASE AcceptNothing
    BY <1>2, <1>7 DEF AcceptNothing, wsVars, ConnectionInv
  <1>8. CASE TunnelEnds
    BY <1>1, <1>8 DEF TunnelEnds, ConnectionInv, CountsExact, OpenConns
  <1>9. ASSUME NEW c \in Conns, NEW s \in {"out", "plain", "handshake", "tls"},
               conn' = [conn EXCEPT ![c] = s], UNCHANGED wsVars,
               inFlight' = Cardinality(OpenConns'), permits' = MaxConcurrent - Cardinality(PlainConns'),
               shutdown' \in BOOLEAN, acceptLoop' \in {"check", "accept", "exited"},
               late' \in {0, 1}, late' = 1 => shutdown' /\ acceptLoop' # "accept"
        PROVE  ConnectionInv'
    <2>1. conn' \in [Conns -> {"out", "plain", "handshake", "tls"}]
      BY <1>9, ConnectionMoves
    <2>2. CountsExact'
      BY <1>1, <1>9 DEF CountsExact, PlainConns, wsVars
    <2> QED
      BY <1>9, <2>1, <2>2 DEF ConnectionInv, wsVars
  <1>10. ASSUME NEW c \in Conns, AcceptPlain(c)
         PROVE  ConnectionInv'
    <2>1. /\ conn[c] = "out" /\ conn' = [conn EXCEPT ![c] = "plain"] /\ UNCHANGED <<wsVars, shutdown>>
          /\ inFlight' = inFlight + 1 /\ permits' = permits - 1
          /\ acceptLoop = "accept" /\ acceptLoop' = "check"
          /\ late' = (IF shutdown THEN late + 1 ELSE late)
      BY <1>10 DEF AcceptPlain, TakePlain
    <2>2. Cardinality(OpenConns') = o + 1 /\ Cardinality(PlainConns') = p + 1
      BY <1>1, <2>1, ConnectionMoves
    <2>3. late = 0 /\ shutdown \in BOOLEAN
      BY <2>1 DEF ConnectionInv
    <2> HIDE DEF o, p
    <2>4. inFlight' = Cardinality(OpenConns') /\ permits' = MaxConcurrent - Cardinality(PlainConns')
      BY <1>1, <2>1, <2>2
    <2>5. late' \in {0, 1}
      BY <2>1, <2>3
    <2>6. shutdown' \in BOOLEAN /\ acceptLoop' \in {"check", "accept", "exited"}
            /\ (late' = 1 => shutdown' /\ acceptLoop' # "accept")
      BY <2>1, <2>3
    <2> QED
      BY <1>9, <2>1, <2>4, <2>5, <2>6
  <1>11. ASSUME NEW c \in Conns, AcceptTls(c)
         PROVE  ConnectionInv'
    <2>1. /\ conn[c] = "out" /\ conn' = [conn EXCEPT ![c] = "handshake"]
          /\ UNCHANGED <<wsVars, shutdown, acceptLoop, late, permits>> /\ inFlight' = inFlight + 1
      BY <1>11 DEF AcceptTls
    <2>2. Cardinality(OpenConns') = o + 1 /\ Cardinality(PlainConns') = p
      BY <2>1, ConnectionMoves
    <2> HIDE DEF o, p
    <2> QED
      BY <1>1, <1>9, <2>1, <2>2 DEF ConnectionInv
  <1>12. ASSUME NEW c \in Conns, TlsEstablished(c)
         PROVE  ConnectionInv'
    <2>1. /\ conn[c] = "handshake" /\ conn' = [conn EXCEPT ![c] = "tls"]
          /\ UNCHANGED <<wsVars, shutdown, acceptLoop, late, permits, inFlight>>
      BY <1>12 DEF TlsEstablished
    <2>2. Cardinality(OpenConns') = o /\ Cardinality(PlainConns') = p
      BY <1>1, <2>1, ConnectionMoves
    <2> HIDE DEF o, p
    <2> QED
      BY <1>1, <1>9, <2>1, <2>2 DEF ConnectionInv
  <1>13. ASSUME NEW c \in Conns, TlsRefused(c)
         PROVE  ConnectionInv'
    <2>1. /\ conn[c] = "handshake" /\ conn' = [conn EXCEPT ![c] = "out"]
          /\ UNCHANGED <<wsVars, shutdown, acceptLoop, late, permits>> /\ inFlight' = inFlight - 1
      BY <1>13 DEF TlsRefused
    <2>2. Cardinality(OpenConns') = o - 1 /\ Cardinality(PlainConns') = p
      BY <1>1, <2>1, ConnectionMoves
    <2> HIDE DEF o, p
    <2> QED
      BY <1>1, <1>9, <2>1, <2>2 DEF ConnectionInv
  <1>14. ASSUME NEW c \in Conns, CloseConn(c)
         PROVE  ConnectionInv'
    <2>1. /\ conn[c] \in {"plain", "tls"} /\ conn' = [conn EXCEPT ![c] = "out"]
          /\ UNCHANGED <<shutdown, acceptLoop, late, wsOpen, tunnels, dialPeak>> /\ inFlight' = inFlight - 1
          /\ permits' = (IF conn[c] = "plain" THEN permits + 1 ELSE permits)
          /\ dialing' = dialing \ {c}
      BY <1>14 DEF CloseConn
    <2>2. /\ conn' \in [Conns -> {"out", "plain", "handshake", "tls"}]
          /\ Cardinality(OpenConns') = o - 1
          /\ Cardinality(PlainConns') = (IF conn[c] = "plain" THEN p - 1 ELSE p)
      BY <1>1, <2>1, ConnectionMoves
    <2>3. dialing' \subseteq Conns /\ Cardinality(dialing') \in Nat /\ Cardinality(dialing') <= d
      BY <2>1, DialEnds
    <2>4. CountsExact'
      BY <1>1, <2>1, <2>2 DEF CountsExact, PlainConns
    <2>5. wsOpen + d > 0 => wsOpen + d <= MaxWs - 1 + dialPeak
      BY DEF ConnectionInv
    <2>6. wsOpen' + Cardinality(dialing') > 0 => wsOpen' + Cardinality(dialing') <= MaxWs - 1 + dialPeak'
      BY <1>1, <2>1, <2>3, <2>5 DEF ConnectionInv
    <2> QED
      BY <2>1, <2>2, <2>3, <2>4, <2>6 DEF ConnectionInv
  <1>15. ASSUME UNCHANGED <<conn, inFlight, permits, shutdown, acceptLoop, late>>,
                dialing' \subseteq Conns, wsOpen' = tunnels', tunnels' \in Nat, dialPeak' \in Nat,
                wsOpen' + Cardinality(dialing') > 0 =>
                  wsOpen' + Cardinality(dialing') <= MaxWs - 1 + dialPeak'
         PROVE  ConnectionInv'
    BY <1>15 DEF ConnectionInv, CountsExact, OpenConns
  <1>16. ASSUME NEW c \in Conns, WsBegin(c)
         PROVE  ConnectionInv'
    <2>1. /\ wsOpen < MaxWs /\ c \notin dialing /\ dialing' = dialing \cup {c}
          /\ UNCHANGED <<shutdown, acceptLoop, inFlight, permits, conn, wsOpen, tunnels, late>>
          /\ dialPeak' = (IF Cardinality(dialing') > dialPeak THEN Cardinality(dialing') ELSE dialPeak)
      BY <1>16 DEF WsBegin, Dial
    <2>2. Cardinality(dialing') = d + 1
      BY <2>1, ConnectionSets, FS_AddElement DEF ConnectionInv
    <2>3. dialPeak \in Nat /\ tunnels \in Nat /\ dialing' \subseteq Conns
      BY <2>1 DEF ConnectionInv
    <2> HIDE DEF d
    <2> QED
      <3>1. wsOpen' + Cardinality(dialing') <= MaxWs - 1 + dialPeak' /\ dialPeak' \in Nat
        BY <1>1, <2>1, <2>2, <2>3
      <3> QED
        BY <1>1, <1>15, <2>1, <2>3, <3>1
  <1>17. ASSUME NEW c \in Conns, WsRejected(c) \/ WsOpened(c)
         PROVE  ConnectionInv'
    <2>1. /\ dialing' = dialing \ {c} /\ c \in dialing
          /\ UNCHANGED <<shutdown, acceptLoop, inFlight, permits, conn, late, dialPeak>>
          /\ \/ UNCHANGED <<wsOpen, tunnels>>
             \/ wsOpen' = wsOpen + 1 /\ tunnels' = tunnels + 1
      BY <1>17 DEF WsRejected, WsOpened
    <2>2. dialing' \subseteq Conns /\ Cardinality(dialing') \in Nat /\ Cardinality(dialing') = d - 1
      BY <2>1, DialEnds
    <2>3. dialPeak \in Nat /\ tunnels \in Nat /\ (wsOpen + d > 0 => wsOpen + d <= MaxWs - 1 + dialPeak)
      BY DEF ConnectionInv
    <2> HIDE DEF d
    <2> QED
      BY <1>1, <1>15, <2>1, <2>2, <2>3
  <1> QED
    BY <1>3, <1>4, <1>5, <1>6, <1>7, <1>8, <1>10, <1>11, <1>12, <1>13, <1>14, <1>16, <1>17 DEF ConnNext

(* The inductive invariant of the connections contains what the run        *)
(* checks.                                                                 *)
LEMMA ConnectionInvGives == ConnectionInv => ConnectionsSound
  <1> SUFFICES ASSUME ConnectionInv PROVE ConnectionsSound
    OBVIOUS
  <1>1. Cardinality(dialing) \in Nat /\ MaxWs \in Nat
    BY ConnectionSets, ConnectionsAssumption DEF ConnectionInv
  <1>2. WsOvershootBounded
    BY <1>1 DEF ConnectionInv, WsOvershootBounded, CountsExact
  <1> QED
    BY <1>2 DEF ConnectionInv, ConnectionsSound, AtMostOneLateAccept

-----------------------------------------------------------------------------
(* GatewayAuth.                                                            *)

(* The stages of the degraded mode, reached only where it is allowed. *)
Local == {"lookup", "mark", "fetch", "store", "again"}

(* A request that began after the revocation finds the session ended when  *)
(* it asks; the rest is the degraded mode.                                 *)
CheckInv(r) ==
  /\ check[r].after => ended
  /\ check[r].at \in Local => check[r].local /\ (check[r].soft \/ ~check[r].gated)
  /\ check[r].at = "admitted" /\ check[r].after =>
       check[r].local /\ (check[r].soft \/ ~check[r].gated) /\ ~check[r].expired

AuthInv == GatewayAuthTypeOK /\ \A r \in AuthRequests : CheckInv(r)

(* The gateway starts with no key set and no check under way. *)
LEMMA AuthInitInv == GatewayAuthInit => AuthInv
  <1> SUFFICES ASSUME GatewayAuthInit PROVE AuthInv
    OBVIOUS
  <1>1. NoCheck \in Checks /\ NoCheck.at = "idle" /\ ~NoCheck.after
    BY GatewayAuthAssumption DEF NoCheck, Checks
  <1>2. \A r \in AuthRequests : check[r] = NoCheck
    BY DEF GatewayAuthInit
  <1>3. \A r \in AuthRequests : CheckInv(r)
    BY <1>1, <1>2 DEF CheckInv, Local
  <1>4. jwks \in JwksCache /\ refresher \in [at : {"idle", "store"}, got : SUBSET SignKeys]
    BY DEF GatewayAuthInit, JwksCache
  <1>5. check \in [AuthRequests -> Checks]
    BY <1>1 DEF GatewayAuthInit
  <1> QED
    BY <1>3, <1>4, <1>5, GatewayAuthAssumption DEF AuthInv, GatewayAuthInit, GatewayAuthTypeOK

(* One check moves: it stays sound if its new state is. *)
LEMMA CheckMoves ==
  ASSUME AuthInv, NEW r \in AuthRequests, NEW n \in Checks, check' = [check EXCEPT ![r] = n],
         UNCHANGED <<auth, refresher>>, jwks' \in JwksCache,
         n.after => ended, n.at \in Local => n.local /\ (n.soft \/ ~n.gated),
         n.at = "admitted" /\ n.after => n.local /\ (n.soft \/ ~n.gated) /\ ~n.expired
  PROVE  AuthInv'
  <1>1. /\ check' \in [AuthRequests -> Checks] /\ check'[r] = n
        /\ \A s \in AuthRequests : s # r => check'[s] = check[s]
    BY DEF AuthInv, GatewayAuthTypeOK
  <1>2. \A s \in AuthRequests : CheckInv(s)'
    BY <1>1 DEF AuthInv, CheckInv, auth, Local
  <1>3. GatewayAuthTypeOK'
    BY <1>1 DEF AuthInv, GatewayAuthTypeOK, auth, Checks, JwksCache
  <1> QED
    BY <1>2, <1>3 DEF AuthInv

(* Nothing a check holds changes. *)
LEMMA ChecksKept ==
  ASSUME AuthInv, UNCHANGED check, ended => ended', GatewayAuthTypeOK'
  PROVE  AuthInv'
  BY DEF AuthInv, CheckInv, Local

(* Checks, refreshes, publications, revocations and failures of the        *)
(* server keep the invariant.                                              *)
LEMMA AuthStepInv ==
  ASSUME AuthInv, [GatewayAuthNext]_gatewayAuthVars
  PROVE  AuthInv'
  <1>1. /\ jwks \in JwksCache /\ published \subseteq SignKeys /\ dropped \subseteq SignKeys
        /\ check \in [AuthRequests -> Checks]
        /\ refresher \in [at : {"idle", "store"}, got : SUBSET SignKeys]
        /\ ended \in BOOLEAN
    BY DEF AuthInv, GatewayAuthTypeOK
  <1>2. \A K \in SUBSET SignKeys : Replaced(K) \in JwksCache
    BY <1>1 DEF Replaced, JwksCache
  <1>3. \A r \in AuthRequests : check[r] \in Checks
    BY <1>1
  <1>4. \A c \in Checks : /\ c.got \in SUBSET SignKeys /\ c.local \in BOOLEAN /\ c.gated \in BOOLEAN /\ c.soft \in BOOLEAN
                          /\ c.expired \in BOOLEAN /\ c.after \in BOOLEAN
    BY DEF Checks
  <1>5. CASE UNCHANGED gatewayAuthVars
    <2>1. GatewayAuthTypeOK'
      BY <1>1, <1>5 DEF GatewayAuthTypeOK, gatewayAuthVars, JwksCache, Checks
    <2> QED
      BY <1>5, <2>1, ChecksKept DEF gatewayAuthVars
  <1>6. CASE RefresherFetch \/ RefresherStore \/ TtlPasses \/ IntervalPasses
    <2>1. jwks' \in JwksCache
      BY <1>1, <1>2, <1>6 DEF RefresherFetch, RefresherStore, TtlPasses, IntervalPasses, JwksCache
    <2>2. refresher' \in [at : {"idle", "store"}, got : SUBSET SignKeys]
      BY <1>1, <1>6 DEF RefresherFetch, RefresherStore, TtlPasses, IntervalPasses
    <2>3. UNCHANGED <<auth, check>>
      BY <1>6 DEF RefresherFetch, RefresherStore, TtlPasses, IntervalPasses
    <2>4. GatewayAuthTypeOK'
      BY <1>1, <2>1, <2>2, <2>3 DEF GatewayAuthTypeOK, auth, JwksCache, Checks
    <2> QED
      BY <2>3, <2>4, ChecksKept DEF auth
  <1>7. CASE RevokeSession \/ \E k \in SignKeys : PublishKey(k) \/ DropKey(k)
    <2>1. /\ UNCHANGED <<jwks, check, refresher>> /\ ended' \in BOOLEAN
          /\ published' \subseteq SignKeys /\ dropped' \subseteq SignKeys /\ (ended => ended')
      BY <1>1, <1>7 DEF RevokeSession, PublishKey, DropKey
    <2>2. GatewayAuthTypeOK'
      BY <1>1, <2>1 DEF GatewayAuthTypeOK, JwksCache, Checks
    <2> QED
      BY <2>1, <2>2, ChecksKept
  <1>8. ASSUME NEW r \in AuthRequests, NEW a, check' = [check EXCEPT ![r].at = a],
               UNCHANGED <<auth, refresher>>, jwks' \in JwksCache,
               a \in {"mark", "fetch", "again"} => check[r].at \in Local,
               a \in {"mark", "fetch", "again", "admitted", "refused", "failed"},
               a = "admitted" => \/ check[r].at = "online" /\ ~ended
                                 \/ check[r].at \in Local /\ ~check[r].expired
        PROVE  AuthInv'
    <2> DEFINE n == [check[r] EXCEPT !.at = a]
    <2>1. n \in Checks /\ n.at = a /\ n.after = check[r].after /\ n.local = check[r].local
            /\ n.gated = check[r].gated /\ n.soft = check[r].soft /\ n.expired = check[r].expired
      BY <1>3, <1>8 DEF Checks
    <2>2. check' = [check EXCEPT ![r] = n]
      BY <1>8
    <2>3. CheckInv(r)
      BY DEF AuthInv
    <2> HIDE DEF n
    <2>4. n.after => ended
      BY <2>1, <2>3 DEF CheckInv
    <2>5. n.at \in Local => n.local /\ (n.soft \/ ~n.gated)
      BY <1>8, <2>1, <2>3 DEF CheckInv, Local
    <2>6. n.at = "admitted" /\ n.after => n.local /\ (n.soft \/ ~n.gated) /\ ~n.expired
      BY <1>8, <2>1, <2>3, <2>4 DEF CheckInv
    <2> QED
      BY <1>8, <2>1, <2>2, <2>4, <2>5, <2>6, CheckMoves
  <1>9. ASSUME NEW r \in AuthRequests, BeginCheck(r)
        PROVE  AuthInv'
    <2>1. PICK k \in SignKeys, x \in BOOLEAN, g \in BOOLEAN, s \in BOOLEAN :
            check' = [check EXCEPT ![r] = [NoCheck EXCEPT !.at = "online", !.kid = k, !.expired = x,
                                                          !.gated = g, !.soft = s, !.after = ended]]
      BY <1>9 DEF BeginCheck
    <2> DEFINE n == [NoCheck EXCEPT !.at = "online", !.kid = k, !.expired = x, !.gated = g, !.soft = s, !.after = ended]
    <2>2. n \in Checks /\ n.at = "online" /\ n.after = ended
      BY <1>1 DEF NoCheck, Checks
    <2>3. check' = [check EXCEPT ![r] = n]
      BY <2>1
    <2> HIDE DEF n
    <2>4. UNCHANGED <<auth, jwks, refresher>>
      BY <1>9 DEF BeginCheck
    <2> QED
      BY <1>1, <2>2, <2>3, <2>4, CheckMoves DEF Local
  <1>10. ASSUME NEW r \in AuthRequests, OnlineAnswer(r)
         PROVE  AuthInv'
    BY <1>1, <1>8, <1>10 DEF OnlineAnswer, Goto
  <1>11. ASSUME NEW r \in AuthRequests, OnlineError(r)
         PROVE  AuthInv'
    <2> DEFINE n == [check[r] EXCEPT !.at = IF FallbackAllowed(r) THEN "lookup" ELSE "failed", !.local = TRUE]
    <2>1. n \in Checks /\ n.at \in {"lookup", "failed"} /\ (n.at = "lookup" => (check[r].soft \/ ~check[r].gated))
            /\ n.after = check[r].after /\ n.local /\ n.gated = check[r].gated /\ n.soft = check[r].soft
      BY <1>3 DEF Checks, FallbackAllowed
    <2>2. check' = [check EXCEPT ![r] = n] /\ UNCHANGED <<auth, jwks, refresher>>
      BY <1>1, <1>11 DEF OnlineError
    <2>3. n.after => ended
      BY <2>1 DEF AuthInv, CheckInv
    <2> HIDE DEF n
    <2> QED
      BY <1>1, <2>1, <2>2, <2>3, CheckMoves DEF Local
  <1>12. ASSUME NEW r \in AuthRequests, LookupKey(r)
         PROVE  AuthInv'
    <2>1. PICK a \in {"mark", "again", "admitted", "failed"} :
            /\ check' = [check EXCEPT ![r].at = a]
            /\ a = "admitted" => ~check[r].expired
      BY <1>12 DEF LookupKey, Goto, Verified
    <2> QED
      BY <1>1, <1>8, <1>12, <2>1 DEF LookupKey, Local
  <1>13. ASSUME NEW r \in AuthRequests, MarkForced(r)
         PROVE  AuthInv'
    <2>1. jwks' \in JwksCache
      BY <1>1, <1>13 DEF MarkForced, JwksCache
    <2> QED
      BY <1>8, <1>13, <2>1 DEF MarkForced, Goto, Local
  <1>14. ASSUME NEW r \in AuthRequests, FetchKeys(r)
         PROVE  AuthInv'
    <2>0. UNCHANGED <<auth, jwks, refresher>> /\ check[r].at = "fetch"
      BY <1>14 DEF FetchKeys
    <2>1. CASE Goto(r, "failed")
      BY <1>1, <1>8, <2>0, <2>1 DEF Goto
    <2>2. CASE check' = [check EXCEPT ![r].at = "store", ![r].got = published]
      <3> DEFINE n == [check[r] EXCEPT !.at = "store", !.got = published]
      <3>1. n \in Checks /\ n.at = "store" /\ n.after = check[r].after /\ n.local = check[r].local
              /\ n.gated = check[r].gated /\ n.soft = check[r].soft
        BY <1>1, <1>3 DEF Checks
      <3>2. check' = [check EXCEPT ![r] = n]
        BY <1>1, <2>2
      <3>3. n.after => ended
        BY <3>1 DEF AuthInv, CheckInv
      <3>4. n.local /\ (n.soft \/ ~n.gated)
        BY <2>0, <3>1 DEF AuthInv, CheckInv, Local
      <3> HIDE DEF n
      <3> QED
        BY <1>1, <2>0, <3>1, <3>2, <3>3, <3>4, CheckMoves
    <2> QED
      BY <1>14, <2>1, <2>2 DEF FetchKeys
  <1>15. ASSUME NEW r \in AuthRequests, StoreKeys(r)
         PROVE  AuthInv'
    <2> DEFINE n == [check[r] EXCEPT !.at = "again", !.got = {}]
    <2>1. n \in Checks /\ n.at = "again" /\ n.after = check[r].after /\ n.local = check[r].local
            /\ n.gated = check[r].gated /\ n.soft = check[r].soft
      BY <1>3 DEF Checks
    <2>2. check' = [check EXCEPT ![r] = n] /\ UNCHANGED <<auth, refresher>> /\ check[r].at = "store"
      BY <1>1, <1>15 DEF StoreKeys
    <2>3. n.after => ended
      BY <2>1 DEF AuthInv, CheckInv
    <2>4. n.local /\ (n.soft \/ ~n.gated)
      BY <2>1, <2>2 DEF AuthInv, CheckInv, Local
    <2>5. jwks' \in JwksCache
      BY <1>2, <1>3, <1>4, <1>15 DEF StoreKeys
    <2> HIDE DEF n
    <2> QED
      BY <2>1, <2>2, <2>3, <2>4, <2>5, CheckMoves
  <1>16. ASSUME NEW r \in AuthRequests, LookupAgain(r)
         PROVE  AuthInv'
    <2>1. PICK a \in {"admitted", "failed"} :
            /\ check' = [check EXCEPT ![r].at = a]
            /\ a = "admitted" => ~check[r].expired
      BY <1>16 DEF LookupAgain, Goto, Verified
    <2> QED
      BY <1>1, <1>8, <1>16, <2>1 DEF LookupAgain, Local
  <1>17. ASSUME NEW r \in AuthRequests, EndCheck(r)
         PROVE  AuthInv'
    <2>1. NoCheck \in Checks /\ NoCheck.at = "idle" /\ ~NoCheck.after
      BY GatewayAuthAssumption DEF NoCheck, Checks
    <2>2. check' = [check EXCEPT ![r] = NoCheck] /\ UNCHANGED <<auth, jwks, refresher>>
      BY <1>17 DEF EndCheck
    <2> QED
      BY <1>1, <2>1, <2>2, CheckMoves DEF Local
  <1> QED
    BY <1>5, <1>6, <1>7, <1>9, <1>10, <1>11, <1>12, <1>13, <1>14, <1>15, <1>16, <1>17 DEF GatewayAuthNext

(* The inductive invariant of the checks contains what the run checks. *)
LEMMA AuthInvGives == AuthInv => RevocationSeen
  BY DEF AuthInv, CheckInv, RevocationSeen

-----------------------------------------------------------------------------
(* Connections: the UDP relay.                                             *)

Asked(c) == [src |-> c, kind |-> "ask", of |-> c]
Answered(c) == [src |-> UdpBackend, kind |-> "answer", of |-> c]

(* One question at a time: on its way, at the backend, or its answer on    *)
(* the way to the client that waits for it.                                *)
Serial ==
  \/ waitingFor = NoOne /\ atBackend = {} /\ datagrams = <<>>
  \/ waitingFor = NoOne /\ atBackend = {} /\ \E c \in UdpClients : datagrams = <<Asked(c)>>
  \/ waitingFor \in UdpClients /\ atBackend = {waitingFor} /\ datagrams = <<>>
  \/ waitingFor \in UdpClients /\ atBackend = {} /\ datagrams = <<Answered(waitingFor)>>

RelayInv ==
  /\ overlapped \in BOOLEAN
  /\ waitingFor # NoOne => IpAllowed(waitingFor)
  /\ \A h \in handed : IpAllowed(h.to)
  /\ ~overlapped => Serial /\ \A h \in handed : h.kind = "answer" /\ h.of = h.to

(* The UDP loop starts with nothing received and nothing owed. *)
LEMMA RelayInitInv == UdpInit => RelayInv
  BY DEF UdpInit, RelayInv, Serial

(* An inbox of one datagram. *)
LEMMA OneDatagram ==
  ASSUME NEW d
  PROVE  /\ Append(<<>>, d) = <<d>> /\ <<d>> # <<>> /\ Head(<<d>>) = d /\ Tail(<<d>>) = <<>>
  OBVIOUS

(* A step of the clients, the backend or the UDP loop keeps the            *)
(* invariant.                                                              *)
LEMMA RelayStepInv ==
  ASSUME RelayInv, [UdpNext]_udpVars
  PROVE  RelayInv'
  <1>1. overlapped \in BOOLEAN /\ (~overlapped => Serial)
    BY DEF RelayInv
  <1>2. NoOne \notin UdpClients /\ UdpBackend \notin UdpClients
    BY UdpAssumption
  <1>3. \A c : /\ Asked(c).src = c /\ Asked(c).kind = "ask" /\ Asked(c).of = c
               /\ Answered(c).kind = "answer" /\ Answered(c).of = c
    BY DEF Asked, Answered
  <1>4. \A c, e : Asked(c) = Asked(e) => c = e
    BY <1>3
  <1>5. CASE UNCHANGED udpVars
    BY <1>5 DEF udpVars, RelayInv, Serial, Answered, IpAllowed
  <1>6. ASSUME NEW c \in UdpClients, UdpAsk(c)
        PROVE  RelayInv'
    <2>1. /\ datagrams' = Append(datagrams, Asked(c)) /\ UNCHANGED <<waitingFor, atBackend, handed>>
          /\ overlapped' = (overlapped \/ waitingFor # NoOne \/ datagrams # <<>>)
      BY <1>6 DEF UdpAsk, Asked
    <2>2. overlapped' \in BOOLEAN
      BY <2>1
    <2>3. ~overlapped' => Serial'
      <3> SUFFICES ASSUME ~overlapped' PROVE Serial'
        OBVIOUS
      <3>1. ~overlapped /\ waitingFor = NoOne /\ datagrams = <<>>
        BY <1>1, <2>1
      <3>2. atBackend = {}
        BY <1>1, <1>2, <3>1, OneDatagram DEF Serial
      <3>3. datagrams' = <<Asked(c)>>
        BY <2>1, <3>1, OneDatagram
      <3> QED
        BY <2>1, <3>1, <3>2, <3>3 DEF Serial, Asked
    <2> QED
      BY <1>1, <2>1, <2>2, <2>3 DEF RelayInv, IpAllowed
  <1>7. ASSUME NEW c \in UdpClients, UdpBackendAnswers(c)
        PROVE  RelayInv'
    <2>1. /\ datagrams' = Append(datagrams, Answered(c)) /\ UNCHANGED <<waitingFor, handed, overlapped>>
          /\ c \in atBackend /\ atBackend' = atBackend \ {c}
      BY <1>7 DEF UdpBackendAnswers, Answered
    <2>2. ~overlapped => Serial'
      <3> SUFFICES ASSUME ~overlapped PROVE Serial'
        OBVIOUS
      <3>1. waitingFor \in UdpClients /\ atBackend = {waitingFor} /\ datagrams = <<>>
        BY <1>1, <2>1 DEF Serial
      <3>2. datagrams' = <<Answered(waitingFor)>> /\ atBackend' = {}
        BY <2>1, <3>1, OneDatagram
      <3> QED
        BY <2>1, <3>1, <3>2 DEF Serial, Answered
    <2> QED
      BY <2>1, <2>2 DEF RelayInv, IpAllowed
  <1>8. CASE UdpForward
    <2> DEFINE d == Head(datagrams)
    <2>1. /\ waitingFor = NoOne /\ datagrams # <<>> /\ datagrams' = Tail(datagrams) /\ waitingFor' = d.src
          /\ atBackend' = atBackend \cup (IF d.kind = "ask" THEN {d.of} ELSE {})
          /\ UNCHANGED <<asked, handed, overlapped>> /\ IpAllowed(d.src)
      BY <1>8 DEF UdpForward, UdpForwardUnchecked
    <2>2. ~overlapped => Serial'
      <3> SUFFICES ASSUME ~overlapped PROVE Serial'
        OBVIOUS
      <3>1. PICK c \in UdpClients : atBackend = {} /\ datagrams = <<Asked(c)>>
        BY <1>1, <1>2, <2>1 DEF Serial
      <3>2. datagrams' = <<>> /\ d = Asked(c)
        BY <2>1, <3>1, OneDatagram
      <3>3. waitingFor' = c /\ atBackend' = {c}
        BY <1>3, <2>1, <3>1, <3>2
      <3> QED
        BY <3>2, <3>3 DEF Serial
    <2> QED
      BY <2>1, <2>2 DEF RelayInv, IpAllowed
  <1>9. CASE UdpDrop
    <2>1. /\ waitingFor = NoOne /\ datagrams # <<>> /\ datagrams' = Tail(datagrams)
          /\ UNCHANGED <<waitingFor, atBackend, handed, overlapped>>
      BY <1>9 DEF UdpDrop
    <2>2. ~overlapped => Serial'
      <3> SUFFICES ASSUME ~overlapped PROVE Serial'
        OBVIOUS
      <3>1. PICK c \in UdpClients : atBackend = {} /\ datagrams = <<Asked(c)>>
        BY <1>1, <1>2, <2>1 DEF Serial
      <3>2. datagrams' = <<>>
        BY <2>1, <3>1, OneDatagram
      <3> QED
        BY <2>1, <3>1, <3>2 DEF Serial
    <2> QED
      BY <2>1, <2>2 DEF RelayInv, IpAllowed
  <1>10. CASE UdpAnswer
    <2> DEFINE d == Head(datagrams)
               n == [to |-> waitingFor, kind |-> d.kind, of |-> d.of]
    <2>1. /\ waitingFor # NoOne /\ datagrams # <<>> /\ datagrams' = Tail(datagrams)
          /\ handed' = handed \cup {n} /\ waitingFor' = NoOne /\ UNCHANGED <<atBackend, overlapped>>
      BY <1>10 DEF UdpAnswer, HandBack
    <2>2. n.to = waitingFor /\ n.kind = d.kind /\ n.of = d.of /\ IpAllowed(waitingFor)
      BY <2>1 DEF RelayInv
    <2>3. ASSUME ~overlapped
          PROVE  Serial' /\ n.kind = "answer" /\ n.of = n.to
      <3>1. waitingFor \in UdpClients /\ atBackend = {} /\ datagrams = <<Answered(waitingFor)>>
        BY <1>1, <2>1, <2>3 DEF Serial
      <3>2. datagrams' = <<>> /\ d = Answered(waitingFor)
        BY <2>1, <3>1, OneDatagram
      <3>3. Serial'
        BY <2>1, <3>1, <3>2 DEF Serial
      <3> QED
        BY <1>3, <2>2, <3>2, <3>3
    <2> HIDE DEF n
    <2> QED
      BY <2>1, <2>2, <2>3 DEF RelayInv, IpAllowed
  <1>11. CASE UdpGiveUp
    BY <1>11 DEF UdpGiveUp, RelayInv, IpAllowed
  <1> QED
    BY <1>5, <1>6, <1>7, <1>8, <1>9, <1>10, <1>11 DEF UdpNext

(* The inductive invariant of the relay contains what the run checks. *)
LEMMA RelayInvGives == RelayInv => RelaySound
  BY DEF RelayInv, RelaySound, OnlyAllowedAnswered, PairedWhenSerial

-----------------------------------------------------------------------------
(* WebhookOutbox.                                                          *)

Attempts == 0 .. MaxAttempts - 1
(* What a claim read: the attempts of the events that were due. *)
Readings == UNION {[D -> Attempts] : D \in SUBSET Events}
EventRecord == [state : {"none", "pending", "published"}, attempt : Attempts]
BatchRecord ==
  [at : {"event", "deliver"}, todo : Seq(Events), seen : Readings, hooks : SUBSET Hooks, allOk : BOOLEAN]

Delivering(w, e) == batch[w].at = "deliver" /\ Current(w) = e
Seen(w, e) == batch[w].seen[e]

(* A worker at work holds events that exist, each once, with a reading of  *)
(* each.                                                                   *)
BatchOK(b) ==
  /\ b \in BatchRecord /\ b.todo # <<>>
  /\ \A i \in DOMAIN b.todo : b.todo[i] \in DOMAIN b.seen
  /\ \A i, j \in DOMAIN b.todo : b.todo[i] = b.todo[j] => i = j

HookTypes ==
  /\ event \in [Events -> EventRecord]
  /\ hookOn \subseteq Hooks
  /\ panics \in Nat /\ panics <= MaxPanics
  /\ posts \in [Events \X Hooks -> 0 .. PostLimit]
  /\ batch \in [Workers -> {Asleep, Dead} \cup BatchRecord]
  /\ \A w \in Workers : batch[w] \in BatchRecord => BatchOK(batch[w])

(* Event e was posted to hook h once more than its attempts and the deaths *)
(* of workers account for: its last attempt published it, or is under way. *)
OneMore(e, h) ==
  \/ event[e].state = "published" /\ \A w \in Workers : ~Holds(w, e)
  \/ \E w \in Workers : Delivering(w, e) /\ h \notin batch[w].hooks

(* An event that was never shared has one holder, whose count is right. *)
OneHolder(e) ==
  /\ \A v, w \in Workers : Holds(v, e) /\ Holds(w, e) => v = w
  /\ \A w \in Workers : Holds(w, e) => Seen(w, e) = event[e].attempt
  /\ \A h \in Hooks : /\ posts[<<e, h>>] <= event[e].attempt + panics + 1
                      /\ OneMore(e, h) \/ posts[<<e, h>>] <= event[e].attempt + panics

(* An event that is not published yet, and that nobody flushed, was posted *)
(* to every hook as often as anybody believes.                             *)
TriedSoFar(e) ==
  /\ hookOn = Hooks
  /\ \A h \in Hooks : event[e].attempt <= posts[<<e, h>>]
  /\ \A w \in Workers : Holds(w, e) => \A h \in Hooks : Seen(w, e) <= posts[<<e, h>>]
  /\ \A w \in Workers : Delivering(w, e) => \A h \in Hooks \ batch[w].hooks :
       /\ Seen(w, e) + 1 <= posts[<<e, h>>]
       /\ batch[w].allOk => <<e, h>> \in accepted

Tried(e) == \A h \in Hooks : <<e, h>> \in accepted \/ posts[<<e, h>>] >= MaxAttempts

EventOK(e) ==
  /\ e \notin shared => OneHolder(e)
  /\ event[e].state # "published" /\ e \notin excused => TriedSoFar(e)
  /\ event[e].state = "published" /\ e \notin excused => Tried(e)

HookInv == HookTypes /\ \A e \in Events : EventOK(e)

(* What a worker has claimed: attempt counts of some events. *)
LEMMA ReadingsAre ==
  ASSUME NEW s \in Readings
  PROVE  DOMAIN s \subseteq Events /\ \A e \in DOMAIN s : s[e] \in Attempts
  BY DEF Readings

(* The limits of the webhook worker, as numbers. *)
LEMMA LimitsAre ==
  /\ MaxAttempts \in Nat /\ MaxAttempts > 0 /\ MaxPanics \in Nat /\ PostLimit \in Nat
  /\ PostLimit = MaxAttempts + MaxPanics + 1
  BY OutboxAssumption DEF PostLimit

(* A worker that holds something, and what it holds. *)
LEMMA HolderIs ==
  ASSUME HookTypes, NEW w \in Workers
  PROVE  /\ batch[w] \in BatchRecord <=> batch[w].at \in {"event", "deliver"}
         /\ batch[w] \in BatchRecord <=> batch[w] \notin {Asleep, Dead}
         /\ batch[w] \in BatchRecord =>
              /\ BatchOK(batch[w]) /\ batch[w].todo \in Seq(Events) /\ 1 \in DOMAIN batch[w].todo
              /\ Current(w) = batch[w].todo[1] /\ Current(w) \in Events /\ Holds(w, Current(w))
              /\ batch[w].hooks \subseteq Hooks /\ batch[w].allOk \in BOOLEAN
              /\ \A e : Holds(w, e) => e \in Events /\ e \in DOMAIN batch[w].seen /\ Seen(w, e) \in Attempts
         /\ batch[w] \notin BatchRecord => \A e : ~Holds(w, e) /\ ~Delivering(w, e)
         /\ \A e : Delivering(w, e) => Holds(w, e)
  <1>1. batch[w] \in {Asleep, Dead} \cup BatchRecord
    BY DEF HookTypes
  <1>2. Asleep.at = "asleep" /\ Dead.at = "dead"
    BY DEF Asleep, Dead
  <1>3. \A b \in BatchRecord : b.at \in {"event", "deliver"}
    BY DEF BatchRecord
  <1>4. (batch[w] \in BatchRecord <=> batch[w].at \in {"event", "deliver"})
          /\ (batch[w] \in BatchRecord <=> batch[w] \notin {Asleep, Dead})
    BY <1>1, <1>2, <1>3
  <1>5. ASSUME batch[w] \in BatchRecord
        PROVE  /\ BatchOK(batch[w]) /\ batch[w].todo \in Seq(Events) /\ 1 \in DOMAIN batch[w].todo
               /\ Current(w) = batch[w].todo[1] /\ Current(w) \in Events /\ Holds(w, Current(w))
               /\ batch[w].hooks \subseteq Hooks /\ batch[w].allOk \in BOOLEAN
               /\ \A e : Holds(w, e) => e \in Events /\ e \in DOMAIN batch[w].seen /\ Seen(w, e) \in Attempts
    <2>1. BatchOK(batch[w])
      BY <1>5 DEF HookTypes
    <2>2. /\ batch[w].todo \in Seq(Events) /\ batch[w].hooks \subseteq Hooks /\ batch[w].allOk \in BOOLEAN
          /\ batch[w].seen \in Readings
      BY <1>5 DEF BatchRecord
    <2>3. 1 \in DOMAIN batch[w].todo /\ Current(w) = batch[w].todo[1] /\ Current(w) \in Events
      BY <2>1, <2>2 DEF BatchOK, Current
    <2>4. Holds(w, Current(w))
      BY <1>4, <1>5, <2>3 DEF Holds
    <2>5. \A e : Holds(w, e) => e \in Events /\ e \in DOMAIN batch[w].seen /\ Seen(w, e) \in Attempts
      BY <2>1, <2>2, ReadingsAre DEF BatchOK, Holds, Seen
    <2> QED
      BY <2>1, <2>2, <2>3, <2>4, <2>5
  <1>6. ASSUME batch[w] \notin BatchRecord, NEW e
        PROVE  ~Holds(w, e) /\ ~Delivering(w, e)
    BY <1>1, <1>2, <1>6 DEF Holds, Delivering
  <1>7. ASSUME NEW e, Delivering(w, e)
        PROVE  Holds(w, e)
    BY <1>4, <1>5, <1>7 DEF Delivering
  <1> QED
    BY <1>4, <1>5, <1>6, <1>7

(* One worker moves; the others keep what they have. *)
LEMMA BatchMoves ==
  ASSUME HookTypes, NEW w \in Workers, NEW b, b \in {Asleep, Dead} \/ BatchOK(b),
         batch' = [batch EXCEPT ![w] = b]
  PROVE  /\ batch' \in [Workers -> {Asleep, Dead} \cup BatchRecord] /\ batch'[w] = b
         /\ \A v \in Workers : batch'[v] \in BatchRecord => BatchOK(batch'[v])
         /\ \A v \in Workers : v # w => batch'[v] = batch[v]
         /\ \A v \in Workers : \A e : v # w =>
              /\ Holds(v, e)' <=> Holds(v, e)
              /\ Delivering(v, e)' <=> Delivering(v, e)
              /\ Seen(v, e)' = Seen(v, e)
  <1>1. b \in {Asleep, Dead} \cup BatchRecord
    BY DEF BatchOK
  <1>2. batch \in [Workers -> {Asleep, Dead} \cup BatchRecord]
    BY DEF HookTypes
  <1>3. /\ batch' \in [Workers -> {Asleep, Dead} \cup BatchRecord] /\ batch'[w] = b
        /\ \A v \in Workers : v # w => batch'[v] = batch[v]
    BY <1>1, <1>2
  <1>4. Asleep \notin BatchRecord /\ Dead \notin BatchRecord
    <2>1. Asleep.at = "asleep" /\ Dead.at = "dead"
      BY DEF Asleep, Dead
    <2>2. \A c \in BatchRecord : c.at \in {"event", "deliver"}
      BY DEF BatchRecord
    <2> QED
      BY <2>1, <2>2
  <1>5. ASSUME NEW v \in Workers, batch'[v] \in BatchRecord
        PROVE  BatchOK(batch'[v])
    <2>1. CASE v = w
      BY <1>3, <1>4, <1>5, <2>1
    <2>2. CASE v # w
      BY <1>3, <1>5, <2>2 DEF HookTypes
    <2> QED
      BY <2>1, <2>2
  <1>6. ASSUME NEW v \in Workers, NEW e, v # w
        PROVE  /\ Holds(v, e)' <=> Holds(v, e)
               /\ Delivering(v, e)' <=> Delivering(v, e)
               /\ Seen(v, e)' = Seen(v, e)
    BY <1>3, <1>6 DEF Holds, Delivering, Seen, Current, Asleep, Dead
  <1> QED
    BY <1>3, <1>5, <1>6

(* What keeps an event sound: its counts stay or faults account for them,  *)
(* holders only go away, and deliveries go on from where they were.        *)
LEMMA HolderFrame ==
  ASSUME HookTypes, NEW e \in Events, OneHolder(e), HookTypes',
         event'[e].attempt = event[e].attempt, panics <= panics',
         \A h \in Hooks : posts'[<<e, h>>] = posts[<<e, h>>],
         \A w \in Workers : Holds(w, e)' => Holds(w, e) /\ Seen(w, e)' = Seen(w, e),
         \A h \in Hooks : OneMore(e, h) => OneMore(e, h)' \/ panics' = panics + 1
  PROVE  OneHolder(e)'
  <1>1. panics \in Nat /\ panics' \in Nat
    BY DEF HookTypes
  <1>2. event[e].attempt \in Nat
    BY LimitsAre DEF HookTypes, EventRecord, Attempts
  <1>3. \A h \in Hooks : posts[<<e, h>>] \in Nat
    BY LimitsAre DEF HookTypes
  <1>4. /\ \A v, w \in Workers : Holds(v, e)' /\ Holds(w, e)' => v = w
        /\ \A w \in Workers : Holds(w, e)' => Seen(w, e)' = event'[e].attempt
    BY DEF OneHolder
  <1>5. ASSUME NEW h \in Hooks
        PROVE  /\ posts'[<<e, h>>] <= event'[e].attempt + panics' + 1
               /\ OneMore(e, h)' \/ posts'[<<e, h>>] <= event'[e].attempt + panics'
    <2>1. /\ posts[<<e, h>>] <= event[e].attempt + panics + 1
          /\ OneMore(e, h) \/ posts[<<e, h>>] <= event[e].attempt + panics
      BY DEF OneHolder
    <2>2. posts'[<<e, h>>] <= event'[e].attempt + panics' + 1
      BY <1>1, <1>2, <1>3, <2>1
    <2>3. CASE OneMore(e, h)'
      BY <2>2, <2>3
    <2>4. CASE panics' = panics + 1
      BY <1>1, <1>2, <1>3, <2>1, <2>2, <2>4
    <2>5. CASE ~OneMore(e, h)
      BY <1>1, <1>2, <1>3, <2>1, <2>2, <2>5
    <2> QED
      BY <2>3, <2>4, <2>5
  <1> QED
    BY <1>4, <1>5 DEF OneHolder

(* An event stays tried so far when its attempt count stays and posts      *)
(* only grow.                                                              *)
LEMMA TriedFrame ==
  ASSUME HookTypes, NEW e \in Events, TriedSoFar(e), HookTypes', UNCHANGED hookOn,
         event'[e].attempt = event[e].attempt,
         \A h \in Hooks : posts[<<e, h>>] <= posts'[<<e, h>>],
         accepted \subseteq accepted',
         \A w \in Workers : Holds(w, e)' => Holds(w, e) /\ Seen(w, e)' = Seen(w, e),
         \A w \in Workers : Delivering(w, e)' =>
           /\ Delivering(w, e) /\ Seen(w, e)' = Seen(w, e)
           /\ batch'[w].hooks = batch[w].hooks /\ (batch'[w].allOk => batch[w].allOk)
  PROVE  TriedSoFar(e)'
  <1>1. \A h \in Hooks : posts[<<e, h>>] \in Nat /\ posts'[<<e, h>>] \in Nat
    BY LimitsAre DEF HookTypes
  <1>2. event[e].attempt \in Nat
    BY LimitsAre DEF HookTypes, EventRecord, Attempts
  <1>3. \A w \in Workers : Holds(w, e) => Seen(w, e) \in Nat
    BY HolderIs, LimitsAre DEF Attempts
  <1>4. \A w \in Workers : Delivering(w, e) => Holds(w, e)
    BY HolderIs
  <1> QED
    BY <1>1, <1>2, <1>3, <1>4 DEF TriedSoFar

(* A settled event stays tried when posts and acceptances only grow. *)
LEMMA WasTriedFrame ==
  ASSUME HookTypes, HookTypes', NEW e \in Events, Tried(e), accepted \subseteq accepted',
         \A h \in Hooks : posts[<<e, h>>] <= posts'[<<e, h>>]
  PROVE  Tried(e)'
  <1>1. \A h \in Hooks : posts[<<e, h>>] \in Nat /\ posts'[<<e, h>>] \in Nat
    BY LimitsAre DEF HookTypes
  <1> QED
    BY <1>1, LimitsAre DEF Tried

(* An event that a step of a worker is not about. *)
LEMMA EventFrame ==
  ASSUME HookTypes, HookTypes', NEW e \in Events, EventOK(e),
         shared \subseteq shared', excused \subseteq excused', accepted \subseteq accepted',
         panics <= panics', event'[e].attempt = event[e].attempt,
         event[e].state = "published" => event'[e].state = "published",
         event'[e].state = "published" => event[e].state = "published" \/ e \in excused',
         UNCHANGED hookOn \/ event'[e].state = "published" \/ e \in excused',
         \A h \in Hooks : posts'[<<e, h>>] = posts[<<e, h>>],
         \A w \in Workers : Holds(w, e)' => Holds(w, e) /\ Seen(w, e)' = Seen(w, e),
         \A w \in Workers : Delivering(w, e)' =>
           /\ Delivering(w, e) /\ Seen(w, e)' = Seen(w, e)
           /\ batch'[w].hooks = batch[w].hooks /\ (batch'[w].allOk => batch[w].allOk),
         \A h \in Hooks : OneMore(e, h) => OneMore(e, h)' \/ panics' = panics + 1
  PROVE  EventOK(e)'
  <1>1. \A h \in Hooks : posts[<<e, h>>] \in Nat
    BY LimitsAre DEF HookTypes
  <1>2. \A h \in Hooks : posts[<<e, h>>] <= posts'[<<e, h>>]
    BY <1>1
  <1>3. e \notin shared' => OneHolder(e)'
    BY HolderFrame DEF EventOK
  <1>4. event'[e].state # "published" /\ e \notin excused' => TriedSoFar(e)'
    BY <1>2, TriedFrame DEF EventOK
  <1>5. event'[e].state = "published" /\ e \notin excused' => Tried(e)'
    BY <1>2, WasTriedFrame DEF EventOK
  <1> QED
    BY <1>3, <1>4, <1>5 DEF EventOK

(* OneMore only looks at the state, the holders and the deliveries. *)
LEMMA OneMoreKept ==
  ASSUME NEW e, NEW h,
         event[e].state = "published" => event'[e].state = "published",
         \A w \in Workers : Holds(w, e)' => Holds(w, e),
         \A w \in Workers : Delivering(w, e) => Delivering(w, e)' /\ batch'[w].hooks \subseteq batch[w].hooks,
         OneMore(e, h)
  PROVE  OneMore(e, h)'
  BY DEF OneMore

(* Nothing a worker holds changes. *)
LEMMA SameBatch ==
  ASSUME UNCHANGED batch, NEW e
  PROVE  /\ \A w \in Workers : (Holds(w, e)' <=> Holds(w, e)) /\ Seen(w, e)' = Seen(w, e)
         /\ \A w \in Workers : Delivering(w, e)' <=> Delivering(w, e)
  BY DEF Holds, Seen, Delivering, Current, Asleep, Dead

(* A step that is not a worker's: enqueue, flush, a subscription. *)
LEMMA OutsideStep ==
  ASSUME HookInv, UNCHANGED <<batch, panics, posts, accepted, shared>>,
         event' \in [Events -> EventRecord], hookOn' \subseteq Hooks, excused \subseteq excused',
         \A e \in Events : /\ event'[e].attempt = event[e].attempt
                           /\ event[e].state = "published" => event'[e].state = "published"
                           /\ event'[e].state = "published" => event[e].state = "published" \/ e \in excused'
                           /\ UNCHANGED hookOn \/ event'[e].state = "published" \/ e \in excused'
  PROVE  HookInv'
  <1>1. HookTypes'
    BY ZenonT(40) DEF HookInv, HookTypes, EventRecord, Attempts, PostLimit, Asleep, Dead, BatchRecord, Readings, BatchOK
  <1>2. panics <= panics'
    BY DEF HookInv, HookTypes
  <1>3. ASSUME NEW e \in Events
        PROVE  EventOK(e)'
    <2>1. /\ \A w \in Workers : (Holds(w, e)' <=> Holds(w, e)) /\ Seen(w, e)' = Seen(w, e)
          /\ \A w \in Workers : Delivering(w, e)' <=> Delivering(w, e)
      BY SameBatch
    <2>2. \A h \in Hooks : OneMore(e, h) => OneMore(e, h)'
      BY <2>1, OneMoreKept
    <2>3. EventOK(e) /\ HookTypes
      BY DEF HookInv
    <2> QED
      BY <1>1, <1>2, <2>1, <2>2, <2>3, EventFrame
  <1> QED
    BY <1>1, <1>3 DEF HookInv

(* What happens outside the workers (a new event, a flush, a hook          *)
(* switched) keeps the invariant.                                          *)
LEMMA OutsideKeeps ==
  ASSUME HookInv, (\E e \in Events : Enqueue(e)) \/ OutboxFlush \/ (\E h \in Switched : SwitchHook(h))
  PROVE  HookInv'
  <1>1. event \in [Events -> EventRecord] /\ hookOn \subseteq Hooks
    BY DEF HookInv, HookTypes
  <1>2. \A r \in EventRecord : \A s \in {"none", "pending", "published"} :
          /\ [r EXCEPT !.state = s] \in EventRecord /\ [r EXCEPT !.state = s].state = s
          /\ [r EXCEPT !.state = s].attempt = r.attempt
    BY DEF EventRecord
  <1>3. ASSUME NEW e \in Events, Enqueue(e)
        PROVE  HookInv'
    <2> DEFINE r == [event[e] EXCEPT !.state = "pending"]
    <2>1. event[e].state = "none"
      BY <1>3 DEF Enqueue, NoEvent
    <2>2. r \in EventRecord /\ r.state = "pending" /\ r.attempt = event[e].attempt
      BY <1>1, <1>2
    <2>3. event' = [event EXCEPT ![e] = r] /\ UNCHANGED <<hookOn, batch, panics, posts, accepted, excused, shared>>
      BY <1>3 DEF Enqueue
    <2> HIDE DEF r
    <2>4. event' \in [Events -> EventRecord] /\ event'[e] = r /\ \A d \in Events : d # e => event'[d] = event[d]
      BY <1>1, <2>2, <2>3
    <2> QED
      BY <1>1, <2>1, <2>2, <2>3, <2>4, OutsideStep
  <1>4. CASE OutboxFlush
    <2>1. /\ event' = [e \in Events |-> IF e \in Due THEN [event[e] EXCEPT !.state = "published"] ELSE event[e]]
          /\ excused' = excused \cup Due
          /\ UNCHANGED <<hookOn, batch, panics, posts, accepted, shared>>
      BY <1>4 DEF OutboxFlush
    <2>2. \A e \in Events : /\ event'[e] \in EventRecord /\ event'[e].attempt = event[e].attempt
                            /\ e \in Due => event'[e].state = "published"
                            /\ e \notin Due => event'[e] = event[e]
      BY <1>1, <1>2, <2>1
    <2>3. event' \in [Events -> EventRecord]
      BY <2>1, <2>2
    <2> QED
      BY <1>1, <2>1, <2>2, <2>3, OutsideStep
  <1>5. ASSUME NEW h \in Switched, SwitchHook(h)
        PROVE  HookInv'
    <2>1. /\ hookOn' \subseteq Hooks /\ excused' = excused \cup {e \in Events : event[e].state # "published"}
          /\ UNCHANGED <<event, batch, panics, posts, accepted, shared>>
      BY <1>1, <1>5, OutboxAssumption DEF SwitchHook
    <2> QED
      BY <1>1, <2>1, OutsideStep
  <1> QED
    BY <1>3, <1>4, <1>5

(* The outbox starts empty and its workers idle. *)
LEMMA HookInitInv == WebhookInit => HookInv
  <1> SUFFICES ASSUME WebhookInit PROVE HookInv
    OBVIOUS
  <1>1. NoEvent \in EventRecord /\ NoEvent.state = "none" /\ NoEvent.attempt = 0
    BY LimitsAre DEF NoEvent, EventRecord, Attempts
  <1>2. \A e \in Events : event[e] = NoEvent
    BY DEF WebhookInit
  <1>3. \A w \in Workers : batch[w] = Asleep
    BY DEF WebhookInit
  <1>4. Asleep.at = "asleep" /\ Asleep \notin BatchRecord
    BY DEF Asleep, BatchRecord
  <1>5. HookTypes
    BY <1>1, <1>3, <1>4, LimitsAre DEF WebhookInit, HookTypes
  <1>6. \A w \in Workers : \A e : ~Holds(w, e) /\ ~Delivering(w, e)
    BY <1>3, <1>4 DEF Holds, Delivering
  <1>7. \A e \in Events, h \in Hooks : posts[<<e, h>>] = 0
    BY DEF WebhookInit
  <1>8. panics = 0 /\ hookOn = Hooks
    BY DEF WebhookInit
  <1>9. \A e \in Events : EventOK(e)
    BY <1>1, <1>2, <1>6, <1>7, <1>8 DEF EventOK, OneHolder, TriedSoFar
  <1> QED
    BY <1>5, <1>9 DEF HookInv

(* The inductive invariant of the outbox contains what the run checks. *)
LEMMA HookInvGives == HookInv => OutboxSound
  <1> SUFFICES ASSUME HookInv PROVE OutboxSound
    OBVIOUS
  <1>1. PostsBounded
    <2> SUFFICES ASSUME NEW e \in Events \ shared, NEW h \in Hooks
                 PROVE  posts[<<e, h>>] <= MaxAttempts + panics
      BY DEF PostsBounded
    <2>1. posts[<<e, h>>] <= event[e].attempt + panics + 1
      BY DEF HookInv, EventOK, OneHolder
    <2>2. event[e].attempt \in 0 .. MaxAttempts - 1 /\ panics \in Nat
      BY DEF HookInv, HookTypes, EventRecord, Attempts
    <2>3. posts[<<e, h>>] \in Nat
      BY LimitsAre DEF HookInv, HookTypes
    <2> QED
      BY <2>1, <2>2, <2>3, LimitsAre
  <1>2. PublishedWasTried
    BY DEF HookInv, EventOK, Tried, PublishedWasTried
  <1> QED
    BY <1>1, <1>2 DEF OutboxSound

(* The types after a step of worker w. *)
LEMMA WorkerTypes ==
  ASSUME HookTypes, NEW w \in Workers, NEW b, b \in {Asleep, Dead} \/ BatchOK(b),
         batch' = [batch EXCEPT ![w] = b], UNCHANGED hookOn,
         event' \in [Events -> EventRecord], panics' \in Nat, panics' <= MaxPanics,
         posts' \in [Events \X Hooks -> 0 .. PostLimit]
  PROVE  HookTypes'
  <1>1. /\ batch' \in [Workers -> {Asleep, Dead} \cup BatchRecord]
        /\ \A v \in Workers : batch'[v] \in BatchRecord => BatchOK(batch'[v])
    BY BatchMoves
  <1> QED
    BY <1>1 DEF HookTypes, EventRecord, Attempts, PostLimit, Asleep, Dead, BatchRecord, Readings, BatchOK

(* A worker drops what it holds. *)
LEMMA LetsGo ==
  ASSUME HookTypes, NEW w \in Workers, NEW b \in {Asleep, Dead}, batch' = [batch EXCEPT ![w] = b]
  PROVE  \A e : ~Holds(w, e)' /\ ~Delivering(w, e)'
  <1>1. batch'[w] = b
    BY BatchMoves
  <1>2. b.at \in {"asleep", "dead"}
    BY DEF Asleep, Dead
  <1> QED
    BY <1>1, <1>2 DEF Holds, Delivering, Asleep, Dead

(* A batch ends by a failed statement. *)
LEMMA BatchEnds ==
  ASSUME HookInv, NEW w \in Workers, BatchFails(w)
  PROVE  HookInv'
  <1>1. /\ batch' = [batch EXCEPT ![w] = Asleep] /\ UNCHANGED <<event, hookOn, posts, accepted, excused, shared>>
        /\ panics < MaxPanics /\ panics' = panics + 1
    BY DEF BatchFails
  <1>2. HookTypes /\ panics \in Nat /\ panics <= MaxPanics /\ MaxPanics \in Nat
    BY LimitsAre DEF HookInv, HookTypes
  <1>3. panics <= panics' /\ panics' \in Nat /\ panics' <= MaxPanics
    BY <1>1, <1>2
  <1>4. HookTypes'
    BY <1>1, <1>2, <1>3, WorkerTypes DEF HookTypes
  <1>5. ASSUME NEW e \in Events
        PROVE  EventOK(e)'
    <2>1. /\ ~Holds(w, e)' /\ ~Delivering(w, e)'
          /\ \A v \in Workers : v # w => /\ (Holds(v, e)' <=> Holds(v, e)) /\ Seen(v, e)' = Seen(v, e)
                                         /\ Delivering(v, e)' <=> Delivering(v, e)
                                         /\ batch'[v] = batch[v]
      BY <1>1, <1>2, LetsGo, BatchMoves
    <2>2. \A h \in Hooks : OneMore(e, h) => OneMore(e, h)' \/ panics' = panics + 1
      BY <1>1
    <2>3. EventOK(e)
      BY DEF HookInv
    <2> QED
      BY <1>1, <1>2, <1>3, <1>4, <2>1, <2>2, <2>3, EventFrame
  <1> QED
    BY <1>4, <1>5 DEF HookInv

(* claim_pending *)
LEMMA ClaimHolds ==
  ASSUME HookInv, NEW w \in Workers, Claim(w)
  PROVE  HookInv'
  <1>1. PICK order \in [1 .. Cardinality(Due) -> Due] :
          /\ \A i, j \in DOMAIN order : order[i] = order[j] => i = j
          /\ batch' = [batch EXCEPT ![w] =
               [at |-> "event", todo |-> order, seen |-> [e \in Due |-> event[e].attempt],
                hooks |-> {}, allOk |-> TRUE]]
    BY DEF Claim
  <1> DEFINE n == Cardinality(Due)
             s == [e \in Due |-> event[e].attempt]
             b == [at |-> "event", todo |-> order, seen |-> s, hooks |-> {}, allOk |-> TRUE]
  <1>2. /\ batch[w] = Asleep /\ Due # {} /\ UNCHANGED <<event, hookOn, panics, posts, accepted, excused>>
        /\ shared' = shared \cup {e \in Due : \E other \in Workers \ {w} : Holds(other, e)}
    BY DEF Claim
  <1>3. HookTypes /\ event \in [Events -> EventRecord]
    BY DEF HookInv, HookTypes
  <1>4. Due \subseteq Events /\ IsFiniteSet(Due) /\ n \in Nat /\ n # 0
    <2>1. Due \subseteq Events
      BY DEF Due
    <2> QED
      BY <1>2, <2>1, OutboxAssumption, FS_Subset, FS_CardinalityType, FS_EmptySet
  <1>5. s \in Readings /\ DOMAIN s = Due
    <2>1. \A e \in Due : event[e].attempt \in Attempts
      BY <1>3, <1>4 DEF EventRecord
    <2>2. s \in [Due -> Attempts]
      BY <2>1
    <2> QED
      BY <1>4, <2>2 DEF Readings
  <1>6. order \in Seq(Events) /\ order # <<>> /\ DOMAIN order = 1 .. n
    <2>1. order \in [1 .. n -> Events]
      BY <1>4
    <2>2. order \in Seq(Events) /\ DOMAIN order = 1 .. n
      BY <1>4, <2>1
    <2>3. 1 \in DOMAIN order
      BY <1>4, <2>2
    <2>4. order # <<>>
      <3>1. DOMAIN <<>> = {}
        OBVIOUS
      <3> QED
        BY <2>3, <3>1
    <2> QED
      BY <2>2, <2>4
  <1> HIDE DEF s
  <1>7. /\ b \in BatchRecord /\ b.at = "event" /\ b.todo = order /\ b.seen = s
    BY <1>5, <1>6 DEF BatchRecord
  <1>8. batch' = [batch EXCEPT ![w] = b]
    BY <1>1 DEF s
  <1> HIDE DEF b
  <1>9. BatchOK(b)
    BY <1>1, <1>5, <1>6, <1>7 DEF BatchOK
  <1>10. HookTypes'
    BY <1>2, <1>3, <1>8, <1>9, WorkerTypes DEF HookTypes
  <1>11. batch'[w] = b /\ \A v \in Workers : v # w => batch'[v] = batch[v]
    BY <1>3, <1>8, <1>9, BatchMoves
  <1>12. \A e : /\ ~Holds(w, e) /\ ~Delivering(w, e) /\ ~Delivering(w, e)'
                /\ Holds(w, e)' => e \in Due /\ Seen(w, e)' = event[e].attempt
    <2> TAKE e
    <2>1. ~Holds(w, e) /\ ~Delivering(w, e)
      BY <1>2 DEF Holds, Delivering, Asleep
    <2>2. ~Delivering(w, e)'
      BY <1>7, <1>11 DEF Delivering
    <2>3. ASSUME Holds(w, e)'
          PROVE  e \in Due /\ Seen(w, e)' = event[e].attempt
      <3>1. PICK i \in DOMAIN order : order[i] = e
        BY <1>7, <1>11, <2>3 DEF Holds
      <3>2. e \in Due
        BY <1>6, <3>1
      <3>3. Seen(w, e)' = s[e]
        BY <1>7, <1>11 DEF Seen
      <3> QED
        BY <3>2, <3>3 DEF s
    <2> QED
      BY <2>1, <2>2, <2>3
  <1>13. \A v \in Workers : \A e : v # w => /\ (Holds(v, e)' <=> Holds(v, e)) /\ Seen(v, e)' = Seen(v, e)
                                            /\ Delivering(v, e)' <=> Delivering(v, e)
    BY <1>3, <1>8, <1>9, BatchMoves
  <1>14. ASSUME NEW e \in Events
         PROVE  EventOK(e)'
    <2>1. EventOK(e)
      BY DEF HookInv
    <2>2. panics \in Nat /\ \A h \in Hooks : posts[<<e, h>>] \in Nat
      BY <1>3, LimitsAre DEF HookTypes
    <2>3. e \notin shared' => OneHolder(e)'
      <3> SUFFICES ASSUME e \notin shared' PROVE OneHolder(e)'
        OBVIOUS
      <3>1. OneHolder(e)
        BY <1>2, <2>1 DEF EventOK
      <3>2. Holds(w, e)' => \A v \in Workers : v # w => ~Holds(v, e)
        BY <1>2, <1>12
      <3>3. \A u, v \in Workers : Holds(u, e)' /\ Holds(v, e)' => u = v
        BY <1>13, <3>1, <3>2 DEF OneHolder
      <3>4. \A v \in Workers : Holds(v, e)' => Seen(v, e)' = event'[e].attempt
        BY <1>2, <1>12, <1>13, <3>1 DEF OneHolder
      <3>5. \A h \in Hooks : OneMore(e, h) => OneMore(e, h)'
        <4> SUFFICES ASSUME NEW h \in Hooks, OneMore(e, h) PROVE OneMore(e, h)'
          OBVIOUS
        <4>1. event[e].state = "published" => ~Holds(w, e)'
          BY <1>12 DEF Due
        <4>2. CASE event[e].state = "published" /\ \A v \in Workers : ~Holds(v, e)
          BY <1>2, <1>13, <4>1, <4>2 DEF OneMore
        <4>3. CASE \E v \in Workers : Delivering(v, e) /\ h \notin batch[v].hooks
          <5>1. PICK v \in Workers : Delivering(v, e) /\ h \notin batch[v].hooks
            BY <4>3
          <5>2. v # w
            BY <1>12, <5>1
          <5> QED
            BY <1>11, <1>13, <5>1, <5>2 DEF OneMore
        <4> QED
          BY <4>2, <4>3 DEF OneMore
      <3>6. \A h \in Hooks : /\ posts'[<<e, h>>] <= event'[e].attempt + panics' + 1
                             /\ OneMore(e, h)' \/ posts'[<<e, h>>] <= event'[e].attempt + panics'
        BY <1>2, <3>1, <3>5 DEF OneHolder
      <3> QED
        BY <3>3, <3>4, <3>6 DEF OneHolder
    <2>4. ASSUME event'[e].state # "published", e \notin excused'
          PROVE  TriedSoFar(e)'
      <3>1. TriedSoFar(e)
        BY <1>2, <2>1, <2>4 DEF EventOK
      <3>2. hookOn' = Hooks /\ \A h \in Hooks : event'[e].attempt <= posts'[<<e, h>>]
        BY <1>2, <3>1 DEF TriedSoFar
      <3>3. \A v \in Workers : Holds(v, e)' => \A h \in Hooks : Seen(v, e)' <= posts'[<<e, h>>]
        <4> SUFFICES ASSUME NEW v \in Workers, Holds(v, e)', NEW h \in Hooks
                     PROVE  Seen(v, e)' <= posts'[<<e, h>>]
          OBVIOUS
        <4>1. CASE v = w
          BY <1>2, <1>12, <3>2, <4>1
        <4>2. CASE v # w
          BY <1>2, <1>13, <3>1, <4>2 DEF TriedSoFar
        <4> QED
          BY <4>1, <4>2
      <3>4. \A v \in Workers : Delivering(v, e)' => \A h \in Hooks \ batch'[v].hooks :
              /\ Seen(v, e)' + 1 <= posts'[<<e, h>>]
              /\ batch'[v].allOk => <<e, h>> \in accepted'
        <4> SUFFICES ASSUME NEW v \in Workers, Delivering(v, e)', NEW h \in Hooks \ batch'[v].hooks
                     PROVE  /\ Seen(v, e)' + 1 <= posts'[<<e, h>>]
                            /\ batch'[v].allOk => <<e, h>> \in accepted'
          OBVIOUS
        <4>1. v # w
          BY <1>12
        <4> QED
          BY <1>2, <1>11, <1>13, <3>1, <4>1 DEF TriedSoFar
      <3> QED
        BY <3>2, <3>3, <3>4 DEF TriedSoFar
    <2>5. event'[e].state = "published" /\ e \notin excused' => Tried(e)'
      BY <1>2, <2>1 DEF EventOK, Tried
    <2> QED
      BY <2>3, <2>4, <2>5 DEF EventOK
  <1> QED
    BY <1>10, <1>14 DEF HookInv

(* The hooks of the current event are read. *)
LEMMA ReadHooksKeeps ==
  ASSUME HookInv, NEW w \in Workers, ReadHooks(w)
  PROVE  HookInv'
  <1> DEFINE b == [batch[w] EXCEPT !.at = "deliver", !.hooks = hookOn, !.allOk = TRUE]
             c == Current(w)
  <1>1. HookTypes /\ batch[w].at = "event" /\ UNCHANGED <<event, hookOn, panics, posts, accepted, excused, shared>>
    BY DEF HookInv, ReadHooks
  <1>2. batch[w] \in BatchRecord /\ BatchOK(batch[w]) /\ c \in Events /\ hookOn \subseteq Hooks
    BY <1>1, HolderIs DEF HookTypes
  <1>3. /\ b \in BatchRecord /\ b.at = "deliver" /\ b.todo = batch[w].todo /\ b.seen = batch[w].seen
        /\ b.hooks = hookOn
    BY <1>2 DEF BatchRecord
  <1>4. batch' = [batch EXCEPT ![w] = b]
    BY <1>1 DEF ReadHooks, HookTypes
  <1> HIDE DEF b
  <1>5. BatchOK(b)
    BY <1>2, <1>3 DEF BatchOK
  <1>6. HookTypes'
    BY <1>1, <1>4, <1>5, WorkerTypes DEF HookTypes
  <1>7. batch'[w] = b /\ \A v \in Workers : v # w => batch'[v] = batch[v]
    BY <1>1, <1>4, <1>5, BatchMoves
  <1>8. b.at # Asleep.at /\ b.at # Dead.at /\ batch[w].at # Asleep.at /\ batch[w].at # Dead.at
    BY <1>1, <1>3 DEF Asleep, Dead
  <1>9. \A v \in Workers : \A e : (Holds(v, e)' <=> Holds(v, e)) /\ Seen(v, e)' = Seen(v, e)
    <2>1. \A e : (Holds(w, e)' <=> Holds(w, e)) /\ Seen(w, e)' = Seen(w, e)
      BY <1>3, <1>7, <1>8 DEF Holds, Seen
    <2> QED
      BY <1>1, <1>4, <1>5, <2>1, BatchMoves
  <1>10. \A v \in Workers : \A e : v # w => (Delivering(v, e)' <=> Delivering(v, e))
    BY <1>1, <1>4, <1>5, BatchMoves
  <1>11. \A e : ~Delivering(w, e) /\ (Delivering(w, e)' <=> e = c)
    BY <1>1, <1>3, <1>7 DEF Delivering, Current
  <1>12. panics <= panics'
    BY <1>1 DEF HookTypes
  <1>13. ASSUME NEW e \in Events
         PROVE  EventOK(e)'
    <2>1. EventOK(e)
      BY DEF HookInv
    <2>2. \A h \in Hooks : OneMore(e, h) => OneMore(e, h)'
      <3> SUFFICES ASSUME NEW h \in Hooks, OneMore(e, h) PROVE OneMore(e, h)'
        OBVIOUS
      <3>1. \A v \in Workers : Delivering(v, e) => Delivering(v, e)' /\ batch'[v].hooks \subseteq batch[v].hooks
        BY <1>7, <1>10, <1>11
      <3> QED
        BY <1>1, <1>9, <3>1, OneMoreKept
    <2>3. CASE e # c
      BY <1>1, <1>6, <1>7, <1>9, <1>10, <1>11, <1>12, <2>1, <2>2, <2>3, EventFrame
    <2>4. CASE e = c
      <3>1. e \notin shared' => OneHolder(e)'
        BY <1>1, <1>6, <1>9, <1>12, <2>1, <2>2, HolderFrame DEF EventOK
      <3>2. ASSUME event'[e].state # "published", e \notin excused'
            PROVE  TriedSoFar(e)'
        <4>1. TriedSoFar(e)
          BY <1>1, <2>1, <3>2 DEF EventOK
        <4>2. hookOn = Hooks /\ Hooks \ batch'[w].hooks = {}
          BY <1>3, <1>7, <4>1 DEF TriedSoFar
        <4>3. \A v \in Workers : Holds(v, e)' => \A h \in Hooks : Seen(v, e)' <= posts'[<<e, h>>]
          BY <1>1, <1>9, <4>1 DEF TriedSoFar
        <4>4. \A v \in Workers : Delivering(v, e)' => \A h \in Hooks \ batch'[v].hooks :
                /\ Seen(v, e)' + 1 <= posts'[<<e, h>>]
                /\ batch'[v].allOk => <<e, h>> \in accepted'
          BY <1>1, <1>7, <1>9, <1>10, <4>1, <4>2 DEF TriedSoFar
        <4>5. \A h \in Hooks : event'[e].attempt <= posts'[<<e, h>>]
          BY <1>1, <4>1 DEF TriedSoFar
        <4> QED
          BY <1>1, <4>2, <4>3, <4>4, <4>5 DEF TriedSoFar
      <3>3. event'[e].state = "published" /\ e \notin excused' => Tried(e)'
        BY <1>1, <2>1 DEF EventOK, Tried
      <3> QED
        BY <3>1, <3>2, <3>3 DEF EventOK
    <2> QED
      BY <2>3, <2>4
  <1> QED
    BY <1>6, <1>13 DEF HookInv

(* One post. *)
LEMMA PostCounted ==
  ASSUME HookTypes, NEW c \in Events, NEW g \in Hooks,
         posts' = [posts EXCEPT ![<<c, g>>] = IF @ < PostLimit THEN @ + 1 ELSE @]
  PROVE  /\ posts' \in [Events \X Hooks -> 0 .. PostLimit]
         /\ \A e \in Events, h \in Hooks : posts[<<e, h>>] \in Nat /\ posts[<<e, h>>] <= posts'[<<e, h>>]
         /\ \A e \in Events, h \in Hooks : <<e, h>> # <<c, g>> => posts'[<<e, h>>] = posts[<<e, h>>]
         /\ posts'[<<c, g>>] <= posts[<<c, g>>] + 1
         /\ posts'[<<c, g>>] = posts[<<c, g>>] + 1 \/ posts'[<<c, g>>] = PostLimit
  <1> DEFINE p == <<c, g>>
             n == IF posts[p] < PostLimit THEN posts[p] + 1 ELSE posts[p]
  <1>1. posts \in [Events \X Hooks -> 0 .. PostLimit] /\ p \in Events \X Hooks /\ PostLimit \in Nat
    BY LimitsAre DEF HookTypes
  <1>2. posts' = [posts EXCEPT ![p] = n]
    BY <1>1
  <1>3. posts[p] \in 0 .. PostLimit
    BY <1>1
  <1>4. /\ n \in 0 .. PostLimit /\ posts[p] <= n /\ n <= posts[p] + 1
        /\ n = posts[p] + 1 \/ n = PostLimit
    BY <1>1, <1>3
  <1> HIDE DEF n, p
  <1>5. posts' \in [Events \X Hooks -> 0 .. PostLimit] /\ posts'[p] = n
    BY <1>1, <1>2, <1>4
  <1>6. \A q \in Events \X Hooks : q # p => posts'[q] = posts[q]
    BY <1>1, <1>2
  <1>7. \A q \in Events \X Hooks : posts[q] \in Nat /\ posts[q] <= posts'[q]
    <2> TAKE q \in Events \X Hooks
    <2>1. posts[q] \in 0 .. PostLimit
      BY <1>1
    <2> QED
      BY <1>1, <1>4, <1>5, <1>6, <2>1
  <1>8. \A e \in Events, h \in Hooks : <<e, h>> \in Events \X Hooks
    OBVIOUS
  <1> QED
    BY <1>4, <1>5, <1>6, <1>7, <1>8 DEF p

(* While its only holder delivers it and has not come to hook g, an event  *)
(* was posted there as often as its attempts and the faults say.           *)
LEMMA NotYetPosted ==
  ASSUME HookTypes, NEW e \in Events, OneHolder(e), NEW w \in Workers, Delivering(w, e),
         NEW g \in Hooks, g \in batch[w].hooks
  PROVE  posts[<<e, g>>] <= event[e].attempt + panics
  <1>1. Holds(w, e) /\ \A v \in Workers : Delivering(v, e) => v = w
    BY HolderIs DEF OneHolder
  <1>2. ~OneMore(e, g)
    BY <1>1 DEF OneMore
  <1> QED
    BY <1>2 DEF OneHolder

(* A post that is answered. *)
LEMMA DeliverHolds ==
  ASSUME HookInv, NEW w \in Workers, NEW g \in Hooks, NEW ok \in BOOLEAN, Deliver(w, g, ok)
  PROVE  HookInv'
  <1> DEFINE c == Current(w)
             b == [batch[w] EXCEPT !.hooks = batch[w].hooks \ {g}, !.allOk = batch[w].allOk /\ ok]
  <1>1. /\ HookTypes /\ batch[w].at = "deliver" /\ g \in batch[w].hooks
        /\ UNCHANGED <<event, hookOn, panics, excused, shared>>
        /\ posts' = [posts EXCEPT ![<<c, g>>] = IF @ < PostLimit THEN @ + 1 ELSE @]
        /\ accepted' = (IF ok THEN accepted \cup {<<c, g>>} ELSE accepted)
    BY DEF HookInv, Deliver
  <1>2. batch[w] \in BatchRecord /\ BatchOK(batch[w]) /\ c \in Events
    BY <1>1, HolderIs
  <1>3. /\ b \in BatchRecord /\ b.at = "deliver" /\ b.todo = batch[w].todo /\ b.seen = batch[w].seen
        /\ b.hooks = batch[w].hooks \ {g} /\ (b.allOk <=> batch[w].allOk /\ ok)
    <2>1. PICK k \in BOOLEAN : k = (batch[w].allOk /\ ok)
      OBVIOUS
    <2>2. batch[w].hooks \ {g} \in SUBSET Hooks
      BY <1>2 DEF BatchRecord
    <2>3. b = [batch[w] EXCEPT !.hooks = batch[w].hooks \ {g}, !.allOk = k]
      BY <2>1
    <2>4. /\ b \in BatchRecord /\ b.at = "deliver" /\ b.todo = batch[w].todo /\ b.seen = batch[w].seen
          /\ b.hooks = batch[w].hooks \ {g} /\ b.allOk = k
      BY <1>1, <1>2, <2>2, <2>3 DEF BatchRecord
    <2> QED
      BY <2>1, <2>4
  <1>4. batch' = [batch EXCEPT ![w] = b]
    BY <1>1 DEF Deliver, HookTypes
  <1> HIDE DEF b
  <1>5. BatchOK(b)
    BY <1>2, <1>3 DEF BatchOK
  <1>6. /\ posts' \in [Events \X Hooks -> 0 .. PostLimit]
        /\ \A e \in Events, h \in Hooks : posts[<<e, h>>] \in Nat /\ posts[<<e, h>>] <= posts'[<<e, h>>]
        /\ \A e \in Events, h \in Hooks : <<e, h>> # <<c, g>> => posts'[<<e, h>>] = posts[<<e, h>>]
        /\ posts'[<<c, g>>] <= posts[<<c, g>>] + 1
        /\ posts'[<<c, g>>] = posts[<<c, g>>] + 1 \/ posts'[<<c, g>>] = PostLimit
    BY <1>1, <1>2, PostCounted
  <1>7. HookTypes'
    BY <1>1, <1>4, <1>5, <1>6, WorkerTypes DEF HookTypes
  <1>8. batch'[w] = b /\ \A v \in Workers : v # w => batch'[v] = batch[v]
    BY <1>1, <1>4, <1>5, BatchMoves
  <1>9. b.at # Asleep.at /\ b.at # Dead.at /\ batch[w].at # Asleep.at /\ batch[w].at # Dead.at
    BY <1>1, <1>3 DEF Asleep, Dead
  <1>10. \A v \in Workers : \A e : /\ (Holds(v, e)' <=> Holds(v, e)) /\ Seen(v, e)' = Seen(v, e)
                                   /\ Delivering(v, e)' <=> Delivering(v, e)
    <2>1. \A e : /\ (Holds(w, e)' <=> Holds(w, e)) /\ Seen(w, e)' = Seen(w, e)
                 /\ Delivering(w, e)' <=> Delivering(w, e)
      BY <1>1, <1>3, <1>8, <1>9 DEF Holds, Seen, Delivering, Current
    <2> QED
      BY ZenonT(40), <1>1, <1>4, <1>5, <2>1, BatchMoves
  <1>11. panics <= panics' /\ panics \in Nat /\ accepted \subseteq accepted'
    BY <1>1 DEF HookTypes
  <1>12. \A v \in Workers : batch'[v].hooks \subseteq batch[v].hooks
    BY <1>3, <1>8
  <1>13. \A e : Delivering(w, e) <=> e = c
    BY <1>1 DEF Delivering
  <1>14. ASSUME NEW e \in Events
         PROVE  EventOK(e)'
    <2>1. EventOK(e)
      BY DEF HookInv
    <2>2. \A h \in Hooks : OneMore(e, h) => OneMore(e, h)'
      BY <1>1, <1>10, <1>12, OneMoreKept
    <2>3. CASE e # c
      <3>1. \A v \in Workers : Delivering(v, e)' => v # w
        BY <1>10, <1>13, <2>3
      <3>2. \A h \in Hooks : posts'[<<e, h>>] = posts[<<e, h>>]
        BY <1>6, <2>3
      <3> QED
        BY <1>1, <1>7, <1>8, <1>10, <1>11, <2>1, <2>2, <3>1, <3>2, EventFrame
    <2>4. CASE e = c
      <3>1. ASSUME e \notin shared'
            PROVE  OneHolder(e)'
        <4>1. OneHolder(e)
          BY <1>1, <2>1, <3>1 DEF EventOK
        <4>2. event[e].attempt \in Nat
          BY <1>1, LimitsAre DEF HookTypes, EventRecord, Attempts
        <4>3. posts[<<e, g>>] <= event[e].attempt + panics
          BY <1>1, <1>13, <2>4, <4>1, NotYetPosted
        <4>4. OneMore(e, g)'
          <5>1. Delivering(w, e)' /\ g \notin batch'[w].hooks
            BY <1>3, <1>8, <1>10, <1>13, <2>4
          <5> QED
            BY <5>1 DEF OneMore
        <4>5. ASSUME NEW h \in Hooks
              PROVE  /\ posts'[<<e, h>>] <= event'[e].attempt + panics' + 1
                     /\ OneMore(e, h)' \/ posts'[<<e, h>>] <= event'[e].attempt + panics'
          <5>1. CASE h = g
            <6>1. posts'[<<e, g>>] <= posts[<<e, g>>] + 1 /\ posts[<<e, g>>] \in Nat
              BY <1>6, <2>4
            <6>2. posts'[<<e, g>>] \in Nat
              BY <1>6, LimitsAre
            <6>3. posts'[<<e, g>>] <= event[e].attempt + panics + 1
              BY <1>11, <4>2, <4>3, <6>1, <6>2
            <6> QED
              BY <1>1, <4>4, <5>1, <6>3
          <5>2. CASE h # g
            <6>1. posts'[<<e, h>>] = posts[<<e, h>>]
              BY <1>6, <5>2
            <6> QED
              BY <1>1, <2>2, <4>1, <6>1 DEF OneHolder
          <5> QED
            BY <5>1, <5>2
        <4> QED
          BY <1>1, <1>10, <4>1, <4>5 DEF OneHolder
      <3>2. ASSUME event'[e].state # "published", e \notin excused'
            PROVE  TriedSoFar(e)'
        <4>1. TriedSoFar(e)
          BY <1>1, <2>1, <3>2 DEF EventOK
        <4>2. event[e].attempt \in Nat /\ \A v \in Workers : Holds(v, e) => Seen(v, e) \in 0 .. MaxAttempts - 1
          BY <1>1, HolderIs, LimitsAre DEF HookTypes, EventRecord, Attempts
        <4>3. \A h \in Hooks : /\ posts[<<e, h>>] \in Nat /\ posts'[<<e, h>>] \in Nat
                               /\ posts[<<e, h>>] <= posts'[<<e, h>>]
          BY <1>6, LimitsAre
        <4>4. hookOn' = Hooks /\ \A h \in Hooks : event'[e].attempt <= posts'[<<e, h>>]
          BY <1>1, <4>1, <4>2, <4>3 DEF TriedSoFar
        <4>5. \A v \in Workers : Holds(v, e)' => \A h \in Hooks : Seen(v, e)' <= posts'[<<e, h>>]
          BY <1>10, <4>1, <4>2, <4>3, LimitsAre DEF TriedSoFar
        <4>6. ASSUME NEW v \in Workers, Delivering(v, e)', NEW h \in Hooks \ batch'[v].hooks
              PROVE  /\ Seen(v, e)' + 1 <= posts'[<<e, h>>]
                     /\ batch'[v].allOk => <<e, h>> \in accepted'
          <5>1. Delivering(v, e) /\ Holds(v, e) /\ Seen(v, e)' = Seen(v, e) /\ Seen(v, e) \in 0 .. MaxAttempts - 1
            BY <1>1, <1>10, <4>2, <4>6, HolderIs
          <5>2. CASE h \notin batch[v].hooks
            <6>1. Seen(v, e) + 1 <= posts[<<e, h>>] /\ (batch[v].allOk => <<e, h>> \in accepted)
              BY <4>1, <5>1, <5>2 DEF TriedSoFar
            <6>2. batch'[v].allOk => batch[v].allOk
              BY <1>3, <1>8
            <6>3. Seen(v, e) + 1 <= posts'[<<e, h>>]
              BY <4>3, <5>1, <6>1, LimitsAre
            <6> QED
              BY <1>11, <5>1, <6>1, <6>2, <6>3
          <5>3. CASE h \in batch[v].hooks
            <6>1. v = w /\ h = g
              BY <1>3, <1>8, <4>6, <5>3
            <6>2. batch'[v].allOk => <<e, h>> \in accepted'
              BY <1>1, <1>3, <1>8, <2>4, <6>1
            <6>3. Seen(v, e) <= posts[<<e, h>>]
              BY <4>1, <5>1, <6>1 DEF TriedSoFar
            <6>4. posts'[<<e, h>>] = posts[<<e, h>>] + 1 \/ posts'[<<e, h>>] = PostLimit
              BY <1>6, <2>4, <6>1
            <6>5. Seen(v, e) + 1 <= posts'[<<e, h>>]
              BY <4>3, <5>1, <6>1, <6>3, <6>4, LimitsAre
            <6> QED
              BY <5>1, <6>2, <6>5
          <5> QED
            BY <5>2, <5>3
        <4> QED
          BY <4>4, <4>5, <4>6 DEF TriedSoFar
      <3>3. event'[e].state = "published" /\ e \notin excused' => Tried(e)'
        BY <1>1, <1>6, <1>7, <1>11, <2>1, WasTriedFrame DEF EventOK
      <3> QED
        BY <3>1, <3>2, <3>3 DEF EventOK
    <2> QED
      BY <2>3, <2>4
  <1> QED
    BY <1>7, <1>14 DEF HookInv

(* A post whose answer ends the worker. *)
LEMMA PanicHolds ==
  ASSUME HookInv, NEW w \in Workers, NEW g \in Hooks, DeliverPanics(w, g)
  PROVE  HookInv'
  <1> DEFINE c == Current(w)
  <1>1. /\ HookTypes /\ batch[w].at = "deliver" /\ g \in batch[w].hooks
        /\ UNCHANGED <<event, hookOn, accepted, excused, shared>>
        /\ posts' = [posts EXCEPT ![<<c, g>>] = IF @ < PostLimit THEN @ + 1 ELSE @]
        /\ panics < MaxPanics /\ panics' = panics + 1 /\ batch' = [batch EXCEPT ![w] = Dead]
    BY DEF HookInv, DeliverPanics
  <1>2. batch[w] \in BatchRecord /\ c \in Events
    BY <1>1, HolderIs
  <1>3. /\ posts' \in [Events \X Hooks -> 0 .. PostLimit]
        /\ \A e \in Events, h \in Hooks : posts[<<e, h>>] \in Nat /\ posts[<<e, h>>] <= posts'[<<e, h>>]
        /\ \A e \in Events, h \in Hooks : <<e, h>> # <<c, g>> => posts'[<<e, h>>] = posts[<<e, h>>]
        /\ posts'[<<c, g>>] <= posts[<<c, g>>] + 1
    BY <1>1, <1>2, PostCounted
  <1>4. panics \in Nat /\ panics' \in Nat /\ panics <= panics' /\ panics' <= MaxPanics
    BY <1>1, LimitsAre DEF HookTypes
  <1>5. HookTypes'
    BY <1>1, <1>3, <1>4, WorkerTypes DEF HookTypes
  <1>6. \A e : ~Holds(w, e)' /\ ~Delivering(w, e)'
    BY <1>1, LetsGo
  <1>7. \A v \in Workers : v # w => batch'[v] = batch[v] /\ \A e :
          /\ (Holds(v, e)' <=> Holds(v, e)) /\ Seen(v, e)' = Seen(v, e)
          /\ Delivering(v, e)' <=> Delivering(v, e)
    BY <1>1, BatchMoves
  <1>8. Delivering(w, c)
    BY <1>1 DEF Delivering
  <1>9. ASSUME NEW e \in Events
        PROVE  EventOK(e)'
    <2>1. EventOK(e)
      BY DEF HookInv
    <2>2. /\ \A v \in Workers : Holds(v, e)' => Holds(v, e) /\ Seen(v, e)' = Seen(v, e)
          /\ \A v \in Workers : Delivering(v, e)' =>
               /\ Delivering(v, e) /\ Seen(v, e)' = Seen(v, e)
               /\ batch'[v].hooks = batch[v].hooks /\ (batch'[v].allOk => batch[v].allOk)
      BY <1>6, <1>7
    <2>3. CASE e # c
      <3>1. \A h \in Hooks : posts'[<<e, h>>] = posts[<<e, h>>]
        BY <1>3, <2>3
      <3> QED
        BY <1>1, <1>4, <1>5, <2>1, <2>2, <3>1, EventFrame
    <2>4. CASE e = c
      <3>1. ASSUME e \notin shared'
            PROVE  OneHolder(e)'
        <4>1. OneHolder(e)
          BY <1>1, <2>1, <3>1 DEF EventOK
        <4>2. event[e].attempt \in Nat
          BY <1>1, LimitsAre DEF HookTypes, EventRecord, Attempts
        <4>3. posts[<<e, g>>] <= event[e].attempt + panics
          BY <1>1, <1>8, <2>4, <4>1, NotYetPosted
        <4>4. ASSUME NEW h \in Hooks
              PROVE  posts'[<<e, h>>] <= event'[e].attempt + panics' /\ posts'[<<e, h>>] \in Nat
          <5>0. posts'[<<e, h>>] \in Nat /\ posts[<<e, h>>] \in Nat
            BY <1>3, LimitsAre
          <5>1. CASE h = g
            BY <1>1, <1>3, <1>4, <2>4, <4>2, <4>3, <5>0, <5>1
          <5>2. CASE h # g
            <6>1. posts'[<<e, h>>] = posts[<<e, h>>]
              BY <1>3, <5>2
            <6>2. posts[<<e, h>>] <= event[e].attempt + panics + 1
              BY <4>1 DEF OneHolder
            <6> QED
              BY <1>1, <1>4, <4>2, <5>0, <6>1, <6>2
          <5> QED
            BY <5>1, <5>2
        <4>5. \A h \in Hooks : posts'[<<e, h>>] <= event'[e].attempt + panics' + 1
          BY <1>1, <1>4, <4>2, <4>4
        <4> QED
          BY <1>1, <2>2, <4>1, <4>4, <4>5 DEF OneHolder
      <3>2. event'[e].state # "published" /\ e \notin excused' => TriedSoFar(e)'
        BY <1>1, <1>3, <1>5, <2>1, <2>2, TriedFrame DEF EventOK
      <3>3. event'[e].state = "published" /\ e \notin excused' => Tried(e)'
        BY <1>1, <1>3, <1>5, <2>1, WasTriedFrame DEF EventOK
      <3> QED
        BY <3>1, <3>2, <3>3 DEF EventOK
    <2> QED
      BY <2>3, <2>4
  <1> QED
    BY <1>5, <1>9 DEF HookInv

(* On to the next event of the batch. *)
LEMMA NextMoves ==
  ASSUME HookTypes, NEW w \in Workers, batch[w] \in BatchRecord, batch' = [batch EXCEPT ![w] = Next1(w)]
  PROVE  /\ Next1(w) \in {Asleep, Dead} \/ BatchOK(Next1(w))
         /\ \A e : /\ Holds(w, e)' => Holds(w, e) /\ e # Current(w) /\ Seen(w, e)' = Seen(w, e)
                   /\ ~Delivering(w, e)'
  <1> DEFINE t == batch[w].todo
             b == [batch[w] EXCEPT !.at = "event", !.todo = Tail(t)]
  <1>1. /\ BatchOK(batch[w]) /\ t \in Seq(Events) /\ 1 \in DOMAIN t /\ Current(w) = t[1]
        /\ batch[w] \notin {Asleep, Dead}
    BY HolderIs
  <1>2. CASE Len(t) = 1
    <2>1. Next1(w) = Asleep
      BY <1>2 DEF Next1
    <2> QED
      BY <2>1, LetsGo
  <1>3. CASE Len(t) # 1
    <2>1. Next1(w) = b
      BY <1>3 DEF Next1
    <2>2. Tail(t) \in Seq(Events) /\ Tail(t) # <<>>
      <3>1. PICK n \in Nat : n = Len(t) /\ DOMAIN t = 1 .. n
        BY <1>1
      <3>2. n # 1
        BY <1>3, <3>1
      <3>3. 1 \in 1 .. n
        BY <1>1, <3>1
      <3>4. n >= 2
        BY <3>2, <3>3
      <3>5. Tail(t) \in Seq(Events) /\ DOMAIN Tail(t) = 1 .. (n - 1)
        BY <1>1, <3>1, <3>4
      <3>6. 1 \in DOMAIN Tail(t)
        BY <3>4, <3>5
      <3>7. DOMAIN <<>> = {}
        OBVIOUS
      <3> QED
        BY <3>5, <3>6, <3>7
    <2>3. \A i \in DOMAIN Tail(t) : i \in Nat /\ i + 1 \in DOMAIN t /\ i + 1 # 1 /\ Tail(t)[i] = t[i + 1]
      BY <1>1
    <2>4. b \in BatchRecord /\ b.at = "event" /\ b.todo = Tail(t) /\ b.seen = batch[w].seen
      BY <2>2 DEF BatchRecord
    <2> HIDE DEF b
    <2>5. /\ \A i \in DOMAIN t : t[i] \in DOMAIN batch[w].seen
          /\ \A i, j \in DOMAIN t : t[i] = t[j] => i = j
      BY <1>1 DEF BatchOK
    <2>6. \A i, j \in DOMAIN Tail(t) : Tail(t)[i] = Tail(t)[j] => i = j
      <3> SUFFICES ASSUME NEW i \in DOMAIN Tail(t), NEW j \in DOMAIN Tail(t), Tail(t)[i] = Tail(t)[j]
                   PROVE  i = j
        OBVIOUS
      <3>1. i + 1 = j + 1
        BY <2>3, <2>5
      <3> QED
        BY <2>3, <3>1
    <2>7. BatchOK(b)
      BY <2>2, <2>3, <2>4, <2>5, <2>6 DEF BatchOK
    <2>8. batch'[w] = b
      BY <2>1, <2>7, BatchMoves
    <2>9. ASSUME NEW e, Holds(w, e)'
          PROVE  Holds(w, e) /\ e # Current(w) /\ Seen(w, e)' = Seen(w, e)
      <3>1. PICK i \in DOMAIN Tail(t) : Tail(t)[i] = e
        BY <2>4, <2>8, <2>9 DEF Holds
      <3>2. i + 1 \in DOMAIN t /\ i + 1 # 1 /\ t[i + 1] = e
        BY <2>3, <3>1
      <3>3. Holds(w, e) /\ e # Current(w)
        BY <1>1, <2>5, <3>2 DEF Holds
      <3>4. Seen(w, e)' = Seen(w, e)
        BY <2>4, <2>8 DEF Seen
      <3> QED
        BY <3>3, <3>4
    <2>10. \A e : ~Delivering(w, e)'
      BY <2>4, <2>8 DEF Delivering
    <2> QED
      BY <2>1, <2>7, <2>9, <2>10
  <1> QED
    BY <1>2, <1>3

(* After the last hook: published, given up, or to be retried. *)
LEMMA SettleHolds ==
  ASSUME HookInv, NEW w \in Workers, Settle(w)
  PROVE  HookInv'
  <1> DEFINE c == Current(w)
             a == Seen(w, c) + 1
  <1>1. /\ HookTypes /\ batch[w].at = "deliver" /\ batch[w].hooks = {}
        /\ UNCHANGED <<hookOn, panics, posts, accepted, excused, shared>>
        /\ batch' = [batch EXCEPT ![w] = Next1(w)]
        /\ \/ (batch[w].allOk \/ a >= MaxAttempts) /\ event' = [event EXCEPT ![c].state = "published"]
           \/ a < MaxAttempts /\ event' = [event EXCEPT ![c].attempt = a]
    <2>1. HookTypes /\ batch[w].at = "deliver" /\ batch[w].hooks = {}
            /\ UNCHANGED <<hookOn, panics, posts, accepted, excused, shared>>
      BY DEF HookInv, Settle
    <2>2. batch[w] \in BatchRecord /\ Holds(w, c)
      BY <2>1, HolderIs
    <2>3. a \in Nat
      BY <2>1, <2>2, HolderIs, LimitsAre DEF Attempts
    <2>4. CASE batch[w].allOk \/ a >= MaxAttempts
      BY <2>1, <2>4 DEF Settle, Publish, AllDelivered, Seen
    <2>5. CASE ~(batch[w].allOk \/ a >= MaxAttempts)
      <3>1. a < MaxAttempts
        BY <2>3, <2>5, LimitsAre
      <3> QED
        BY <2>1, <2>5, <3>1 DEF Settle, Retry, AllDelivered, Seen
    <2> QED
      BY <2>4, <2>5
  <1>2. batch[w] \in BatchRecord /\ c \in Events /\ Holds(w, c) /\ Delivering(w, c) /\ Seen(w, c) \in Attempts
    BY <1>1, HolderIs DEF Delivering
  <1>3. /\ Next1(w) \in {Asleep, Dead} \/ BatchOK(Next1(w))
        /\ \A e : /\ Holds(w, e)' => Holds(w, e) /\ e # c /\ Seen(w, e)' = Seen(w, e)
                  /\ ~Delivering(w, e)'
    BY <1>1, <1>2, NextMoves
  <1>4. \A v \in Workers : v # w => batch'[v] = batch[v] /\ \A e :
          /\ (Holds(v, e)' <=> Holds(v, e)) /\ Seen(v, e)' = Seen(v, e)
          /\ Delivering(v, e)' <=> Delivering(v, e)
    BY <1>1, <1>3, BatchMoves
  <1>5. a \in Nat /\ (a < MaxAttempts => a \in Attempts)
    BY <1>2, LimitsAre DEF Attempts
  <1>6. event[c] \in EventRecord /\ event \in [Events -> EventRecord]
    BY <1>1, <1>2 DEF HookTypes
  <1>7. /\ event' \in [Events -> EventRecord] /\ \A e \in Events : e # c => event'[e] = event[e]
        /\ \/ (batch[w].allOk \/ a >= MaxAttempts) /\ event'[c].state = "published"
                /\ event'[c].attempt = event[c].attempt
           \/ a < MaxAttempts /\ event'[c].attempt = a /\ event'[c].state = event[c].state
    <2> DEFINE p == [event[c] EXCEPT !.state = "published"]
               q == [event[c] EXCEPT !.attempt = a]
    <2>1. p \in EventRecord /\ p.state = "published" /\ p.attempt = event[c].attempt
      BY <1>6 DEF EventRecord
    <2>2. a < MaxAttempts => q \in EventRecord /\ q.attempt = a /\ q.state = event[c].state
      BY <1>5, <1>6 DEF EventRecord
    <2>3. \/ (batch[w].allOk \/ a >= MaxAttempts) /\ event' = [event EXCEPT ![c] = p]
          \/ a < MaxAttempts /\ event' = [event EXCEPT ![c] = q]
      BY <1>1
    <2> HIDE DEF p, q, a
    <2> QED
      BY <1>2, <1>6, <2>1, <2>2, <2>3
  <1>8. panics \in Nat /\ panics' \in Nat /\ panics <= panics' /\ panics' <= MaxPanics
    BY <1>1 DEF HookTypes
  <1>9. HookTypes'
    BY <1>1, <1>3, <1>7, <1>8, WorkerTypes DEF HookTypes
  <1>10. ASSUME NEW e \in Events
         PROVE  EventOK(e)'
    <2>1. EventOK(e)
      BY DEF HookInv
    <2>2. \A h \in Hooks : posts[<<e, h>>] \in Nat
      BY <1>1, LimitsAre DEF HookTypes
    <2>3. CASE e # c
      <3>1. ~Delivering(w, e)
        BY <2>3 DEF Delivering
      <3>2. \A v \in Workers : Delivering(v, e) => Delivering(v, e)' /\ batch'[v].hooks \subseteq batch[v].hooks
        BY <1>4, <3>1
      <3>3. \A v \in Workers : Holds(v, e)' => Holds(v, e) /\ Seen(v, e)' = Seen(v, e)
        BY <1>3, <1>4
      <3>4. \A h \in Hooks : OneMore(e, h) => OneMore(e, h)'
        BY <1>7, <2>3, <3>2, <3>3, OneMoreKept
      <3>5. \A v \in Workers : Delivering(v, e)' =>
              /\ Delivering(v, e) /\ Seen(v, e)' = Seen(v, e)
              /\ batch'[v].hooks = batch[v].hooks /\ (batch'[v].allOk => batch[v].allOk)
        BY <1>3, <1>4
      <3>6. event'[e] = event[e]
        BY <1>7, <2>3
      <3> QED
        BY <1>1, <1>8, <1>9, <2>1, <3>3, <3>4, <3>5, <3>6, EventFrame
    <2>4. CASE e = c
      <3>0. event[e].attempt \in Nat
        BY <1>1, LimitsAre DEF HookTypes, EventRecord, Attempts
      <3>1. ASSUME e \notin shared'
            PROVE  OneHolder(e)'
        <4>1. OneHolder(e)
          BY <1>1, <2>1, <3>1 DEF EventOK
        <4>2. \A v \in Workers : ~Holds(v, e)'
          BY <1>2, <1>3, <1>4, <2>4, <4>1 DEF OneHolder
        <4>3. a = event[e].attempt + 1
          BY <1>2, <2>4, <4>1 DEF OneHolder
        <4>4. \A h \in Hooks : posts[<<e, h>>] <= event[e].attempt + panics + 1
          BY <4>1 DEF OneHolder
        <4>5. CASE event'[e].attempt = event[e].attempt /\ event'[e].state = "published"
          BY <1>1, <4>2, <4>4, <4>5 DEF OneHolder, OneMore
        <4>6. CASE event'[e].attempt = a
          <5>1. ASSUME NEW h \in Hooks
                PROVE  /\ posts'[<<e, h>>] <= event'[e].attempt + panics' + 1
                       /\ posts'[<<e, h>>] <= event'[e].attempt + panics'
            <6>1. posts[<<e, h>>] <= event[e].attempt + panics + 1 /\ posts[<<e, h>>] \in Nat
              BY <2>2, <4>4
            <6>2. event'[e].attempt = event[e].attempt + 1
              BY <4>3, <4>6
            <6> QED
              BY <1>1, <1>8, <3>0, <6>1, <6>2
          <5> QED
            BY <4>2, <5>1 DEF OneHolder
        <4> QED
          BY <1>7, <2>4, <4>5, <4>6
      <3>2. ASSUME event[e].state # "published", e \notin excused
            PROVE  /\ \A h \in Hooks : a <= posts[<<e, h>>] /\ (batch[w].allOk => <<e, h>> \in accepted)
                   /\ TriedSoFar(e)
        <4>1. TriedSoFar(e)
          BY <2>1, <3>2 DEF EventOK
        <4>2. Hooks \ batch[w].hooks = Hooks
          BY <1>1
        <4> QED
          BY <1>2, <2>4, <4>1, <4>2 DEF TriedSoFar
      <3>3. ASSUME event'[e].state # "published", e \notin excused'
            PROVE  TriedSoFar(e)'
        <4>1. event[e].state # "published" /\ e \notin excused /\ event'[e].attempt = a
          BY <1>1, <1>7, <2>4, <3>3
        <4>2. TriedSoFar(e) /\ \A h \in Hooks : a <= posts[<<e, h>>]
          BY <3>2, <4>1
        <4>3. \A v \in Workers : Holds(v, e)' => v # w /\ Holds(v, e) /\ Seen(v, e)' = Seen(v, e)
          BY <1>3, <1>4, <2>4
        <4>4. \A v \in Workers : Delivering(v, e)' =>
                v # w /\ Delivering(v, e) /\ Seen(v, e)' = Seen(v, e) /\ batch'[v] = batch[v]
          BY <1>3, <1>4
        <4>5. hookOn' = Hooks /\ \A h \in Hooks : event'[e].attempt <= posts'[<<e, h>>]
          BY <1>1, <4>1, <4>2 DEF TriedSoFar
        <4>6. \A v \in Workers : Holds(v, e)' => \A h \in Hooks : Seen(v, e)' <= posts'[<<e, h>>]
          BY <1>1, <4>2, <4>3 DEF TriedSoFar
        <4>7. \A v \in Workers : Delivering(v, e)' => \A h \in Hooks \ batch'[v].hooks :
                /\ Seen(v, e)' + 1 <= posts'[<<e, h>>]
                /\ batch'[v].allOk => <<e, h>> \in accepted'
          BY <1>1, <4>2, <4>4 DEF TriedSoFar
        <4> QED
          BY <4>5, <4>6, <4>7 DEF TriedSoFar
      <3>4. ASSUME event'[e].state = "published", e \notin excused'
            PROVE  Tried(e)'
        <4>1. CASE event[e].state = "published"
          BY <1>1, <2>1, <3>4, <4>1 DEF EventOK, Tried
        <4>2. CASE event[e].state # "published"
          <5>1. batch[w].allOk \/ a >= MaxAttempts
            BY <1>7, <2>4, <3>4, <4>2
          <5>2. \A h \in Hooks : a <= posts[<<e, h>>] /\ (batch[w].allOk => <<e, h>> \in accepted)
            BY <1>1, <3>2, <3>4, <4>2
          <5>3. \A h \in Hooks : <<e, h>> \in accepted \/ posts[<<e, h>>] >= MaxAttempts
            BY <1>5, <2>2, <5>1, <5>2, LimitsAre
          <5> QED
            BY <1>1, <5>3 DEF Tried
        <4> QED
          BY <4>1, <4>2
      <3> QED
        BY <3>1, <3>3, <3>4 DEF EventOK
    <2> QED
      BY <2>3, <2>4
  <1> QED
    BY <1>9, <1>10 DEF HookInv

(* Every step of the workers and around them keeps the invariant of the    *)
(* outbox.                                                                 *)
LEMMA HookStepInv ==
  ASSUME HookInv, [WebhookNext]_webhookVars
  PROVE  HookInv'
  <1>1. CASE UNCHANGED webhookVars
    BY <1>1, OutsideStep DEF webhookVars, HookInv, HookTypes
  <1>2. CASE \E w \in Workers : WorkerStep(w) \/ BatchFails(w)
    BY <1>2, ClaimHolds, ReadHooksKeeps, SettleHolds, DeliverHolds, BatchEnds DEF WorkerStep
  <1>3. CASE \E w \in Workers, h \in Hooks : DeliverPanics(w, h)
    BY <1>3, PanicHolds
  <1> QED
    BY <1>1, <1>2, <1>3, OutsideKeeps DEF WebhookNext

-----------------------------------------------------------------------------
(* RateLimiter.                                                            *)

(* The requests of the window that is open, and those before it. *)
InWindow(w, h) == {e \in h : e[1] <= w.age}
BeforeWindow(w, h) == {e \in h : e[1] > w.age}

(* While a window is open its own requests are counted and within the      *)
(* limit, and so are those before it.  Once it is over, or there is none,  *)
(* what is still remembered is the last window's, from an earlier tick.    *)
WindowInv(w, h, limit) ==
  /\ w \in Windows(limit) /\ h \in History /\ IsFiniteSet(h)
  /\ IF w.there /\ w.age < Window
     THEN /\ Cardinality(InWindow(w, h)) <= w.count /\ Cardinality(InWindow(w, h)) <= limit
          /\ Cardinality(BeforeWindow(w, h)) <= limit
     ELSE Cardinality(h) <= limit /\ \A e \in h : e[1] >= 1

(* Both parts of a history, in the window and before it, are finite. *)
LEMMA PartsFinite ==
  ASSUME NEW w, NEW h, IsFiniteSet(h)
  PROVE  /\ IsFiniteSet(InWindow(w, h)) /\ IsFiniteSet(BeforeWindow(w, h))
         /\ Cardinality(InWindow(w, h)) \in Nat /\ Cardinality(BeforeWindow(w, h)) \in Nat
         /\ Cardinality(h) \in Nat
  <1>1. InWindow(w, h) \in SUBSET h /\ BeforeWindow(w, h) \in SUBSET h
    BY DEF InWindow, BeforeWindow
  <1>2. IsFiniteSet(InWindow(w, h)) /\ IsFiniteSet(BeforeWindow(w, h))
    BY <1>1, FS_Subset
  <1> QED
    BY <1>2, FS_CardinalityType

(* The invariant gives the bound of any period as long as a window. *)
LEMMA WindowBound ==
  ASSUME NEW w, NEW h, NEW limit \in Nat, WindowInv(w, h, limit)
  PROVE  Cardinality(h) <= 2 * limit
  <1>1. IsFiniteSet(h) /\ h \in History /\ w \in Windows(limit)
    BY DEF WindowInv
  <1>2. PICK a, b, c : a = Cardinality(InWindow(w, h)) /\ b = Cardinality(BeforeWindow(w, h)) /\ c = Cardinality(h)
    OBVIOUS
  <1>3. a \in Nat /\ b \in Nat /\ c \in Nat
    BY <1>1, <1>2, PartsFinite
  <1>4. CASE w.there /\ w.age < Window
    <2>1. w.age \in Nat /\ \A e \in h : e[1] \in Nat
      BY <1>1, LimiterAssumption DEF Windows, MaxAge, History, Ages
    <2>2. h = InWindow(w, h) \cup BeforeWindow(w, h) /\ InWindow(w, h) \cap BeforeWindow(w, h) = {}
      BY <2>1 DEF InWindow, BeforeWindow
    <2>3. c = a + b - Cardinality({})
      BY <1>1, <1>2, <2>2, PartsFinite, FS_Union
    <2>4. c = a + b
      BY <1>3, <2>3, FS_EmptySet
    <2>5. a <= limit /\ b <= limit
      BY <1>2, <1>4 DEF WindowInv
    <2> QED
      BY <1>2, <1>3, <2>4, <2>5
  <1>5. CASE ~(w.there /\ w.age < Window)
    <2>1. c <= limit
      BY <1>2, <1>5 DEF WindowInv
    <2> QED
      BY <1>2, <1>3, <2>1
  <1> QED
    BY <1>4, <1>5

(* Add adds one event. *)
LEMMA AddOne ==
  ASSUME NEW h \in History, IsFiniteSet(h)
  PROVE  /\ Add(h) = h \cup {<<0, NextNumber(h)>>} /\ <<0, NextNumber(h)>> \notin h
         /\ Add(h) \in History /\ IsFiniteSet(Add(h))
  <1>1. PICK c \in Nat : c = Cardinality(h)
    BY FS_CardinalityType
  <1>2. \E n \in 0 .. c : <<0, n>> \notin h
    <2> SUFFICES ASSUME \A n \in 0 .. c : <<0, n>> \in h PROVE FALSE
      OBVIOUS
    <2> DEFINE f == [n \in 0 .. c |-> <<0, n>>]
    <2>1. f \in [0 .. c -> h] /\ \A n, m \in 0 .. c : f[n] = f[m] => n = m
      OBVIOUS
    <2>2. f \in Injection(0 .. c, h)
      BY <2>1 DEF Injection, IsInjective
    <2>3. Cardinality(0 .. c) <= Cardinality(h)
      BY <2>2, FS_Injection
    <2>4. Cardinality(0 .. c) = c + 1
      BY FS_Interval
    <2> QED
      BY <1>1, <2>3, <2>4
  <1>3. NextNumber(h) \in 0 .. c /\ <<0, NextNumber(h)>> \notin h
    BY <1>1, <1>2 DEF NextNumber
  <1>4. <<0, NextNumber(h)>> \in Ages \X Nat
    BY <1>3, LimiterAssumption DEF Ages
  <1> QED
    BY <1>3, <1>4, FS_AddElement DEF Add, History

(* Time makes no more events. *)
LEMMA ShiftFewer ==
  ASSUME NEW h \in History, IsFiniteSet(h)
  PROVE  /\ Shift(h) \in History /\ IsFiniteSet(Shift(h))
         /\ \A e \in Shift(h) : e[1] >= 1
         /\ \A T \in SUBSET Shift(h), B \in SUBSET h :
              (\A e \in T : <<e[1] - 1, e[2]>> \in B) => Cardinality(T) <= Cardinality(B)
  <1>1. \A e \in h : e \in Ages \X Nat
    BY DEF History
  <1>2. \A e \in Shift(h) : /\ e \in Ages \X Nat /\ e[1] >= 1 /\ <<e[1] - 1, e[2]>> \in h
    <2> SUFFICES ASSUME NEW x \in h, x[1] + 1 \in Ages, NEW e, e = <<x[1] + 1, x[2]>>
                 PROVE  e \in Ages \X Nat /\ e[1] >= 1 /\ <<e[1] - 1, e[2]>> \in h
      BY DEF Shift
    <2>1. PICK a \in Ages, n \in Nat : x = <<a, n>>
      BY <1>1
    <2>2. e = <<a + 1, n>> /\ a \in Nat /\ a + 1 \in Ages
      BY <2>1 DEF Ages
    <2> QED
      BY <2>1, <2>2
  <1>3. Shift(h) \in History
    BY <1>2 DEF History
  <1>4. ASSUME NEW T \in SUBSET Shift(h), NEW B \in SUBSET h, \A e \in T : <<e[1] - 1, e[2]>> \in B
        PROVE  IsFiniteSet(T) /\ Cardinality(T) <= Cardinality(B)
    <2> DEFINE f == [e \in T |-> <<e[1] - 1, e[2]>>]
    <2>1. f \in [T -> B]
      BY <1>4
    <2>2. ASSUME NEW x \in T, NEW y \in T, f[x] = f[y] PROVE x = y
      <3>1. x \in Ages \X Nat /\ y \in Ages \X Nat
        BY <1>2
      <3>2. PICK a \in Ages, n \in Nat : x = <<a, n>>
        BY <3>1
      <3>3. PICK b \in Ages, m \in Nat : y = <<b, m>>
        BY <3>1
      <3>4. <<a - 1, n>> = <<b - 1, m>>
        BY <2>2, <3>2, <3>3
      <3> QED
        BY <3>2, <3>3, <3>4 DEF Ages
    <2>3. f \in Injection(T, B)
      BY <2>1, <2>2 DEF Injection, IsInjective
    <2>4. IsFiniteSet(B)
      BY FS_Subset
    <2> QED
      BY <2>3, <2>4, FS_Injection
  <1>5. IsFiniteSet(Shift(h))
    BY <1>2, <1>4
  <1> QED
    BY <1>2, <1>3, <1>4, <1>5

(* or_insert: an entry that is made anew begins with nothing in it. *)
LEMMA EntryWindow ==
  ASSUME NEW w, NEW h, NEW limit \in Nat, WindowInv(w, h, limit), ~w.there
  PROVE  WindowInv(Fresh(0), h, limit)
  <1> USE LimiterAssumption
  <1>1. h \in History /\ IsFiniteSet(h) /\ Cardinality(h) <= limit /\ \A e \in h : e[1] >= 1
    BY DEF WindowInv
  <1>2. \A e \in h : e[1] \in Nat
    BY <1>1 DEF History, Ages
  <1>3. Fresh(0) \in Windows(limit) /\ Fresh(0).there /\ Fresh(0).age = 0 /\ Fresh(0).count = 0
    BY DEF Fresh, Windows, MaxAge
  <1>4. InWindow(Fresh(0), h) = {} /\ BeforeWindow(Fresh(0), h) = h
    BY <1>1, <1>2, <1>3 DEF InWindow, BeforeWindow
  <1> QED
    BY <1>1, <1>3, <1>4, FS_EmptySet DEF WindowInv

(* A request that restarts a window. *)
LEMMA RestartWindow ==
  ASSUME NEW w, NEW h, NEW limit \in Nat \ {0}, WindowInv(w, h, limit), w.age >= Window
  PROVE  WindowInv(Fresh(1), Add(h), limit)
  <1> USE LimiterAssumption
  <1>1. w.age \in Nat
    BY DEF WindowInv, Windows, MaxAge
  <1>2. h \in History /\ IsFiniteSet(h) /\ Cardinality(h) <= limit /\ \A e \in h : e[1] >= 1
    BY <1>1 DEF WindowInv
  <1>3. \A e \in h : e[1] \in Nat
    BY <1>2 DEF History, Ages
  <1>4. PICK n : n = <<0, NextNumber(h)>>
    OBVIOUS
  <1>5. Add(h) = h \cup {n} /\ n \notin h /\ Add(h) \in History /\ IsFiniteSet(Add(h)) /\ n[1] = 0
    BY <1>2, <1>4, AddOne
  <1>6. Fresh(1) \in Windows(limit) /\ Fresh(1).there /\ Fresh(1).age = 0 /\ Fresh(1).count = 1
    BY DEF Fresh, Windows, MaxAge
  <1>7. InWindow(Fresh(1), Add(h)) = {n} /\ BeforeWindow(Fresh(1), Add(h)) = h
    BY <1>2, <1>3, <1>5, <1>6 DEF InWindow, BeforeWindow
  <1>8. Cardinality(InWindow(Fresh(1), Add(h))) = 1 /\ 1 <= limit
    BY <1>7, FS_Singleton
  <1>9. 0 < Window
    OBVIOUS
  <1> QED
    BY <1>2, <1>5, <1>6, <1>7, <1>8, <1>9 DEF WindowInv

(* A request in an open window, counted whether it passes or not. *)
LEMMA CountInWindow ==
  ASSUME NEW w, NEW h, NEW limit \in Nat \ {0}, WindowInv(w, h, limit), w.there, w.age < Window,
         NEW v, v = [w EXCEPT !.count = Saturate(w.count + 1, limit)]
  PROVE  /\ w.count + 1 <= limit => WindowInv(v, Add(h), limit)
         /\ ~(w.count + 1 <= limit) => WindowInv(v, h, limit)
  <1> USE LimiterAssumption
  <1>1. w \in Windows(limit) /\ h \in History /\ IsFiniteSet(h)
    BY DEF WindowInv
  <1>2. w.count \in Nat /\ w.count <= limit + 1 /\ w.age \in Nat
    BY <1>1 DEF Windows, MaxAge
  <1>3. PICK k : k = Saturate(w.count + 1, limit)
    OBVIOUS
  <1>4. /\ k \in 0 .. limit + 1 /\ k >= w.count
        /\ w.count + 1 <= limit => k = w.count + 1
    BY <1>2, <1>3 DEF Saturate
  <1>5. v \in Windows(limit) /\ v.count = k /\ v.age = w.age /\ v.there = w.there
    BY <1>1, <1>3, <1>4 DEF Windows
  <1>6. PICK c : c = Cardinality(InWindow(w, h))
    OBVIOUS
  <1>7. c \in Nat /\ c <= w.count /\ c <= limit /\ Cardinality(BeforeWindow(w, h)) <= limit
    BY <1>1, <1>6, PartsFinite DEF WindowInv
  <1>8. ASSUME ~(w.count + 1 <= limit) PROVE WindowInv(v, h, limit)
    <2>1. InWindow(v, h) = InWindow(w, h) /\ BeforeWindow(v, h) = BeforeWindow(w, h)
      BY <1>5 DEF InWindow, BeforeWindow
    <2>2. c <= k
      BY <1>2, <1>4, <1>7
    <2> QED
      BY <1>1, <1>5, <1>6, <1>7, <2>1, <2>2 DEF WindowInv
  <1>9. ASSUME w.count + 1 <= limit PROVE WindowInv(v, Add(h), limit)
    <2>1. PICK n : n = <<0, NextNumber(h)>>
      OBVIOUS
    <2>2. Add(h) = h \cup {n} /\ n \notin h /\ Add(h) \in History /\ IsFiniteSet(Add(h)) /\ n[1] = 0
      BY <1>1, <2>1, AddOne
    <2>3. InWindow(v, Add(h)) = InWindow(w, h) \cup {n} /\ n \notin InWindow(w, h)
      BY <1>2, <1>5, <2>2 DEF InWindow
    <2>4. BeforeWindow(v, Add(h)) = BeforeWindow(w, h)
      BY <1>2, <1>5, <2>2 DEF BeforeWindow
    <2>5. IsFiniteSet(InWindow(w, h))
      BY <1>1, PartsFinite
    <2>6. Cardinality(InWindow(v, Add(h))) = c + 1
      BY <1>6, <2>3, <2>5, FS_AddElement
    <2>7. c + 1 <= k /\ c + 1 <= limit
      BY <1>2, <1>4, <1>7, <1>9
    <2> QED
      BY <1>5, <1>7, <2>2, <2>4, <2>6, <2>7 DEF WindowInv
  <1> QED
    BY <1>8, <1>9

(* One check of a window. *)
LEMMA CheckedWindow ==
  ASSUME NEW w, NEW h, NEW limit \in Nat \ {0}, WindowInv(w, h, limit), w.there
  PROVE  /\ Within(w, limit) => WindowInv(CheckWindow(w, limit), Add(h), limit)
         /\ ~Within(w, limit) => WindowInv(CheckWindow(w, limit), h, limit)
         /\ CheckWindow(w, limit).there
  <1>1. w \in Windows(limit) /\ w.age \in Nat
    BY LimiterAssumption DEF WindowInv, Windows, MaxAge
  <1>2. CASE w.age >= Window
    <2>1. CheckWindow(w, limit) = Fresh(1) /\ Within(w, limit) /\ Fresh(1).there
      BY <1>2 DEF CheckWindow, Within, Fresh
    <2> QED
      BY <1>2, <2>1, RestartWindow
  <1>3. CASE ~(w.age >= Window)
    <2>1. PICK v : v = [w EXCEPT !.count = Saturate(w.count + 1, limit)]
      OBVIOUS
    <2>2. CheckWindow(w, limit) = v /\ (Within(w, limit) <=> w.count + 1 <= limit)
      BY <1>3, <2>1 DEF CheckWindow, Within
    <2>3. w.age < Window
      BY <1>1, <1>3, LimiterAssumption
    <2>4. v.there
      BY <1>1, <2>1 DEF Windows
    <2>5. /\ w.count + 1 <= limit => WindowInv(v, Add(h), limit)
          /\ ~(w.count + 1 <= limit) => WindowInv(v, h, limit)
      BY <2>1, <2>3, CountInWindow
    <2> QED
      BY <2>2, <2>4, <2>5
  <1> QED
    BY <1>2, <1>3

(* A tick. *)
LEMMA OlderKept ==
  ASSUME NEW w, NEW h, NEW limit \in Nat, WindowInv(w, h, limit)
  PROVE  WindowInv(OlderWindow(w), Shift(h), limit) /\ OlderWindow(w).there = w.there
  <1> USE LimiterAssumption
  <1>1. w \in Windows(limit) /\ h \in History /\ IsFiniteSet(h)
    BY DEF WindowInv
  <1>2. w.age \in 0 .. MaxAge /\ MaxAge \in Nat /\ Window <= MaxAge /\ w.age \in Nat
    BY <1>1 DEF Windows, MaxAge
  <1>3. PICK k : k = IF w.age < MaxAge THEN w.age + 1 ELSE w.age
    OBVIOUS
  <1>4. k \in 0 .. MaxAge /\ k >= w.age /\ (w.age < Window => k = w.age + 1)
    BY <1>2, <1>3
  <1>5. PICK v : v = OlderWindow(w)
    OBVIOUS
  <1>6. v = [w EXCEPT !.age = k]
    BY <1>3, <1>5 DEF OlderWindow
  <1>7. v \in Windows(limit) /\ v.age = k /\ v.count = w.count /\ v.there = w.there
    BY <1>1, <1>4, <1>6 DEF Windows
  <1>8. PICK s : s = Shift(h)
    OBVIOUS
  <1>9. /\ s \in History /\ IsFiniteSet(s) /\ \A e \in s : e[1] >= 1
        /\ \A T \in SUBSET s, B \in SUBSET h :
             (\A e \in T : <<e[1] - 1, e[2]>> \in B) => Cardinality(T) <= Cardinality(B)
    BY <1>1, <1>8, ShiftFewer
  <1>10. \A e \in s : /\ e[1] \in Nat /\ <<e[1] - 1, e[2]>> \in h /\ e[1] < Window
    <2>1. \A x \in h : x \in Ages \X Nat
      BY <1>1 DEF History
    <2> SUFFICES ASSUME NEW x \in h, x[1] + 1 \in Ages, NEW e, e = <<x[1] + 1, x[2]>>
                 PROVE  e[1] \in Nat /\ <<e[1] - 1, e[2]>> \in h /\ e[1] < Window
      BY <1>8 DEF Shift
    <2>2. PICK a \in Ages, n \in Nat : x = <<a, n>>
      BY <2>1
    <2>3. e = <<a + 1, n>> /\ a \in Nat /\ a + 1 \in Ages
      BY <2>2 DEF Ages
    <2> QED
      BY <2>2, <2>3 DEF Ages
  <1>n. \A B \in SUBSET h : Cardinality(B) \in Nat
    BY <1>1, FS_Subset, FS_CardinalityType
  <1>m. \A B \in SUBSET s : Cardinality(B) \in Nat
    BY <1>9, FS_Subset, FS_CardinalityType
  <1>11. CASE w.there /\ w.age < Window
    <2>1. /\ Cardinality(InWindow(w, h)) <= w.count /\ Cardinality(InWindow(w, h)) <= limit
          /\ Cardinality(BeforeWindow(w, h)) <= limit
      BY <1>11 DEF WindowInv
    <2>2. InWindow(w, h) \in SUBSET h /\ BeforeWindow(w, h) \in SUBSET h
      BY DEF InWindow, BeforeWindow
    <2>3. k = w.age + 1
      BY <1>4, <1>11
    <2>4. CASE k < Window
      <3>1. InWindow(v, s) \in SUBSET s /\ BeforeWindow(v, s) \in SUBSET s
        BY DEF InWindow, BeforeWindow
      <3>2. \A e \in InWindow(v, s) : <<e[1] - 1, e[2]>> \in InWindow(w, h)
        <4> SUFFICES ASSUME NEW e \in InWindow(v, s) PROVE <<e[1] - 1, e[2]>> \in InWindow(w, h)
          OBVIOUS
        <4>1. e \in s /\ e[1] <= k
          BY <1>7 DEF InWindow
        <4>2. PICK x : x = <<e[1] - 1, e[2]>>
          OBVIOUS
        <4>3. x \in h /\ e[1] \in Nat
          BY <1>10, <4>1, <4>2
        <4>4. x[1] = e[1] - 1
          BY <4>2
        <4>5. e[1] - 1 <= w.age
          BY <1>2, <2>3, <4>1, <4>3
        <4> QED
          BY <4>2, <4>3, <4>4, <4>5 DEF InWindow
      <3>3. \A e \in BeforeWindow(v, s) : <<e[1] - 1, e[2]>> \in BeforeWindow(w, h)
        <4> SUFFICES ASSUME NEW e \in BeforeWindow(v, s) PROVE <<e[1] - 1, e[2]>> \in BeforeWindow(w, h)
          OBVIOUS
        <4>1. e \in s /\ e[1] > k
          BY <1>7 DEF BeforeWindow
        <4>2. PICK x : x = <<e[1] - 1, e[2]>>
          OBVIOUS
        <4>3. x \in h /\ e[1] \in Nat
          BY <1>10, <4>1, <4>2
        <4>4. x[1] = e[1] - 1
          BY <4>2
        <4>5. e[1] - 1 > w.age
          BY <1>2, <2>3, <4>1, <4>3
        <4> QED
          BY <4>2, <4>3, <4>4, <4>5 DEF BeforeWindow
      <3>4. /\ Cardinality(InWindow(v, s)) <= Cardinality(InWindow(w, h))
            /\ Cardinality(BeforeWindow(v, s)) <= Cardinality(BeforeWindow(w, h))
        BY <1>9, <2>2, <3>1, <3>2, <3>3
      <3>5. /\ Cardinality(InWindow(v, s)) \in Nat /\ Cardinality(InWindow(w, h)) \in Nat
            /\ Cardinality(BeforeWindow(v, s)) \in Nat /\ Cardinality(BeforeWindow(w, h)) \in Nat
            /\ w.count \in Nat
        BY <1>1, <1>m, <1>n, <2>2, <3>1 DEF Windows
      <3>6. /\ Cardinality(InWindow(v, s)) <= w.count /\ Cardinality(InWindow(v, s)) <= limit
            /\ Cardinality(BeforeWindow(v, s)) <= limit
        BY <2>1, <3>4, <3>5
      <3> QED
        BY <1>5, <1>7, <1>8, <1>9, <1>11, <2>4, <3>6 DEF WindowInv
    <2>5. CASE ~(k < Window)
      <3>1. \A e \in h : e[1] \in Nat /\ e[1] <= w.age
        BY <1>1, <1>2, <1>11, <2>3, <2>5 DEF History, Ages
      <3>2. InWindow(w, h) = h
        BY <3>1 DEF InWindow
      <3>3. Cardinality(s) <= Cardinality(h) /\ Cardinality(s) \in Nat /\ Cardinality(h) \in Nat
        BY <1>9, <1>10, <1>m, <1>n
      <3>4. Cardinality(s) <= limit
        BY <2>1, <3>2, <3>3
      <3> QED
        BY <1>5, <1>7, <1>8, <1>9, <2>5, <3>4 DEF WindowInv
    <2> QED
      BY <2>4, <2>5
  <1>12. CASE ~(w.there /\ w.age < Window)
    <2>1. Cardinality(h) <= limit
      BY <1>12 DEF WindowInv
    <2>2. Cardinality(s) <= Cardinality(h) /\ Cardinality(s) \in Nat /\ Cardinality(h) \in Nat
      BY <1>9, <1>10, <1>m, <1>n
    <2>3. Cardinality(s) <= limit
      BY <2>1, <2>2
    <2>4. ~(v.there /\ v.age < Window)
      BY <1>2, <1>4, <1>7, <1>12
    <2> QED
      BY <1>5, <1>7, <1>8, <1>9, <2>3, <2>4 DEF WindowInv
  <1> QED
    BY <1>11, <1>12

(* gc: what it drops was over. *)
LEMMA DroppedWindow ==
  ASSUME NEW w, NEW h, NEW limit \in Nat, WindowInv(w, h, limit), ~(w.age < GcTtl)
  PROVE  WindowInv(NoWindow, h, limit)
  <1>1. w.age \in Nat /\ ~(w.age < Window)
    BY LimiterAssumption DEF WindowInv, Windows, MaxAge
  <1>2. Cardinality(h) <= limit /\ \A e \in h : e[1] >= 1
    BY <1>1 DEF WindowInv
  <1>3. NoWindow \in Windows(limit) /\ ~NoWindow.there
    BY LimiterAssumption DEF NoWindow, Windows, MaxAge
  <1> QED
    BY <1>2, <1>3 DEF WindowInv
(* The inductive invariant of the limiter: every window with what it let   *)
(* through.  The global window is always there.                            *)
RateInv ==
  /\ RateTypeOK
  /\ WindowInv(global, passed, GlobalLimit) /\ global.there
  /\ \A i \in IPs : WindowInv(perIp[i], admitted[i], PerIpLimit)

(* The limiter starts without windows and without requests. *)
LEMMA RateInitInv == RateInit => RateInv
  <1> SUFFICES ASSUME RateInit PROVE RateInv
    OBVIOUS
  <1> USE LimiterAssumption
  <1>1. IsFiniteSet({}) /\ Cardinality({}) = 0 /\ {} \in History
    BY FS_EmptySet DEF History
  <1>2. \A w : InWindow(w, {}) = {} /\ BeforeWindow(w, {}) = {}
    BY DEF InWindow, BeforeWindow
  <1>3. Fresh(0) \in Windows(GlobalLimit) /\ Fresh(0).there /\ Fresh(0).count = 0
    BY DEF Fresh, Windows, MaxAge
  <1>4. NoWindow \in Windows(PerIpLimit) /\ ~NoWindow.there
    BY DEF NoWindow, Windows, MaxAge
  <1>5. WindowInv(Fresh(0), {}, GlobalLimit)
    BY <1>1, <1>2, <1>3 DEF WindowInv
  <1>6. WindowInv(NoWindow, {}, PerIpLimit)
    BY <1>1, <1>4 DEF WindowInv
  <1>7. RateTypeOK
    BY <1>1, <1>3, <1>4 DEF RateInit, RateTypeOK
  <1> QED
    BY <1>3, <1>5, <1>6, <1>7 DEF RateInit, RateInv

(* The two parts of a history, at most the limit each, make up the bound   *)
(* the run checks.                                                         *)
LEMMA RateInvGives == RateInv => RateBounds
  <1> SUFFICES ASSUME RateInv PROVE RateBounds
    OBVIOUS
  <1>1. Cardinality(passed) <= 2 * GlobalLimit
    BY WindowBound, LimiterAssumption DEF RateInv
  <1>2. \A i \in IPs : Cardinality(admitted[i]) <= 2 * PerIpLimit
    BY WindowBound, LimiterAssumption DEF RateInv
  <1> QED
    BY <1>1, <1>2 DEF RateInv, RateBounds, PerIpBound, GlobalBound

(* The global check. *)
LEMMA CheckGlobalKeeps ==
  ASSUME RateInv, NEW r \in Callers, CheckGlobal(r)
  PROVE  RateInv'
  <1>1. WindowInv(global', passed', GlobalLimit) /\ global'.there
    BY CheckedWindow, LimiterAssumption DEF RateInv, CheckGlobal
  <1>2. global' \in Windows(GlobalLimit) /\ passed' \in History
    BY <1>1 DEF WindowInv
  <1>3. rpc' \in [Callers -> {"idle", "global", "allowed", "denied"}]
    BY DEF RateInv, RateTypeOK, CheckGlobal
  <1>4. UNCHANGED <<perIp, ip, admitted>>
    BY DEF CheckGlobal
  <1>5. RateTypeOK'
    BY <1>2, <1>3, <1>4 DEF RateInv, RateTypeOK
  <1>6. \A i \in IPs : WindowInv(perIp'[i], admitted'[i], PerIpLimit)
    BY <1>4 DEF RateInv
  <1> QED
    BY <1>1, <1>5, <1>6 DEF RateInv

(* The check of the address. *)
LEMMA CheckIpKeeps ==
  ASSUME RateInv, NEW r \in Callers, CheckIp(r)
  PROVE  RateInv'
  <1> USE LimiterAssumption
  <1>1. PICK i \in IPs : i = ip[r]
    BY DEF RateInv, RateTypeOK
  <1>2. PICK w : w = Entry(i)
    OBVIOUS
  <1>3. perIp[i] \in Windows(PerIpLimit) /\ WindowInv(perIp[i], admitted[i], PerIpLimit)
    BY DEF RateInv, RateTypeOK
  <1>4. w.there /\ WindowInv(w, admitted[i], PerIpLimit)
    <2>1. CASE perIp[i].there
      BY <1>2, <1>3, <2>1 DEF Entry
    <2>2. CASE ~perIp[i].there
      BY <1>2, <1>3, <2>2, EntryWindow DEF Entry, Fresh
    <2> QED
      BY <2>1, <2>2
  <1>5. PICK v : v = CheckWindow(w, PerIpLimit)
    OBVIOUS
  <1>6. /\ Within(w, PerIpLimit) => WindowInv(v, Add(admitted[i]), PerIpLimit)
        /\ ~Within(w, PerIpLimit) => WindowInv(v, admitted[i], PerIpLimit)
    BY <1>4, <1>5, CheckedWindow
  <1>7. perIp' = [perIp EXCEPT ![i] = v]
    BY <1>1, <1>2, <1>5 DEF CheckIp
  <1>8. PICK h : /\ admitted' = [admitted EXCEPT ![i] = h] /\ WindowInv(v, h, PerIpLimit)
    <2>1. CASE Within(w, PerIpLimit)
      BY <1>1, <1>2, <1>6, <2>1 DEF CheckIp
    <2>2. CASE ~Within(w, PerIpLimit)
      <3>1. admitted' = [admitted EXCEPT ![i] = admitted[i]]
        BY <1>1, <1>2, <2>2 DEF CheckIp, RateInv, RateTypeOK
      <3> QED
        BY <1>6, <2>2, <3>1
    <2> QED
      BY <2>1, <2>2
  <1>9. v \in Windows(PerIpLimit) /\ h \in History
    BY <1>8 DEF WindowInv
  <1>10. perIp' \in [IPs -> Windows(PerIpLimit)] /\ admitted' \in [IPs -> History]
    BY <1>7, <1>8, <1>9 DEF RateInv, RateTypeOK
  <1>11. rpc' \in [Callers -> {"idle", "global", "allowed", "denied"}] /\ UNCHANGED <<global, ip, passed>>
    BY DEF RateInv, RateTypeOK, CheckIp
  <1>12. RateTypeOK'
    BY <1>10, <1>11 DEF RateInv, RateTypeOK
  <1>13. ASSUME NEW j \in IPs PROVE WindowInv(perIp'[j], admitted'[j], PerIpLimit)
    <2>1. CASE j = i
      <3>1. perIp'[j] = v /\ admitted'[j] = h
        BY <1>7, <1>8, <2>1 DEF RateInv, RateTypeOK
      <3> QED
        BY <1>8, <3>1
    <2>2. CASE j # i
      <3>1. perIp'[j] = perIp[j] /\ admitted'[j] = admitted[j]
        BY <1>7, <1>8, <2>2 DEF RateInv, RateTypeOK
      <3> QED
        BY <3>1 DEF RateInv
    <2> QED
      BY <2>1, <2>2
  <1> QED
    BY <1>11, <1>12, <1>13 DEF RateInv

(* The collector. *)
LEMMA RateGcKeeps ==
  ASSUME RateInv, RateGc
  PROVE  RateInv'
  <1> USE LimiterAssumption
  <1>1. UNCHANGED <<global, rpc, ip, passed, admitted>>
    BY DEF RateGc
  <1>2. \A i \in IPs : perIp'[i] = IF perIp[i].age < GcTtl THEN perIp[i] ELSE NoWindow
    BY DEF RateGc
  <1>3. ASSUME NEW i \in IPs PROVE WindowInv(perIp'[i], admitted[i], PerIpLimit)
    <2>1. WindowInv(perIp[i], admitted[i], PerIpLimit)
      BY DEF RateInv
    <2>2. CASE perIp[i].age < GcTtl
      BY <1>2, <2>1, <2>2
    <2>3. CASE ~(perIp[i].age < GcTtl)
      BY <1>2, <2>1, <2>3, DroppedWindow
    <2> QED
      BY <2>2, <2>3
  <1>4. \A i \in IPs : perIp'[i] \in Windows(PerIpLimit)
    BY <1>3 DEF WindowInv
  <1>5. perIp' \in [IPs -> Windows(PerIpLimit)]
    BY <1>4 DEF RateGc
  <1>6. RateTypeOK'
    BY <1>1, <1>5 DEF RateInv, RateTypeOK
  <1> QED
    BY <1>1, <1>3, <1>6 DEF RateInv

(* A tick. *)
LEMMA RateTickKeeps ==
  ASSUME RateInv, RateTick
  PROVE  RateInv'
  <1> USE LimiterAssumption
  <1>1. WindowInv(global', passed', GlobalLimit) /\ global'.there
    BY OlderKept DEF RateInv, RateTick
  <1>2. ASSUME NEW i \in IPs PROVE WindowInv(perIp'[i], admitted'[i], PerIpLimit)
    <2>1. perIp'[i] = OlderWindow(perIp[i]) /\ admitted'[i] = Shift(admitted[i])
      BY DEF RateTick
    <2> QED
      BY <2>1, OlderKept DEF RateInv
  <1>3. \A i \in IPs : perIp'[i] \in Windows(PerIpLimit) /\ admitted'[i] \in History
    BY <1>2 DEF WindowInv
  <1>4. perIp' \in [IPs -> Windows(PerIpLimit)]
    BY <1>3 DEF RateTick
  <1>5. admitted' \in [IPs -> History]
    BY <1>3 DEF RateTick
  <1>6. global' \in Windows(GlobalLimit) /\ passed' \in History /\ UNCHANGED <<rpc, ip>>
    BY <1>1 DEF WindowInv, RateTick
  <1>7. RateTypeOK'
    BY <1>4, <1>5, <1>6 DEF RateInv, RateTypeOK
  <1> QED
    BY <1>1, <1>2, <1>7 DEF RateInv

(* The next request of a caller, and a step of another part. *)
LEMMA WindowsUntouched ==
  ASSUME RateInv, UNCHANGED <<global, perIp, passed, admitted>>,
         rpc' \in [Callers -> {"idle", "global", "allowed", "denied"}], ip' \in [Callers -> IPs]
  PROVE  RateInv'
  <1>1. RateTypeOK'
    BY DEF RateInv, RateTypeOK
  <1> QED
    BY <1>1 DEF RateInv

(* Every step keeps the windows. *)
LEMMA RateStepInv ==
  ASSUME RateInv, [RateNext]_rateVars
  PROVE  RateInv'
  <1>1. CASE UNCHANGED rateVars
    <2>1. UNCHANGED <<global, perIp, rpc, ip, passed, admitted>>
      BY <1>1 DEF rateVars
    <2> QED
      BY <2>1, WindowsUntouched DEF RateInv, RateTypeOK
  <1>2. ASSUME NEW r \in Callers, NEW i \in IPs, NextRequest(r, i) PROVE RateInv'
    <2>1. UNCHANGED <<global, perIp, passed, admitted>>
      BY <1>2 DEF NextRequest
    <2>2. rpc' \in [Callers -> {"idle", "global", "allowed", "denied"}] /\ ip' \in [Callers -> IPs]
      BY <1>2 DEF NextRequest, RateInv, RateTypeOK
    <2> QED
      BY <2>1, <2>2, WindowsUntouched
  <1> QED
    BY <1>1, <1>2, CheckGlobalKeeps, CheckIpKeeps, RateGcKeeps, RateTickKeeps DEF RateNext

-----------------------------------------------------------------------------
(* The parts together.                                                     *)

(* The inductive invariant of the parts that are proved here. *)
EdgeInv == RateInv /\ ConnectionInv /\ AuthInv /\ RelayInv /\ HookInv

edgeVars == <<area, rateVars, vars, discoveryVars, webhookVars, connVars, gatewayAuthVars, udpVars>>

(* A step of the servers is a step of each part, or leaves it alone. *)
LEMMA EdgeNextParts ==
  ASSUME [EdgeNext]_edgeVars
  PROVE  /\ [RateNext]_rateVars /\ [ConnNext]_connVars /\ [GatewayAuthNext]_gatewayAuthVars
         /\ [UdpNext]_udpVars /\ [WebhookNext]_webhookVars
  <1> USE DEF In
  <1>1. CASE UNCHANGED edgeVars
    BY <1>1 DEF edgeVars
  <1>2. CASE EdgeNext
    BY <1>2 DEF EdgeNext
  <1> QED
    BY <1>1, <1>2

(* No part disturbs the invariant of another. *)
LEMMA EdgeInvKept == EdgeSpec => []EdgeInv
  <1>1. EdgeInit => EdgeInv
    BY RateInitInv, ConnectionInitInv, AuthInitInv, RelayInitInv, HookInitInv DEF EdgeInit, EdgeInv
  <1>2. EdgeInv /\ [EdgeNext]_edgeVars => EdgeInv'
    BY EdgeNextParts, RateStepInv, ConnectionStepInv, AuthStepInv, RelayStepInv, HookStepInv DEF EdgeInv
  <1>3. EdgeSpec => EdgeInit /\ [][EdgeNext]_edgeVars
    BY DEF EdgeSpec, edgeVars
  <1> QED
    BY <1>1, <1>2, <1>3, PTL

(***************************************************************************)
(* The connection gauge is what is open, tunnels pass their limit by no    *)
(* more than the upgrades that were being dialled at once, and at most one *)
(* connection is accepted after a drain was requested, however many        *)
(* connections there are.                                                  *)
(***************************************************************************)
THEOREM ConnectionsKept == EdgeSpec => []ConnectionsSound
  <1>1. EdgeInv => ConnectionsSound
    BY ConnectionInvGives DEF EdgeInv
  <1> QED
    BY <1>1, EdgeInvKept, PTL

(***************************************************************************)
(* A request that began after the session was revoked gets in only through *)
(* degraded mode: its own call to the auth server failed, its JWT has not  *)
(* expired and the route asks for no role.                                 *)
(***************************************************************************)
THEOREM RevocationKept == EdgeSpec => []RevocationSeen
  <1>1. EdgeInv => RevocationSeen
    BY AuthInvGives DEF EdgeInv
  <1> QED
    BY <1>1, EdgeInvKept, PTL

(***************************************************************************)
(* The UDP relay answers allowed clients only, and while questions do not  *)
(* overlap each one gets the answer to its own question.                   *)
(***************************************************************************)
THEOREM RelayKept == EdgeSpec => []RelaySound
  <1>1. EdgeInv => RelaySound
    BY RelayInvGives DEF EdgeInv
  <1> QED
    BY <1>1, EdgeInvKept, PTL

(***************************************************************************)
(* An event costs a bounded number of posts per hook and is published only *)
(* after each of its hooks was tried, for any number of workers, events    *)
(* and hooks, whatever crashes.                                            *)
(***************************************************************************)
THEOREM WebhooksKept == EdgeSpec => []OutboxSound
  <1>1. EdgeInv => OutboxSound
    BY HookInvGives DEF EdgeInv
  <1> QED
    BY <1>1, EdgeInvKept, PTL

(***************************************************************************)
(* In any period as long as the window the limiter admits at most twice    *)
(* its limit, per address and altogether, for any limits, window and drop  *)
(* age of at least the window, although the collector drops entries while  *)
(* requests are between their two checks.                                  *)
(***************************************************************************)
THEOREM RatesKept == EdgeSpec => []RateBounds
  <1>1. EdgeInv => RateBounds
    BY RateInvGives DEF EdgeInv
  <1> QED
    BY <1>1, EdgeInvKept, PTL
=============================================================================
