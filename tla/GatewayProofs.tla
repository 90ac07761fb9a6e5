--------------------------- MODULE GatewayProofs ----------------------------
(****************************************************************************)
(* Proofs about the parts of the gateway, for every value of the constants: *)
(* the config store is crash-safe whatever admin calls and sources do       *)
(* together, and implements a durable register; then key rotation of the    *)
(* identity assertions, start-up tables, response shaping, the union of     *)
(* dynamic routes, plugins, rules, admission, listeners and the validator,  *)
(* one section each; at the end they are joined as MCGateway joins them.    *)
(****************************************************************************)
EXTENDS MCGateway, FiniteSetTheorems, SequenceTheorems, WellFoundedInduction, TLAPS

(* The types of the part of the state the store's argument is about. *)
StoreTypes ==
  /\ baseFile \in Docs /\ overlayFile \in Docs
  /\ running \in BOOLEAN
  /\ base \in Docs /\ overlay \in Docs
  /\ holder \in Admins \cup {Absent}
  /\ apc \in [Admins -> {"idle", "locked", "renamed", "rebuild", "store"}]
  /\ cand \in [Admins -> Docs]

(* The mutex: a call is between Propose and Commit exactly while it holds  *)
(* it, so at most one call is, and none while the process is down.         *)
Mutex ==
  /\ \A a \in Admins : apc[a] \in {"locked", "renamed"} <=> holder = a
  /\ ~running => holder = Absent

(* Where the file is, relative to memory and to the call in the mutex. *)
FileInv ==
  /\ running /\ holder = Absent => overlay = overlayFile
  /\ \A a \in Admins :
       /\ apc[a] = "locked" => overlayFile = overlay
       /\ apc[a] = "renamed" => overlayFile = cand[a]
       /\ holder = a => Effective(base, cand[a]) \in ValidConfigs
  /\ running => Effective(base, overlay) \in ValidConfigs
  /\ Effective(base, overlayFile) \in ValidConfigs

IInv == StoreTypes /\ Mutex /\ FileInv

-------------------------------------------------------------------------------
(* Merging a patch into a document gives a document. *)
LEMMA MergeIsDoc ==
  ASSUME NEW d \in Docs, NEW p \in [Keys -> Vals \cup {Absent, Null}]
  PROVE  DeepMerge(d, p) \in Docs
BY HotConfigAssumption DEF DeepMerge, Docs

(* The empty overlay is a document. *)
LEMMA EmptyIsDoc == Empty \in Docs
BY DEF Empty, Docs

(* Laying an empty overlay over a document changes nothing. *)
LEMMA EmptyOverlay ==
  ASSUME NEW d \in Docs
  PROVE  Effective(d, Empty) = d
BY HotConfigAssumption DEF Effective, DeepMerge, Empty, Docs

(* The gateway starts with a valid base and no overlay. *)
LEMMA InitInv == Init => IInv
<1> SUFFICES ASSUME Init PROVE IInv
  OBVIOUS
<1> USE HotConfigAssumption, EmptyIsDoc
<1>1. StoreTypes
  BY DEF Init, StoreTypes
<1>2. Mutex
  BY DEF Init, Mutex
<1>3. FileInv
  BY DEF Init, FileInv
<1> QED BY <1>1, <1>2, <1>3 DEF IInv

(* Entering the mutex with a validated candidate. *)
LEMMA ProposeInv ==
  ASSUME IInv, NEW a \in Admins, NEW c \in Docs, Propose(a, c)
  PROVE  IInv'
<1> USE HotConfigAssumption DEF IInv
<1>1. StoreTypes'
  BY DEF StoreTypes, Propose, disk
<1>2. Mutex'
  BY DEF StoreTypes, Mutex, Propose
<1>3. apc'[a] = "locked" /\ cand'[a] = c /\ \A q \in Admins \ {a} : apc'[q] = apc[q]
  BY DEF StoreTypes, Propose
<1>4. \A q \in Admins : apc[q] \notin {"locked", "renamed"}
  BY DEF Mutex, Propose
<1>5. FileInv'
  BY <1>3, <1>4 DEF FileInv, Propose, disk, StoreTypes
<1> QED BY <1>1, <1>2, <1>5

(* Steps that leave the store, the files and the mutex alone. *)
LEMMA AsideInv ==
  ASSUME IInv, UNCHANGED <<disk, running, store, cand>>,
         apc' \in [Admins -> {"idle", "locked", "renamed", "rebuild", "store"}],
         \A q \in Admins : \/ apc'[q] = apc[q]
                           \/ {apc[q], apc'[q]} \cap {"locked", "renamed"} = {}
  PROVE  IInv'
<1> USE DEF IInv, disk, store
<1>1. StoreTypes'
  BY DEF StoreTypes
<1>2. Mutex'
  BY DEF Mutex
<1>3. FileInv'
  BY DEF FileInv
<1> QED BY <1>1, <1>2, <1>3

(* Every step of an admin, a source, the operator or a crash keeps it. *)
LEMMA NextInv == IInv /\ [Next]_vars => IInv'
<1> SUFFICES ASSUME IInv, [Next]_vars PROVE IInv'
  OBVIOUS
<1> USE HotConfigAssumption DEF IInv
<1>1. ASSUME NEW a \in Admins, NEW p \in Patches, ApplyPatch(a, p) PROVE IInv'
  <2>1. DeepMerge(overlay, p) \in Docs
    BY MergeIsDoc DEF StoreTypes
  <2> QED BY <1>1, <2>1, ProposeInv DEF ApplyPatch
<1>2. ASSUME NEW a \in Admins, ClearOverlay(a) PROVE IInv'
  BY <1>2, EmptyIsDoc, ProposeInv DEF ClearOverlay
<1>3. ASSUME NEW a \in Admins, Rename(a) PROVE IInv'
  <2>1. StoreTypes'
    BY <1>3 DEF StoreTypes, Rename, store
  <2>2. Mutex'
    BY <1>3 DEF StoreTypes, Mutex, Rename, store
  <2>3. holder = a /\ apc'[a] = "renamed" /\ \A q \in Admins \ {a} : apc'[q] = apc[q]
    BY <1>3 DEF StoreTypes, Mutex, Rename
  <2>4. \A q \in Admins \ {a} : apc[q] \notin {"locked", "renamed"}
    BY <2>3 DEF Mutex
  <2>5. FileInv'
    BY <1>3, <2>3, <2>4 DEF FileInv, Rename, store
  <2> QED BY <2>1, <2>2, <2>5
<1>4. ASSUME NEW a \in Admins, PersistFails(a) PROVE IInv'
  <2>1. StoreTypes'
    BY <1>4, EmptyIsDoc DEF StoreTypes, PersistFails, disk
  <2>2. holder = a /\ apc'[a] = "idle" /\ \A q \in Admins \ {a} : apc'[q] = apc[q]
    BY <1>4 DEF StoreTypes, Mutex, PersistFails
  <2>3. \A q \in Admins : apc'[q] \notin {"locked", "renamed"}
    BY <2>2 DEF Mutex
  <2>4. Mutex'
    BY <1>4, <2>3 DEF Mutex, PersistFails
  <2>5. FileInv'
    BY <1>4, <2>3 DEF FileInv, PersistFails, disk
  <2> QED BY <2>1, <2>4, <2>5
<1>5. ASSUME NEW a \in Admins, Commit(a) PROVE IInv'
  <2>1. StoreTypes'
    BY <1>5, EmptyIsDoc DEF StoreTypes, Commit, disk
  <2>2. holder = a /\ apc'[a] = "rebuild" /\ \A q \in Admins \ {a} : apc'[q] = apc[q]
    BY <1>5 DEF StoreTypes, Mutex, Commit
  <2>3. \A q \in Admins : apc'[q] \notin {"locked", "renamed"}
    BY <2>2 DEF Mutex
  <2>4. Mutex'
    BY <1>5, <2>3 DEF Mutex, Commit
  <2>5. FileInv'
    BY <1>5, <2>2, <2>3 DEF FileInv, Commit, disk
  <2> QED BY <2>1, <2>4, <2>5
<1>6. ASSUME NEW a \in Admins, ReloadBase(a) PROVE IInv'
  <2>1. StoreTypes'
    BY <1>6 DEF StoreTypes, ReloadBase, disk
  <2>2. \A q \in Admins : apc'[q] \notin {"locked", "renamed"}
    BY <1>6 DEF StoreTypes, Mutex, ReloadBase
  <2>3. Mutex'
    BY <1>6, <2>2 DEF Mutex, ReloadBase
  <2>4. FileInv'
    BY <1>6, <2>2 DEF FileInv, ReloadBase, disk
  <2> QED BY <2>1, <2>3, <2>4
<1>7. ASSUME NEW a \in Admins, LoadSnapshot(a) \/ StoreHot(a) PROVE IInv'
  <2>1. UNCHANGED <<disk, running, store, cand>>
    BY <1>7 DEF LoadSnapshot, StoreHot
  <2>2. /\ apc' \in [Admins -> {"idle", "locked", "renamed", "rebuild", "store"}]
        /\ \A q \in Admins : \/ apc'[q] = apc[q]
                             \/ {apc[q], apc'[q]} \cap {"locked", "renamed"} = {}
    BY <1>7 DEF LoadSnapshot, StoreHot, StoreTypes
  <2> QED BY <2>1, <2>2, AsideInv
<1>8. ASSUME NEW s \in Sources, NEW routes \in Announcements, Announce(s, routes)
      PROVE  IInv'
  <2>1. UNCHANGED <<disk, running, store, cand, apc>>
    BY <1>8 DEF Announce, admin
  <2> QED BY <2>1, AsideInv DEF StoreTypes
<1>9. ASSUME NEW s \in Sources, Recv(s) \/ LoadUnion(s) \/ Publish(s) \/ StoreMerged(s)
      PROVE  IInv'
  <2>1. UNCHANGED <<disk, running, store, cand, apc>>
    BY <1>9 DEF Recv, LoadUnion, Publish, StoreMerged, admin
  <2> QED BY <2>1, AsideInv DEF StoreTypes
<1>10. ASSUME NEW d \in BaseDocs, EditBase(d) PROVE IInv'
  <2>1. StoreTypes'
    BY <1>10 DEF StoreTypes, EditBase, store, admin
  <2>2. Mutex'
    BY <1>10 DEF Mutex, EditBase, store, admin
  <2>3. FileInv'
    BY <1>10 DEF FileInv, EditBase, store, admin
  <2> QED BY <2>1, <2>2, <2>3
<1>11. CASE Crash
  <2>1. StoreTypes'
    BY <1>11, EmptyIsDoc DEF StoreTypes, Crash, FreshTasks, disk
  <2>2. Mutex'
    BY <1>11 DEF Mutex, Crash, FreshTasks
  <2>3. FileInv'
    BY <1>11 DEF FileInv, Crash, FreshTasks, disk
  <2> QED BY <2>1, <2>2, <2>3
<1>12. CASE Start
  <2>1. StoreTypes'
    BY <1>12 DEF StoreTypes, Start, Loaded, disk, admin
  <2>2. \A q \in Admins : apc'[q] \notin {"locked", "renamed"}
    BY <1>12 DEF Start, Mutex, admin
  <2>3. Mutex'
    BY <1>12, <2>2 DEF Mutex, Start, Loaded
  <2>4. FileInv'
    BY <1>12, <2>2 DEF FileInv, Start, Loaded, disk
  <2> QED BY <2>1, <2>3, <2>4
<1>13. CASE UNCHANGED vars
  <2>1. UNCHANGED <<disk, running, store, cand, apc>>
    BY <1>13 DEF vars, admin
  <2> QED BY <2>1, AsideInv DEF StoreTypes
<1> QED
  BY <1>1, <1>2, <1>3, <1>4, <1>5, <1>6, <1>7, <1>8, <1>9, <1>10, <1>11, <1>12,
     <1>13 DEF Next

(* Hence the invariant always holds. *)
LEMMA AlwaysIInv == Spec => []IInv
BY InitInv, NextInv, PTL DEF Spec

(* Memory is never ahead of the overlay file. *)
THEOREM MemoryNeverAhead == Spec => []MemoryMatchesDisk
<1>1. IInv => MemoryMatchesDisk
  BY DEF IInv, FileInv, MemoryMatchesDisk
<1> QED BY <1>1, AlwaysIInv, PTL

(* The configuration served is always a valid one. *)
THEOREM AlwaysValid == Spec => []StoreIsValid
<1>1. IInv => StoreIsValid
  BY DEF IInv, FileInv, StoreIsValid
<1> QED BY <1>1, AlwaysIInv, PTL

(* A crash at any point leaves files the gateway starts from, unless the   *)
(* base YAML was edited after it was last read.                            *)
THEOREM CrashNeverBricks == Spec => []BootsAgain
<1>1. IInv => BootsAgain
  BY DEF IInv, FileInv, BootsAgain
<1> QED BY <1>1, AlwaysIInv, PTL

(* The running gateway serves what its files say, only what is valid, and  *)
(* starts again after any crash.                                           *)
THEOREM StoreIsSound == Spec => []StoreSound
<1>1. MemoryMatchesDisk /\ StoreIsValid /\ BootsAgain => StoreSound
  BY DEF StoreSound
<1> QED BY <1>1, MemoryNeverAhead, AlwaysValid, CrashNeverBricks, PTL

-------------------------------------------------------------------------------
(* The overlay implements DurableRegister.                                 *)

(* What the mapping makes of the state. *)
Value == IF running THEN overlay ELSE overlayFile
Pending == IF holder = Absent THEN {} ELSE {cand[holder]}

(* Clearing is laying the patch that deletes every key over the overlay. *)
LEMMA ClearingIsUpdate ==
  ASSUME NEW d \in Docs
  PROVE  DeepMerge(d, ClearsAll) = Empty
BY HotConfigAssumption DEF DeepMerge, ClearsAll, Empty

(* The gateway starts with the first value and no update under way. *)
LEMMA RegisterInit == Init => Register!Init
BY DEF Init, Register!Init

(* A call that gets into the mutex begins an update. *)
LEMMA ProposeBegins ==
  ASSUME IInv, NEW a \in Admins, NEW u \in Patches \cup {ClearsAll},
         Propose(a, DeepMerge(overlay, u)), DeepMerge(overlay, u) \in Docs
  PROVE  Register!Begin(u)
<1>1. /\ running /\ running' = running /\ overlay' = overlay /\ overlayFile' = overlayFile
      /\ holder = Absent /\ holder' = a /\ a # Absent
      /\ cand'[a] = DeepMerge(overlay, u)
  BY HotConfigAssumption DEF Propose, IInv, StoreTypes, disk
<1> QED BY <1>1 DEF Register!Begin

(* The other steps of the call in the mutex: the rename is not seen, a     *)
(* failed write refuses the update, the assignment to memory makes it.     *)
LEMMA HolderSteps ==
  ASSUME IInv, NEW a \in Admins
  PROVE  /\ Rename(a) => UNCHANGED <<Value, Pending, running>>
         /\ PersistFails(a) => Register!Refuse
         /\ Commit(a) => Register!Acknowledge
<1>1. a # Absent
  BY HotConfigAssumption
<1>2. apc[a] \in {"locked", "renamed"} => holder = a /\ running
  BY <1>1 DEF IInv, Mutex
<1>3. Rename(a) => UNCHANGED <<Value, Pending, running>>
  BY <1>1, <1>2 DEF Rename, store, Value, Pending
<1>4. PersistFails(a) => Register!Refuse
  BY <1>1, <1>2 DEF PersistFails, disk, Register!Refuse
<1>5. Commit(a) => Register!Acknowledge
  BY <1>1, <1>2 DEF Commit, disk, Register!Acknowledge
<1> QED BY <1>3, <1>4, <1>5

(* A crash finds the file with the old overlay or with the candidate. *)
LEMMA CrashEitherWay == IInv /\ Crash => Register!Crash
<1> SUFFICES ASSUME IInv, Crash PROVE Register!Crash
  OBVIOUS
<1>1. running /\ running' = FALSE /\ holder' = Absent /\ overlayFile' = overlayFile
  BY DEF Crash, disk
<1>2. CASE holder = Absent
  BY <1>1, <1>2 DEF Register!Crash, IInv, FileInv
<1>3. CASE holder # Absent
  <2>1. holder \in Admins /\ apc[holder] \in {"locked", "renamed"}
    BY <1>3 DEF IInv, StoreTypes, Mutex
  <2>2. overlayFile \in {overlay, cand[holder]}
    BY <2>1 DEF IInv, FileInv
  <2> QED BY <1>1, <1>3, <2>2 DEF Register!Crash
<1> QED BY <1>2, <1>3

(* A start reads the value back. *)
LEMMA StartRestarts == IInv /\ Start => Register!Restart
<1> SUFFICES ASSUME IInv, Start PROVE Register!Restart
  OBVIOUS
<1>1. ~running /\ running' = TRUE /\ holder = Absent /\ holder' = Absent /\ overlay' = overlayFile
  BY DEF IInv, Mutex, Start, Loaded
<1> QED BY <1>1 DEF Register!Restart

(* Every step of the store is a step of the register, or none. *)
LEMMA RegisterStep == IInv /\ [Next]_vars => [Register!Next]_(Register!registerVars)
<1> SUFFICES ASSUME IInv, [Next]_vars PROVE [Register!Next]_(Register!registerVars)
  OBVIOUS
<1> DEFINE Stays == UNCHANGED <<Value, Pending, running>>
<1>s. Stays => [Register!Next]_(Register!registerVars)
  BY DEF Register!registerVars, Value, Pending
<1>a. UNCHANGED <<running, overlay, overlayFile, holder, cand>> => Stays
  BY DEF Value, Pending
<1>t. overlay \in Docs
  BY DEF IInv, StoreTypes
<1>1. ASSUME NEW a \in Admins, NEW p \in Patches, ApplyPatch(a, p) PROVE Register!Next
  <2>1. DeepMerge(overlay, p) \in Docs
    BY <1>t, MergeIsDoc, HotConfigAssumption
  <2> QED BY <1>1, <2>1, ProposeBegins DEF ApplyPatch, Register!Next
<1>2. ASSUME NEW a \in Admins, ClearOverlay(a) PROVE Register!Next
  BY <1>2, <1>t, ClearingIsUpdate, EmptyIsDoc, ProposeBegins DEF ClearOverlay, Register!Next
<1>3. ASSUME NEW a \in Admins, Rename(a) \/ PersistFails(a) \/ Commit(a)
      PROVE  Register!Next \/ Stays
  BY <1>3, HolderSteps DEF Register!Next
<1>4. ASSUME NEW a \in Admins, ReloadBase(a) \/ LoadSnapshot(a) \/ StoreHot(a) PROVE Stays
  BY <1>4, <1>a DEF ReloadBase, LoadSnapshot, StoreHot, disk, store
<1>5. ASSUME NEW s \in Sources, (\E routes \in Announcements : Announce(s, routes)) \/ Recv(s)
                                \/ LoadUnion(s) \/ Publish(s) \/ StoreMerged(s)
      PROVE  Stays
  BY <1>5, <1>a DEF Announce, Recv, LoadUnion, Publish, StoreMerged, disk, store, admin
<1>6. ASSUME NEW d \in BaseDocs, EditBase(d) PROVE Stays
  BY <1>6, <1>a DEF EditBase, store, admin
<1>7. Crash \/ Start => Register!Next
  BY CrashEitherWay, StartRestarts DEF Register!Next
<1>8. UNCHANGED vars => Stays
  BY <1>a DEF vars, disk, store, admin
<1> QED
  BY <1>s, <1>1, <1>2, <1>3, <1>4, <1>5, <1>6, <1>7, <1>8 DEF Next

(***************************************************************************)
(* The config store implements an atomic durable register for the overlay: *)
(* whatever admin calls, reloads, sources and crashes do between the steps *)
(* of persist (config_overlay.rs), every accepted patch is applied to the  *)
(* overlay before it, an acknowledged one is never lost, a refused one     *)
(* never comes back, and a crash leaves one of the two.                    *)
(***************************************************************************)
THEOREM OverlayRefines == Spec => OverlayIsRegister
<1>1. IInv /\ [Next]_vars => [Register!Next]_(Register!registerVars)
  BY RegisterStep
<1> QED BY <1>1, RegisterInit, AlwaysIInv, PTL DEF Spec, OverlayIsRegister, Register!Spec

-----------------------------------------------------------------------------
(* IdentityAssertion.                                                      *)

(* A request as the gateway signs it. *)
SignedRequest(r) ==
  /\ r.time \in Nat /\ r.mac.time = r.time /\ r.mac.path = r.path /\ r.users = {r.mac.user}
  /\ r.mac.key \in Nat \ {0} /\ r.keyId \in {0, r.mac.key}

(* The key a request was signed with is one the consumer still has, or the *)
(* request is too old for its window wherever its clock stands.            *)
StillVerifiable(r) ==
  \/ r.mac.key \in {verifierKeys.current} \cup verifierKeys.previous
  \/ gatewayTime > r.time + MaxSkew + 1

(***************************************************************************)
(* RotationLossless is not inductive: a verdict is about a request that    *)
(* was signed before.  What keeps it is where a rotation stands, and that  *)
(* a request signed with a key that is not the gateway's any more is not   *)
(* younger than the last restart.                                          *)
(***************************************************************************)
AssertionInv ==
  /\ gatewayTime \in Nat /\ switched \in Nat /\ switched <= gatewayTime
  /\ signingKey \in Nat \ {0}
  /\ \/ verifierKeys = [current |-> signingKey, previous |-> {}]
     \/ verifierKeys = [current |-> signingKey + 1, previous |-> {signingKey}]
     \/ verifierKeys = [current |-> signingKey, previous |-> {signingKey - 1}]
  /\ \A r \in sent : /\ SignedRequest(r) /\ r.time <= gatewayTime /\ r.mac.key <= signingKey
                     /\ StillVerifiable(r)
                     /\ r.mac.key < signingKey => r.time <= switched
  /\ AssertionsSound

(* Gateway and consumer start with the same key and nothing in flight. *)
LEMMA AssertionInitInv == AssertionInit => AssertionInv
  BY DEF AssertionInit, AssertionInv, AssertionsSound, RotationLossless, AcceptedAsSigned

(* A step that leaves the requests, the keys and the verdicts alone. *)
LEMMA AssertionVerdictsKept ==
  ASSUME AssertionInv, UNCHANGED verdicts
  PROVE  AssertionsSound'
  BY DEF AssertionInv, AssertionsSound, RotationLossless, AcceptedAsSigned

(* A request that is signed and sent keeps the invariant. *)
LEMMA ForwardSignedInv ==
  ASSUME AssertionInv, NEW kind, NEW user, NEW client, NEW rewritten, NEW kept \in BOOLEAN,
         ForwardSigned(kind, user, client, rewritten, kept)
  PROVE  AssertionInv'
  <1> DEFINE p == ForwardedPath(kind, rewritten)
             m == [key |-> signingKey, time |-> gatewayTime, path |-> p, user |-> user]
             r == [users |-> {user}, path |-> p, keyId |-> IF kept THEN signingKey ELSE 0,
                   time |-> gatewayTime, mac |-> m]
  <1>1. sent' = {r} /\ verdicts' = {} /\ UNCHANGED <<gatewayTime, signingKey, verifierKeys, switched>>
    BY DEF ForwardSigned, IdentityHeaders, SignAt
  <1>2. /\ r.users = {user} /\ r.path = p /\ r.keyId \in {0, signingKey} /\ r.time = gatewayTime
        /\ r.mac = m /\ m.key = signingKey /\ m.time = gatewayTime /\ m.path = p /\ m.user = user
    OBVIOUS
  <1> HIDE DEF r, m, p
  <1>q. PICK q : /\ sent' = {q} /\ q.mac.key = signingKey /\ q.time = gatewayTime
                 /\ q.keyId \in {0, signingKey} /\ q.mac.time = gatewayTime /\ q.mac.path = q.path
                 /\ q.users = {q.mac.user}
    BY <1>1, <1>2
  <1>3. SignedRequest(q)
    BY <1>q DEF SignedRequest, AssertionInv
  <1>4. StillVerifiable(q)' /\ q.time <= gatewayTime /\ q.mac.key = signingKey
    BY <1>1, <1>q DEF StillVerifiable, AssertionInv
  <1>5. AssertionsSound'
    BY <1>1 DEF AssertionsSound, RotationLossless, AcceptedAsSigned
  <1>6. SignedRequest(q)'
    BY <1>3 DEF SignedRequest
  <1> QED
    BY <1>1, <1>q, <1>4, <1>5, <1>6 DEF AssertionInv

(* A consumer that verifies a request, with any clock within the skew,     *)
(* keeps the invariant.                                                    *)
LEMMA ConsumeInv ==
  ASSUME AssertionInv, NEW r \in sent, NEW now \in {gatewayTime - 1, gatewayTime, gatewayTime + 1},
         Consume(r, now)
  PROVE  AssertionInv'
  <1>1. PICK user \in r.users :
          verdicts' = {[request |-> r, age |-> AbsDiff(now, r.time), accepted |-> VerifyAt(r, user, now)]}
    BY DEF Consume
  <1>2. /\ SignedRequest(r) /\ r.time <= gatewayTime /\ StillVerifiable(r) /\ user = r.mac.user
        /\ gatewayTime \in Nat /\ r.time \in Nat /\ MaxSkew \in Nat
    BY AssertionAssumption DEF AssertionInv, SignedRequest
  <1> DEFINE v == [request |-> r, age |-> AbsDiff(now, r.time), accepted |-> VerifyAt(r, user, now)]
  <1>3. v.request = r /\ v.age = AbsDiff(now, r.time) /\ v.accepted = VerifyAt(r, user, now)
    OBVIOUS
  <1>4. verdicts' = {v}
    BY <1>1
  <1> HIDE DEF v
  <1>5. ASSUME r.keyId # 0, AbsDiff(now, r.time) <= MaxSkew
        PROVE  VerifyAt(r, user, now)
    <2>1. r.mac.key \in {verifierKeys.current} \cup verifierKeys.previous
      <3>1. now >= gatewayTime - 1
        BY <1>2
      <3>2. AbsDiff(now, r.time) >= now - r.time
        BY <1>2 DEF AbsDiff
      <3>3. ~(gatewayTime > r.time + MaxSkew + 1)
        BY <1>2, <1>5, <3>1, <3>2 DEF AbsDiff
      <3> QED
        BY <1>2, <3>3 DEF StillVerifiable
    <2>2. r.keyId = r.mac.key
      BY <1>2, <1>5 DEF SignedRequest
    <2>3. r.mac.key \in KeyFor(r.keyId)
      BY <1>5, <2>1, <2>2 DEF KeyFor
    <2> QED
      BY <1>2, <1>5, <2>3 DEF VerifyAt, SignedRequest
  <1>6. RotationLossless'
    <2>1. v.request.keyId # 0 /\ v.age <= MaxSkew => v.accepted
      BY <1>3, <1>5
    <2> QED
      BY <1>4, <2>1 DEF RotationLossless
  <1>7. AcceptedAsSigned'
    <2>1. v.accepted => /\ v.age <= MaxSkew /\ v.request.users = {v.request.mac.user}
                        /\ v.request.path = v.request.mac.path
      BY <1>2, <1>3 DEF VerifyAt, SignedRequest
    <2> QED
      BY <1>4, <2>1 DEF AcceptedAsSigned
  <1>8. sent' \subseteq sent /\ UNCHANGED <<gatewayTime, signingKey, verifierKeys, switched>>
    BY DEF Consume
  <1>9. \A q \in sent : StillVerifiable(q)' = StillVerifiable(q)
    BY <1>8 DEF StillVerifiable
  <1> QED
    BY <1>6, <1>7, <1>8, <1>9 DEF AssertionInv, AssertionsSound

(* Sending, verifying, key changes on either side and the clocks keep the  *)
(* invariant.                                                              *)
LEMMA AssertionStepInv ==
  ASSUME AssertionInv, [AssertionNext]_assertionVars
  PROVE  AssertionInv'
  <1>0. /\ gatewayTime \in Nat /\ switched \in Nat /\ switched <= gatewayTime /\ signingKey \in Nat \ {0}
        /\ MaxSkew \in Nat
    BY AssertionAssumption DEF AssertionInv
  <1>s. \A r \in sent : /\ r.time \in Nat /\ r.mac.key \in Nat \ {0}
    BY DEF AssertionInv, SignedRequest
  <1>1. CASE LearnKey
    <2>1. /\ verifierKeys = [current |-> signingKey, previous |-> {}]
          /\ verifierKeys' = [current |-> signingKey + 1, previous |-> {signingKey}]
          /\ UNCHANGED <<gatewayTime, signingKey, switched, sent, verdicts>>
      BY <1>0, <1>1 DEF LearnKey, AssertionInv
    <2>2. \A r \in sent : StillVerifiable(r)'
      BY <2>1 DEF AssertionInv, StillVerifiable
    <2> QED
      BY <2>1, <2>2, AssertionVerdictsKept DEF AssertionInv
  <1>2. CASE RestartWithKey
    <2>1. /\ verifierKeys = [current |-> signingKey + 1, previous |-> {signingKey}]
          /\ signingKey' = signingKey + 1 /\ switched' = gatewayTime
          /\ UNCHANGED <<gatewayTime, verifierKeys, sent, verdicts>>
      BY <1>0, <1>2 DEF RestartWithKey, AssertionInv
    <2>2. \A r \in sent : StillVerifiable(r)'
      BY <2>1 DEF AssertionInv, StillVerifiable
    <2>3. verifierKeys' = [current |-> signingKey', previous |-> {signingKey' - 1}]
      BY <1>0, <2>1
    <2> QED
      BY <1>0, <1>s, <2>1, <2>2, <2>3, AssertionVerdictsKept DEF AssertionInv
  <1>3. CASE ForgetKey
    <2>1. /\ verifierKeys = [current |-> signingKey, previous |-> {signingKey - 1}]
          /\ verifierKeys' = [current |-> signingKey, previous |-> {}]
          /\ gatewayTime > switched + MaxSkew + 1
          /\ UNCHANGED <<gatewayTime, signingKey, switched, sent, verdicts>>
      <3>1. /\ verifierKeys.previous # {} /\ verifierKeys.current = signingKey
            /\ verifierKeys' = [verifierKeys EXCEPT !.previous = {}]
            /\ gatewayTime > switched + MaxSkew + 1
            /\ UNCHANGED <<gatewayTime, signingKey, switched, sent, verdicts>>
        BY <1>3 DEF ForgetKey
      <3>2. \/ verifierKeys = [current |-> signingKey, previous |-> {}]
            \/ verifierKeys = [current |-> signingKey + 1, previous |-> {signingKey}]
            \/ verifierKeys = [current |-> signingKey, previous |-> {signingKey - 1}]
        BY DEF AssertionInv
      <3>3. verifierKeys = [current |-> signingKey, previous |-> {signingKey - 1}]
        BY <1>0, <3>1, <3>2
      <3> QED
        BY <3>1, <3>3
    <2>2. ASSUME NEW r \in sent PROVE StillVerifiable(r)'
      <3>1. CASE r.mac.key = signingKey
        BY <2>1, <3>1 DEF StillVerifiable
      <3>2. CASE r.mac.key < signingKey
        <4>1. r.time <= switched
          BY <3>2 DEF AssertionInv
        <4>2. gatewayTime > r.time + MaxSkew + 1
          BY <1>0, <1>s, <2>1, <4>1
        <4> QED
          BY <2>1, <4>2 DEF StillVerifiable
      <3> QED
        BY <1>0, <1>s, <3>1, <3>2 DEF AssertionInv
    <2> QED
      BY <2>1, <2>2, AssertionVerdictsKept DEF AssertionInv
  <1>4. CASE AssertionTick
    <2>1. gatewayTime' = gatewayTime + 1 /\ UNCHANGED <<signingKey, verifierKeys, switched, sent, verdicts>>
      BY <1>4 DEF AssertionTick
    <2>2. ASSUME NEW r \in sent PROVE StillVerifiable(r)' /\ r.time <= gatewayTime'
      <3>1. StillVerifiable(r) /\ r.time <= gatewayTime
        BY DEF AssertionInv
      <3> QED
        BY <1>0, <1>s, <2>1, <3>1 DEF StillVerifiable
    <2> QED
      BY <1>0, <2>1, <2>2, AssertionVerdictsKept DEF AssertionInv
  <1>5. CASE UNCHANGED assertionVars
    <2>1. \A r \in sent : StillVerifiable(r)' = StillVerifiable(r)
      BY <1>5 DEF assertionVars, StillVerifiable
    <2> QED
      BY <1>5, <2>1, AssertionVerdictsKept DEF assertionVars, AssertionInv
  <1> QED
    BY <1>1, <1>2, <1>3, <1>4, <1>5, ForwardSignedInv, ConsumeInv DEF AssertionNext

-----------------------------------------------------------------------------
(* GatewayConfig.                                                          *)

(* What main builds from a configuration that passed. *)
Built ==
  [state |-> "serving", routes |-> RoutingTable(conf), allow |-> IpAllowlistTable(conf),
   plugins |-> LoadFromConfig(conf), signer |-> Signer(conf), tls |-> conf.tls]

(* A gateway that serves was built from a configuration without errors. *)
ConfigInv ==
  /\ conf \in Configurations
  /\ gateway.state = "serving" => ValidateDetailed(conf) = {} /\ gateway = Built

(* Nothing is served before the gateway starts. *)
LEMMA ConfigInitInv == ConfigInit => ConfigInv
  <1>1. NotStarted.state # "serving"
    BY DEF NotStarted
  <1> QED
    BY <1>1 DEF ConfigInit, ConfigInv

(* What StartGateway builds from a configuration that passes validation    *)
(* is what it asks for.                                                    *)
LEMMA ConfigStepInv ==
  ASSUME ConfigInv, [StartGateway]_configVars
  PROVE  ConfigInv'
  <1>1. CASE UNCHANGED configVars
    <2>1. conf' = conf /\ gateway' = gateway
      BY <1>1 DEF configVars
    <2>2. Built' = Built /\ ValidateDetailed(conf)' = ValidateDetailed(conf)
      BY <2>1 DEF Built
    <2> QED
      BY <2>1, <2>2 DEF ConfigInv
  <1>2. CASE StartGateway
    <2>1. conf' = conf
      BY <1>2 DEF StartGateway
    <2>2. CASE ValidateDetailed(conf) # {}
      <3>1. gateway'.state = "exited"
        BY <1>2, <2>2 DEF StartGateway
      <3> QED
        BY <2>1, <3>1 DEF ConfigInv
    <2>3. CASE ValidateDetailed(conf) = {}
      <3>1. gateway' = Built
        BY <1>2, <2>3 DEF StartGateway, Built
      <3>2. Built' = Built
        BY <2>1 DEF Built
      <3>3. ValidateDetailed(conf)' = {}
        BY <2>1, <2>3
      <3> QED
        BY <2>1, <3>1, <3>2, <3>3 DEF ConfigInv
    <2> QED
      BY <2>2, <2>3
  <1> QED
    BY <1>1, <1>2

(* An error list is empty when its condition is false. *)
LEMMA NoFlag ==
  ASSUME NEW b, NEW code
  PROVE  Flag(b, code) = {} => ~b
  BY DEF Flag

(* The addresses and the weights of a route are listed side by side. *)
LEMMA BackendsAndWeights ==
  ASSUME NEW r \in RouteEntry
  PROVE  /\ Len(AllBackends(r)) = Len(AllWeights(r))
         /\ \A j \in DOMAIN r.backends : \E k \in DOMAIN AllBackends(r) :
              AllBackends(r)[k] = r.backends[j].url /\ AllWeights(r)[k] = r.backends[j].weight
  <1> DEFINE urls == [i \in DOMAIN r.backends |-> r.backends[i].url]
             weights == [i \in DOMAIN r.backends |-> r.backends[i].weight]
  <1>1. r.backends \in Seq(WeightedBackend)
    BY DEF RouteEntry
  <1>2. PICK n \in Nat : n = Len(r.backends) /\ DOMAIN r.backends = 1 .. n
    BY <1>1
  <1>3. /\ urls \in Seq(STRING) /\ Len(urls) = n /\ weights \in Seq(Nat) /\ Len(weights) = n
        /\ DOMAIN urls = 1 .. n /\ DOMAIN weights = 1 .. n
        /\ \A i \in 1 .. n : urls[i] = r.backends[i].url /\ weights[i] = r.backends[i].weight
    <2>0. \A i \in 1 .. n : r.backends[i] \in WeightedBackend
      BY <1>1, <1>2
    <2>1. \A i \in 1 .. n : r.backends[i].url \in STRING /\ r.backends[i].weight \in Nat
      BY <2>0 DEF WeightedBackend
    <2>2. urls \in [1 .. n -> STRING] /\ weights \in [1 .. n -> Nat]
      BY <1>2, <2>1
    <2> QED
      BY <1>2, <2>2
  <1>4. ToSet(urls) = {r.backends[i].url : i \in DOMAIN r.backends}
    BY <1>2, <1>3 DEF ToSet
  <1>5. CASE r.backend = {} \/ r.backend \subseteq ToSet(urls)
    <2>1. AllBackends(r) = urls /\ AllWeights(r) = weights
      BY <1>4, <1>5 DEF AllBackends, AllWeights
    <2> HIDE DEF urls, weights
    <2> QED
      BY <1>2, <1>3, <2>1
  <1>6. CASE ~(r.backend = {} \/ r.backend \subseteq ToSet(urls))
    <2> DEFINE b == CHOOSE x \in r.backend : TRUE
    <2>1. AllBackends(r) = <<b>> \o urls /\ AllWeights(r) = <<1>> \o weights
      BY <1>4, <1>6 DEF AllBackends, AllWeights
    <2>2. b \in STRING
      BY <1>6 DEF RouteEntry
    <2> HIDE DEF urls, weights, b
    <2>3. /\ <<b>> \o urls \in Seq(STRING) /\ Len(<<b>> \o urls) = n + 1
          /\ <<1>> \o weights \in Seq(Nat) /\ Len(<<1>> \o weights) = n + 1
      BY <1>3, <2>2
    <2>4. \A i \in 1 .. n : /\ i + 1 \in DOMAIN (<<b>> \o urls)
                            /\ (<<b>> \o urls)[i + 1] = urls[i] /\ (<<1>> \o weights)[i + 1] = weights[i]
      BY <1>3, <2>2, <2>3
    <2> QED
      BY ZenonT(40), <1>2, <1>3, <2>1, <2>3, <2>4
  <1> QED
    BY <1>5, <1>6

(* The invariant of the start-up contains what the run checks. *)
LEMMA ConfigInvGives == ConfigInv => StartsAsConfigured
  <1> SUFFICES ASSUME ConfigInv, gateway.state = "serving" PROVE StartsAsConfigured
    BY DEF StartsAsConfigured, AllowlistKept, WeightsPaired, HttpsListens, PluginsRun, SignerReady, Serving
  <1>1. /\ conf \in Configurations /\ conf.routes \in Seq(RouteEntry) /\ ValidateDetailed(conf) = {}
        /\ gateway.allow = IpAllowlistTable(conf) /\ gateway.plugins = LoadFromConfig(conf)
        /\ gateway.signer = Signer(conf) /\ gateway.tls = conf.tls
    BY ConfigurationAssumption DEF ConfigInv, Built
  <1>2. /\ CidrErrors(conf) = {} /\ TlsErrors(conf) = {} /\ SigningErrors(conf) = {}
        /\ MonetizerErrors(conf) = {} /\ PluginErrors(conf) = {}
    BY <1>1 DEF ValidateDetailed
  <1>d. DOMAIN conf.routes \subseteq Nat /\ \A i \in DOMAIN conf.routes : conf.routes[i] \in RouteEntry
    BY <1>1
  <1>3. AllowlistKept
    <2> SUFFICES ASSUME NEW i \in DOMAIN conf.routes, conf.routes[i].allow # {},
                        \A j \in DOMAIN conf.routes :
                          i # j => Lower(conf.routes[j].host) # Lower(conf.routes[i].host)
                 PROVE  /\ Lower(conf.routes[i].host) \in DOMAIN gateway.allow
                        /\ gateway.allow[Lower(conf.routes[i].host)] = conf.routes[i].allow
      BY DEF AllowlistKept
    <2> DEFINE h == Lower(conf.routes[i].host)
               Listed(k) == /\ Lower(conf.routes[k].host) = h /\ conf.routes[k].allow # {}
                            /\ \A j \in DOMAIN conf.routes :
                                 Lower(conf.routes[j].host) = h /\ conf.routes[j].allow # {} => j <= k
               c == CHOOSE k \in DOMAIN conf.routes : Listed(k)
    <2>1. Listed(i) /\ \A k \in DOMAIN conf.routes : Listed(k) => k = i
      BY <1>d
    <2>2. c = i
      BY <2>1
    <2>3. \A n \in conf.routes[i].allow : Parses(n)
      BY <1>2, NoFlag DEF CidrErrors
    <2>4. h \in DOMAIN IpAllowlistTable(conf) /\ IpAllowlistTable(conf)[h] = {n \in conf.routes[c].allow : Parses(n)}
      BY DEF IpAllowlistTable, TableHosts
    <2> QED
      BY <1>1, <2>2, <2>3, <2>4
  <1>4. WeightsPaired
    BY <1>d, BackendsAndWeights DEF WeightsPaired
  <1>5. HttpsListens
    <2> SUFFICES ASSUME conf.forceHttps PROVE \E t \in gateway.tls : t.port > 0 /\ t.domains # {}
      BY DEF HttpsListens
    <2>1. /\ ~\E t \in conf.tls : t.domains = {} \/ t.email = "" \/ t.port = 0
          /\ conf.tls # {}
      BY <1>2, NoFlag DEF TlsErrors
    <2>2. PICK t \in conf.tls : TRUE
      BY <2>1
    <2>3. t.domains # {} /\ t.port # 0
      BY <2>1
    <2>4. t.port \in Nat
      BY <1>1, ConfigurationAssumption
    <2>5. t.port > 0 /\ t \in gateway.tls
      BY <1>1, <2>3, <2>4
    <2> QED
      BY <2>3, <2>5
  <1>6. PluginsRun
    BY <1>1, <1>2, NoFlag DEF PluginsRun, PluginErrors, LoadFromConfig, BuiltinPlugins
  <1>7. SignerReady
    <2>1. EffectiveSecret(conf.auth) # {} =>
            LongEnough(EffectiveSecret(conf.auth)) /\ ValidKeyId(EffectiveKeyId(conf.auth))
      BY <1>2, NoFlag DEF SigningErrors
    <2>2. "monetizer" \in LoadFromConfig(conf) => EffectiveSecret(conf.auth) # {}
      BY <1>2, NoFlag DEF MonetizerErrors, LoadFromConfig
    <2> QED
      BY <1>1, <2>1, <2>2 DEF SignerReady, Signer
  <1> QED
    BY <1>3, <1>4, <1>5, <1>6, <1>7 DEF StartsAsConfigured

-----------------------------------------------------------------------------
(* ResponseShaping.                                                        *)

(* What the configuration of a route and its backend may be. *)
ShapeSetting ==
  /\ shapeConf.remove \subseteq {"vary"} /\ shapeConf.add \subseteq {"x-frame-options"}
  /\ shapeConf.inject \subseteq {"x-volta-user-id"}
  /\ \E c \in {"identity", "br"}, x \in SUBSET BackendExtras : shapeConf.backend = BackendHeaders(c, x)

(* Headers that may go out: no identity from the backend, an origin that   *)
(* is allowed only with vary beside it, and coding and length that agree.  *)
CleanHeaders(h) ==
  /\ "x-volta-user-id" \in DOMAIN h => h["x-volta-user-id"] # "backend"
  /\ "content-length" \in DOMAIN h /\ Coding(h) \in {"identity", "gzip", "br"} =>
       h["content-length"] = Coding(h)

ForOrigin(h, origin) ==
  "access-control-allow-origin" \in DOMAIN h => h["access-control-allow-origin"] \in {"*", "backend", origin}

(* A stored response was made for anybody: whatever origin it was asked    *)
(* for with, it names none, unless the route removes vary.                 *)
ForAll(h) ==
  "access-control-allow-origin" \in DOMAIN h /\ "vary" \notin shapeConf.remove =>
    h["access-control-allow-origin"] \in {"*", "backend"}

ShapeInv ==
  /\ ShapeSetting
  /\ \A e \in slot : /\ e.body = "identity" /\ Coding(e.headers) = "identity"
                     /\ CleanHeaders(e.headers) /\ ForAll(e.headers)
  /\ ShapingSound

(* The shared slot starts empty. *)
LEMMA ShapeInitInv == ShapeInit => ShapeInv
  <1>1. DOMAIN NoResponse.headers = {} /\ NoResponse.body = "none"
    BY DEF NoResponse
  <1>2. ShapeInit => ShapingSound
    BY <1>1 DEF ShapeInit, ShapingSound, OwnOriginOnly, BodyAsLabelled, NoBackendIdentity
  <1> QED
    BY <1>2 DEF ShapeInit, ShapeInv, ShapeSetting

(* What each header of a shaped response says, and where it comes from. *)
LEMMA ShapeHeaders ==
  ASSUME ShapeSetting, NEW origin
  PROVE  LET h == Shape(shapeConf, origin) IN
         /\ CleanHeaders(h) /\ ForOrigin(h, origin)
         /\ "vary" \notin DOMAIN h => ForAll(h)
         /\ Coding(h) \in {"identity", "br", "backend"}
  <1> DEFINE b == shapeConf.backend
             s == Stripped(b)
             c == CorsHeaders(s, shapeConf.cors, origin)
             y == SecurityHeaders(c, shapeConf.add)
             t == RouteHeaders(y, shapeConf.remove, shapeConf.add)
             h == PluginHeaders(t, shapeConf.inject)
             coded == {"content-length", "content-encoding"}
             seen == {"access-control-allow-origin", "vary", "x-volta-user-id"} \cup coded
  <1>h. Shape(shapeConf, origin) = h
    BY DEF Shape
  <1>1. /\ Coding(b) \in {"identity", "br", "backend"}
        /\ "content-length" \in DOMAIN b /\ (Coding(b) \in {"identity", "br"} => b["content-length"] = Coding(b))
        /\ "access-control-allow-origin" \in DOMAIN b => b["access-control-allow-origin"] = "backend"
    BY DEF ShapeSetting, BackendHeaders, Insert, Coding
  <1>2. /\ \A n \in coded \cup {"access-control-allow-origin", "vary"} :
             (n \in DOMAIN s <=> n \in DOMAIN b) /\ (n \in DOMAIN b => s[n] = b[n])
        /\ "x-volta-user-id" \notin DOMAIN s
    BY DEF Stripped, InsertAll, Drop, Identity
  <1> HIDE DEF s
  <1>3. /\ \A n \in coded : (n \in DOMAIN c <=> n \in DOMAIN s) /\ (n \in DOMAIN s => c[n] = s[n])
        /\ "x-volta-user-id" \notin DOMAIN c
        /\ "access-control-allow-origin" \in DOMAIN c =>
             \/ c["access-control-allow-origin"] \in {"*", "backend"}
             \/ c["access-control-allow-origin"] = origin /\ "vary" \in DOMAIN c
    BY <1>1, <1>2 DEF CorsHeaders, AllowedOrigin, Insert
  <1> HIDE DEF c
  <1>4. \A n \in seen : (n \in DOMAIN y <=> n \in DOMAIN c) /\ (n \in DOMAIN c => y[n] = c[n])
    BY DEF SecurityHeaders, Insert
  <1> HIDE DEF y
  <1>5. /\ \A n \in seen \ {"vary"} : (n \in DOMAIN t <=> n \in DOMAIN y) /\ (n \in DOMAIN y => t[n] = y[n])
        /\ "vary" \in DOMAIN y /\ "vary" \notin shapeConf.remove => "vary" \in DOMAIN t
    BY DEF RouteHeaders, InsertAll, Drop, ShapeSetting
  <1> HIDE DEF t
  <1>6. /\ \A n \in seen \ {"x-volta-user-id"} :
             (n \in DOMAIN h <=> n \in DOMAIN t) /\ (n \in DOMAIN t => h[n] = t[n])
        /\ "x-volta-user-id" \in DOMAIN h => "x-volta-user-id" \in DOMAIN t \/ h["x-volta-user-id"] = "plugin"
    BY DEF PluginHeaders, InsertAll, ShapeSetting
  <1> HIDE DEF h
  <1>7. \A n \in coded : (n \in DOMAIN h <=> n \in DOMAIN b) /\ (n \in DOMAIN b => h[n] = b[n])
    BY <1>2, <1>3, <1>4, <1>5, <1>6
  <1>8. Coding(h) = Coding(b)
    BY <1>7 DEF Coding
  <1>9. "x-volta-user-id" \in DOMAIN h => h["x-volta-user-id"] = "plugin"
    BY <1>3, <1>4, <1>5, <1>6
  <1>10. CleanHeaders(h)
    BY <1>1, <1>7, <1>8, <1>9 DEF CleanHeaders
  <1>11. "access-control-allow-origin" \in DOMAIN h =>
             \/ h["access-control-allow-origin"] \in {"*", "backend"}
             \/ /\ h["access-control-allow-origin"] = origin
                /\ "vary" \notin shapeConf.remove => "vary" \in DOMAIN h
    BY <1>3, <1>4, <1>5, <1>6
  <1> QED
    BY <1>h, <1>1, <1>8, <1>10, <1>11 DEF ForOrigin, ForAll

(* The headers of a compressed body. *)
LEMMA GzipIs ==
  ASSUME NEW h
  PROVE  /\ Coding(GzipHeaders(h)) = "gzip" /\ GzipHeaders(h)["content-length"] = "gzip"
         /\ \A n \in {"access-control-allow-origin", "x-volta-user-id"} :
              (n \in DOMAIN GzipHeaders(h) <=> n \in DOMAIN h) /\ (n \in DOMAIN h => GzipHeaders(h)[n] = h[n])
  BY DEF GzipHeaders, InsertAll, Drop, Coding

(* A response with clean headers and the body they announce is sound. *)
LEMMA SoundResponse ==
  ASSUME NEW h, NEW b, NEW origin, Respond(h, b, origin), shapeConf' = shapeConf,
         CleanHeaders(h), "vary" \notin shapeConf.remove => ForOrigin(h, origin),
         b \in {"identity", "gzip", "br"} => Coding(h) = b
  PROVE  ShapingSound'
  <1>1. shaped'.headers = h /\ shaped'.body = b /\ shaped'.origin = origin
    BY DEF Respond
  <1>2. OwnOriginOnly'
    BY <1>1 DEF OwnOriginOnly, ForOrigin
  <1>3. BodyAsLabelled'
    BY <1>1 DEF BodyAsLabelled, CleanHeaders, Coding
  <1>4. NoBackendIdentity'
    BY <1>1 DEF NoBackendIdentity, CleanHeaders, Identity
  <1> QED
    BY <1>2, <1>3, <1>4 DEF ShapingSound

(* A hit adds a header that no property reads; it stays clean. *)
LEMMA HitClean ==
  ASSUME NEW h
  PROVE  LET hit == Insert(h, "x-volta-cache", "HIT") IN
         /\ Coding(hit) = Coding(h)
         /\ CleanHeaders(h) => CleanHeaders(hit)
         /\ ForAll(h) => \A origin : "vary" \notin shapeConf.remove => ForOrigin(hit, origin)
  <1> DEFINE hit == Insert(h, "x-volta-cache", "HIT")
             seen == {"access-control-allow-origin", "x-volta-user-id", "content-length", "content-encoding"}
  <1>1. \A n \in seen : (n \in DOMAIN hit <=> n \in DOMAIN h) /\ (n \in DOMAIN h => hit[n] = h[n])
    BY DEF Insert
  <1> HIDE DEF hit
  <1>2. Coding(hit) = Coding(h)
    BY <1>1 DEF Coding
  <1>3. CleanHeaders(h) => CleanHeaders(hit)
    BY <1>1, <1>2 DEF CleanHeaders
  <1>4. ForAll(h) => \A origin : "vary" \notin shapeConf.remove => ForOrigin(hit, origin)
    BY <1>1 DEF ForAll, ForOrigin
  <1> QED
    BY <1>2, <1>3, <1>4 DEF hit

(* The headers of a compressed body are clean when the plain ones are. *)
LEMMA GzipClean ==
  ASSUME NEW h, NEW origin, CleanHeaders(h), ForOrigin(h, origin)
  PROVE  CleanHeaders(GzipHeaders(h)) /\ ForOrigin(GzipHeaders(h), origin) /\ Coding(GzipHeaders(h)) = "gzip"
  BY GzipIs DEF CleanHeaders, ForOrigin

(* No headers at all are made for nobody. *)
LEMMA NoHeadersClean ==
  ASSUME NEW origin
  PROVE  CleanHeaders(<<>>) /\ ForOrigin(<<>>, origin)
  <1>1. DOMAIN <<>> = {}
    OBVIOUS
  <1> QED
    BY <1>1 DEF CleanHeaders, ForOrigin

(* The slot keeps clean entries that were made for anybody. *)
SlotInv(s) == \A e \in s : /\ e.body = "identity" /\ Coding(e.headers) = "identity"
                           /\ CleanHeaders(e.headers) /\ ForAll(e.headers)

(* An answer from the backend is shaped for its own client, and leaves a   *)
(* slot that fits everybody.                                               *)
LEMMA ServeFreshInv ==
  ASSUME ShapeInv, NEW origin, NEW shared \in BOOLEAN, NEW gzip \in BOOLEAN, ServeFresh(origin, shared, gzip)
  PROVE  ShapingSound' /\ SlotInv(slot') /\ shapeConf' = shapeConf
  <1>1. PICK h : h = Shape(shapeConf, origin)
    OBVIOUS
  <1>2. /\ CleanHeaders(h) /\ ForOrigin(h, origin)
        /\ "vary" \notin DOMAIN h => ForAll(h)
        /\ Coding(h) \in {"identity", "br", "backend"}
    BY <1>1, ShapeHeaders DEF ShapeInv
  <1>3. shapeConf' = shapeConf /\ SlotInv(slot)
    BY DEF ServeFresh, ShapeInv, SlotInv
  <1>4. CASE Respond(h, Coding(h), origin) /\ UNCHANGED slot
    BY <1>2, <1>3, <1>4, SoundResponse
  <1>5. CASE Coding(h) = "identity" /\ StoreAndCompress(h, origin)
    <2>1. CASE Respond(<<>>, "error page", origin) /\ UNCHANGED slot
      BY <1>3, <2>1, NoHeadersClean, SoundResponse
    <2>2. CASE Respond(h, "identity", origin) /\ UNCHANGED slot
      BY <1>2, <1>3, <1>5, <2>2, SoundResponse
    <2>3. CASE /\ slot' = IF IsResponseCacheable(h) THEN {[headers |-> h, body |-> "identity"]} ELSE slot
               /\ SmallerBody(h, origin)
      <3>1. SlotInv(slot')
        BY <1>2, <1>3, <1>5, <2>3 DEF SlotInv, IsResponseCacheable
      <3>2. CASE Respond(GzipHeaders(h), "gzip", origin)
        BY <1>2, <1>3, <3>1, <3>2, GzipClean, SoundResponse
      <3>3. CASE Respond(h, "identity", origin)
        BY <1>2, <1>3, <1>5, <3>1, <3>3, SoundResponse
      <3> QED
        BY <2>3, <3>2, <3>3 DEF SmallerBody
    <2> QED
      BY <1>5, <2>1, <2>2, <2>3 DEF StoreAndCompress
  <1>6. CASE Coding(h) = "identity" /\ StreamCompress(h, origin)
    <2>1. CASE Respond(GzipHeaders(h), "gzip", origin)
      BY <1>2, <1>3, <1>6, <2>1, GzipClean, SoundResponse DEF StreamCompress
    <2>2. CASE Respond(h, "cut off", origin)
      BY <1>2, <1>3, <1>6, <2>2, SoundResponse DEF StreamCompress
    <2> QED
      BY <1>6, <2>1, <2>2 DEF StreamCompress
  <1> QED
    BY <1>1, <1>4, <1>5, <1>6 DEF ServeFresh

(* Fresh answers, hits and configurations keep the invariant of the slot. *)
LEMMA ShapeStepInv == ShapeInv /\ [ShapeNext]_shapeVars => ShapeInv'
  <1> SUFFICES ASSUME ShapeInv, [ShapeNext]_shapeVars PROVE ShapeInv'
    OBVIOUS
  <1>1. ASSUME ShapingSound', SlotInv(slot'), shapeConf' = shapeConf
        PROVE  ShapeInv'
    <2>1. ShapeSetting'
      BY ZenonT(40), <1>1 DEF ShapeInv, ShapeSetting, BackendHeaders, Insert
    <2>2. (\A e \in slot : /\ e.body = "identity" /\ Coding(e.headers) = "identity"
                          /\ CleanHeaders(e.headers) /\ ForAll(e.headers))'
      BY <1>1 DEF SlotInv, ForAll
    <2> QED
      BY <1>1, <2>1, <2>2 DEF ShapeInv
  <1>2. SlotInv(slot) /\ ShapingSound
    BY DEF ShapeInv, SlotInv
  <1>3. CASE UNCHANGED shapeVars
    <2>1. UNCHANGED <<shapeConf, slot, shaped>>
      BY <1>3 DEF shapeVars
    <2>2. ShapingSound' /\ SlotInv(slot')
      BY <1>2, <2>1 DEF ShapingSound, OwnOriginOnly, BodyAsLabelled, NoBackendIdentity, Coding
    <2> QED
      BY <1>1, <2>1, <2>2
  <1>4. ASSUME NEW o \in CallerOrigins, ServeHit(o) PROVE ShapeInv'
    <2>1. PICK entry \in slot : Respond(Insert(entry.headers, "x-volta-cache", "HIT"), entry.body, o)
      BY <1>4 DEF ServeHit
    <2>2. /\ Coding(entry.headers) = "identity" /\ entry.body = "identity"
          /\ CleanHeaders(entry.headers) /\ ForAll(entry.headers)
      BY <1>2 DEF SlotInv
    <2>3. PICK h : h = entry.headers
      OBVIOUS
    <2>4. PICK hit : hit = Insert(h, "x-volta-cache", "HIT")
      OBVIOUS
    <2>5. CleanHeaders(hit) /\ Coding(hit) = "identity" /\ ("vary" \notin shapeConf.remove => ForOrigin(hit, o))
      BY <2>2, <2>3, <2>4, HitClean
    <2>6. Respond(hit, "identity", o) /\ shapeConf' = shapeConf /\ slot' = slot
      BY <1>4, <2>1, <2>2, <2>3, <2>4 DEF ServeHit
    <2>7. ShapingSound'
      BY <2>5, <2>6, SoundResponse
    <2> QED
      BY <1>1, <1>2, <2>6, <2>7
  <1>5. ASSUME NEW o \in CallerOrigins, NEW shared \in BOOLEAN, NEW gzip \in BOOLEAN, ServeFresh(o, shared, gzip)
        PROVE  ShapeInv'
    BY <1>1, <1>5, ServeFreshInv
  <1>6. CASE EntryGone
    <2>1. shapeConf' = shapeConf /\ shaped' = shaped /\ slot' = {}
      BY <1>6 DEF EntryGone
    <2>2. ShapingSound' /\ SlotInv(slot')
      BY <1>2, <2>1 DEF ShapingSound, OwnOriginOnly, BodyAsLabelled, NoBackendIdentity, Coding, SlotInv
    <2> QED
      BY <1>1, <2>1, <2>2
  <1> QED
    BY <1>3, <1>4, <1>5, <1>6 DEF ShapeNext

-------------------------------------------------------------------------------
(* The dynamic routes of the config sources.                               *)

(* Every host of some routes is in a table. *)
Covers(table, routes) == \A h \in Hosts : routes[h] # Absent => table[h] # Absent

DynamicTypes ==
  /\ dynamic \in RouteSets /\ chan \in [Sources -> Seq(Announcements)]
  /\ wpc \in [Sources -> {"recv", "load", "publish", "store"}]
  /\ mine \in [Sources -> RouteSets] /\ union \in [Sources -> RouteSets]
  /\ latest \in [Sources -> RouteSets] /\ crossed \in BOOLEAN

(* What a source announced last is at the end of its channel, or in the    *)
(* merge task's hands, or in its union, or in the shared table; and the    *)
(* union it is about to publish has every host of the table, as long as no *)
(* two merge tasks held copies of the table at once.                       *)
OnItsWay(s) ==
  /\ chan[s] # <<>> => chan[s][Len(chan[s])] = latest[s]
  /\ chan[s] = <<>> => /\ wpc[s] = "load" => mine[s] = latest[s]
                       /\ wpc[s] = "publish" => Covers(union[s], latest[s])
                       /\ wpc[s] \in {"store", "recv"} /\ ~crossed => Covers(dynamic, latest[s])
  /\ wpc[s] = "publish" /\ ~crossed => Covers(union[s], dynamic)
  /\ ~running => chan[s] = <<>> /\ wpc[s] = "recv" /\ latest[s] = NoRoutes

(* Only one merge task is between its load and its store of the table. *)
OnePublisher == ~crossed => \A s, t \in Sources : wpc[s] = "publish" /\ wpc[t] = "publish" => s = t

DynamicInv ==
  DynamicTypes /\ running \in BOOLEAN /\ OnePublisher /\ \A s \in Sources : OnItsWay(s)

(* The empty table is a table, and every table covers it. *)
LEMMA NoRoutesIsSet == NoRoutes \in RouteSets /\ \A t : Covers(t, NoRoutes)
  BY DEF NoRoutes, RouteSets, Covers

(* Before a source announces anything its union is empty. *)
LEMMA DynamicInitInv == Init => DynamicInv
  <1> SUFFICES ASSUME Init PROVE DynamicInv
    OBVIOUS
  <1>1. crossed \in BOOLEAN /\ running \in BOOLEAN
    BY DEF Init
  <1>2. DynamicTypes
    BY <1>1, NoRoutesIsSet, HotConfigAssumption DEF Init, DynamicTypes
  <1>3. OnePublisher /\ \A s \in Sources : OnItsWay(s)
    BY NoRoutesIsSet DEF Init, OnItsWay, OnePublisher
  <1> QED
    BY <1>1, <1>2, <1>3 DEF DynamicInv

(* A source whose own task and channel stay as they are, while the table   *)
(* gains hosts and loses none.                                             *)
LEMMA OtherSource ==
  ASSUME NEW z \in Sources, OnItsWay(z), chan'[z] = chan[z], wpc'[z] = wpc[z], mine'[z] = mine[z],
         union'[z] = union[z], latest'[z] = latest[z], running' = running, crossed => crossed',
         ~crossed' => Covers(dynamic', dynamic),
         ~crossed' /\ wpc[z] = "publish" => dynamic' = dynamic
  PROVE  OnItsWay(z)'
  BY DEF OnItsWay, Covers

(* The step of one source's task keeps the invariant if that source and    *)
(* the number of publishers stay as they should.                           *)
LEMMA OneSourceMoves ==
  ASSUME DynamicInv, NEW s \in Sources, DynamicTypes', running' = running, crossed => crossed', OnItsWay(s)',
         \A z \in Sources : z # s => /\ chan'[z] = chan[z] /\ wpc'[z] = wpc[z] /\ mine'[z] = mine[z]
                                     /\ union'[z] = union[z] /\ latest'[z] = latest[z],
         ~crossed' => Covers(dynamic', dynamic),
         dynamic' = dynamic \/ wpc[s] = "publish",
         wpc'[s] = "publish" => wpc[s] = "publish" \/ crossed' \/ \A t \in Sources \ {s} : wpc[t] # "publish"
  PROVE  DynamicInv'
  <1>1. OnePublisher'
    BY DEF DynamicInv, OnePublisher
  <1>2. ASSUME NEW z \in Sources, z # s
        PROVE  OnItsWay(z)'
    <2>1. ~crossed' /\ wpc[z] = "publish" => dynamic' = dynamic
      BY <1>2 DEF DynamicInv, OnePublisher
    <2>2. OnItsWay(z)
      BY DEF DynamicInv
    <2> QED
      BY <1>2, <2>1, <2>2, OtherSource
  <1>3. \A z \in Sources : OnItsWay(z)'
    BY <1>2
  <1> QED
    BY <1>1, <1>3 DEF DynamicInv

(* Every step of the store, of the admin calls and of the sources keeps    *)
(* what the sources announced on its way.                                  *)
LEMMA DynamicStepInv ==
  ASSUME DynamicInv, [Next]_vars
  PROVE  DynamicInv'
  <1> USE HotConfigAssumption, NoRoutesIsSet
  <1>t. DynamicTypes /\ running \in BOOLEAN /\ OnePublisher /\ \A s \in Sources : OnItsWay(s)
    BY DEF DynamicInv
  <1>c. Covers(dynamic, dynamic)
    BY DEF Covers
  <1>1. CASE UNCHANGED <<dynamic, chan, wpc, mine, union, latest, crossed>> /\ running' = running
    <2>1. DynamicTypes' /\ running' \in BOOLEAN
      BY <1>t, <1>1 DEF DynamicTypes
    <2>2. OnePublisher'
      BY <1>t, <1>1 DEF OnePublisher
    <2>3. Covers(dynamic', dynamic)
      BY <1>1, <1>c DEF Covers
    <2>4. \A z \in Sources : OnItsWay(z)'
      BY <1>t, <1>1, <2>3, OtherSource
    <2> QED
      BY <2>1, <2>2, <2>4 DEF DynamicInv
  <1>2. ASSUME NEW s \in Sources, NEW routes \in Announcements, Announce(s, routes) PROVE DynamicInv'
    <2>1. chan' = [chan EXCEPT ![s] = Append(chan[s], routes)] /\ latest' = [latest EXCEPT ![s] = routes]
      BY <1>2 DEF Announce
    <2>2. running /\ running' = running /\ UNCHANGED <<dynamic, wpc, mine, union, crossed>>
      BY <1>2 DEF Announce
    <2>3. routes \in RouteSets /\ chan[s] \in Seq(Announcements)
      BY <1>t DEF DynamicTypes
    <2>4. DynamicTypes'
      BY <1>t, <2>1, <2>2, <2>3 DEF DynamicTypes
    <2>5. chan'[s] = Append(chan[s], routes) /\ latest'[s] = routes
      BY <1>t, <2>1 DEF DynamicTypes
    <2>6. chan'[s] # <<>> /\ chan'[s][Len(chan'[s])] = routes
      BY <2>3, <2>5
    <2>7. OnItsWay(s)'
      BY <1>t, <2>2, <2>5, <2>6 DEF OnItsWay, Covers
    <2>8. \A z \in Sources : z # s => chan'[z] = chan[z] /\ latest'[z] = latest[z]
      BY <1>t, <2>1 DEF DynamicTypes
    <2>9. Covers(dynamic', dynamic)
      BY <1>c, <2>2 DEF Covers
    <2> QED
      BY <2>2, <2>4, <2>7, <2>8, <2>9, OneSourceMoves
  <1>3. ASSUME NEW s \in Sources, Recv(s) PROVE DynamicInv'
    <2>1. /\ mine' = [mine EXCEPT ![s] = Head(chan[s])] /\ chan' = [chan EXCEPT ![s] = Tail(chan[s])]
          /\ wpc' = [wpc EXCEPT ![s] = "load"] /\ chan[s] # <<>> /\ UNCHANGED <<dynamic, union, latest, crossed>>
          /\ running' = running
      BY <1>3 DEF Recv
    <2>2. chan[s] \in Seq(Announcements)
      BY <1>t DEF DynamicTypes
    <2>3. Head(chan[s]) \in RouteSets /\ Tail(chan[s]) \in Seq(Announcements)
      BY <2>1, <2>2
    <2>4. DynamicTypes'
      BY <1>t, <2>1, <2>3 DEF DynamicTypes
    <2>5. /\ chan'[s] = Tail(chan[s]) /\ mine'[s] = Head(chan[s]) /\ wpc'[s] = "load"
          /\ latest'[s] = latest[s]
      BY <1>t, <2>1 DEF DynamicTypes
    <2>6. running
      BY <1>t, <2>1 DEF OnItsWay
    <2>7. chan[s][Len(chan[s])] = latest[s]
      BY <1>t, <2>1 DEF OnItsWay
    <2>8. Tail(chan[s]) # <<>> => Tail(chan[s])[Len(Tail(chan[s]))] = chan[s][Len(chan[s])]
      BY <2>1, <2>2
    <2>9. Tail(chan[s]) = <<>> => Head(chan[s]) = chan[s][Len(chan[s])]
      <3>1. Head(chan[s]) = chan[s][1] /\ Len(Tail(chan[s])) = Len(chan[s]) - 1 /\ Len(chan[s]) \in Nat
        BY <2>1, <2>2
      <3>e. Len(<<>>) = 0
        OBVIOUS
      <3>2. Tail(chan[s]) = <<>> => Len(Tail(chan[s])) = 0
        BY <3>e, Zenon
      <3>3. Tail(chan[s]) = <<>> => Len(chan[s]) = 1
        BY <3>1, <3>2
      <3> QED
        BY <3>1, <3>3
    <2>10. OnItsWay(s)'
      BY <2>1, <2>5, <2>6, <2>7, <2>8, <2>9 DEF OnItsWay
    <2>11. \A z \in Sources : z # s => chan'[z] = chan[z] /\ mine'[z] = mine[z] /\ wpc'[z] = wpc[z]
      BY <1>t, <2>1 DEF DynamicTypes
    <2>12. Covers(dynamic', dynamic)
      BY <1>c, <2>1 DEF Covers
    <2> QED
      BY <2>1, <2>4, <2>5, <2>10, <2>11, <2>12, OneSourceMoves
  <1>4. ASSUME NEW s \in Sources, LoadUnion(s) PROVE DynamicInv'
    <2>1. PICK u : u = Override(dynamic, mine[s])
      OBVIOUS
    <2>2. /\ union' = [union EXCEPT ![s] = u] /\ wpc[s] = "load" /\ wpc' = [wpc EXCEPT ![s] = "publish"]
          /\ UNCHANGED <<dynamic, chan, mine, latest>> /\ running' = running
          /\ crossed' = (crossed \/ \E t \in Sources \ {s} : wpc[t] = "publish")
      BY <1>4, <2>1 DEF LoadUnion
    <2>3. u \in RouteSets /\ Covers(u, mine[s]) /\ Covers(u, dynamic)
      BY <1>t, <2>1 DEF DynamicTypes, Override, RouteSets, Covers
    <2>0. crossed' \in BOOLEAN /\ (crossed => crossed')
      BY <1>t, <2>2 DEF DynamicTypes
    <2>4. DynamicTypes'
      BY <1>t, <2>0, <2>2, <2>3 DEF DynamicTypes
    <2>5. union'[s] = u /\ wpc'[s] = "publish"
      BY <1>t, <2>2 DEF DynamicTypes
    <2>6. OnItsWay(s)'
      BY <1>t, <2>2, <2>3, <2>5 DEF OnItsWay, Covers
    <2>7. \A z \in Sources : z # s => union'[z] = union[z] /\ wpc'[z] = wpc[z]
      BY <1>t, <2>2 DEF DynamicTypes
    <2>8. crossed' \/ \A t \in Sources \ {s} : wpc[t] # "publish"
      BY <2>2
    <2>9. Covers(dynamic', dynamic)
      BY <1>c, <2>2 DEF Covers
    <2> QED
      BY <2>0, <2>2, <2>4, <2>6, <2>7, <2>8, <2>9, OneSourceMoves
  <1>5. ASSUME NEW s \in Sources, Publish(s) PROVE DynamicInv'
    <2>1. /\ dynamic' = union[s] /\ wpc[s] = "publish" /\ wpc' = [wpc EXCEPT ![s] = "store"]
          /\ UNCHANGED <<chan, mine, union, latest, crossed>> /\ running' = running
      BY <1>5 DEF Publish
    <2>2. DynamicTypes' /\ wpc'[s] = "store"
      BY <1>t, <2>1 DEF DynamicTypes
    <2>3. OnItsWay(s)'
      BY <1>t, <2>1, <2>2 DEF OnItsWay, Covers
    <2>4. ~crossed' => Covers(dynamic', dynamic)
      BY <1>t, <2>1 DEF OnItsWay
    <2>5. \A z \in Sources : z # s => wpc'[z] = wpc[z]
      BY <1>t, <2>1 DEF DynamicTypes
    <2> QED
      BY <2>1, <2>2, <2>3, <2>4, <2>5, OneSourceMoves
  <1>6. ASSUME NEW s \in Sources, StoreMerged(s) PROVE DynamicInv'
    <2>1. /\ wpc[s] = "store" /\ wpc' = [wpc EXCEPT ![s] = "recv"] /\ mine' = [mine EXCEPT ![s] = NoRoutes]
          /\ union' = [union EXCEPT ![s] = NoRoutes] /\ UNCHANGED <<dynamic, chan, latest, crossed>>
          /\ running' = running
      BY <1>6 DEF StoreMerged
    <2>2. DynamicTypes' /\ wpc'[s] = "recv"
      BY <1>t, <2>1 DEF DynamicTypes
    <2>3. OnItsWay(s)'
      BY <1>t, <2>1, <2>2 DEF OnItsWay, Covers, NoRoutes
    <2>4. \A z \in Sources : z # s => wpc'[z] = wpc[z] /\ mine'[z] = mine[z] /\ union'[z] = union[z]
      BY <1>t, <2>1 DEF DynamicTypes
    <2>5. Covers(dynamic', dynamic)
      BY <1>c, <2>1 DEF Covers
    <2> QED
      BY <2>1, <2>2, <2>3, <2>4, <2>5, OneSourceMoves
  <1>7. CASE Crash
    <2>1. /\ chan' = [z \in Sources |-> <<>>] /\ wpc' = [z \in Sources |-> "recv"]
          /\ mine' = [z \in Sources |-> NoRoutes] /\ union' = [z \in Sources |-> NoRoutes]
          /\ latest' = [z \in Sources |-> NoRoutes] /\ dynamic' = dynamic /\ running' = FALSE
          /\ crossed' = FALSE
      BY <1>7 DEF Crash, FreshTasks
    <2>b. crossed' \in BOOLEAN
      BY <2>1, Zenon
    <2>2. DynamicTypes'
      BY <1>t, <2>1, <2>b, SMT DEF DynamicTypes
    <2>3. OnePublisher'
      BY <2>1 DEF OnePublisher
    <2>4. \A z \in Sources : OnItsWay(z)'
      BY <2>1 DEF OnItsWay, NoRoutes, Covers
    <2> QED
      BY <2>1, <2>2, <2>3, <2>4 DEF DynamicInv
  <1>8. CASE Start
    <2>1. /\ dynamic' = NoRoutes /\ ~running /\ running' = TRUE
          /\ UNCHANGED <<chan, wpc, mine, union, latest, crossed>>
      BY <1>8 DEF Start, Loaded, merge
    <2>2. DynamicTypes'
      BY <1>t, <2>1 DEF DynamicTypes
    <2>3. OnePublisher'
      BY <1>t, <2>1 DEF OnePublisher
    <2>4. \A z \in Sources : OnItsWay(z)'
      BY <1>t, <2>1 DEF OnItsWay, NoRoutes, Covers
    <2> QED
      BY <2>1, <2>2, <2>3, <2>4 DEF DynamicInv
  <1>9. CASE UNCHANGED vars
    BY <1>1, <1>9 DEF vars, merge
  <1>10. ASSUME NEW a \in Admins, NEW c, Propose(a, c) PROVE DynamicInv'
    BY <1>1, <1>10 DEF Propose, merge
  <1>11. ASSUME NEW a \in Admins,
                Rename(a) \/ PersistFails(a) \/ Commit(a) \/ ReloadBase(a) \/ LoadSnapshot(a) \/ StoreHot(a)
         PROVE  DynamicInv'
    BY <1>1, <1>11 DEF Rename, PersistFails, Commit, ReloadBase, LoadSnapshot, StoreHot, merge
  <1>12. ASSUME NEW d \in BaseDocs, EditBase(d) PROVE DynamicInv'
    BY <1>1, <1>12 DEF EditBase, merge
  <1> QED
    BY <1>2, <1>3, <1>4, <1>5, <1>6, <1>7, <1>8, <1>9, <1>10, <1>11, <1>12 DEF Next, ApplyPatch, ClearOverlay

(***************************************************************************)
(* For any number of config sources, every host that one of them announced *)
(* last is in the shared table once the process is quiet, for any channel  *)
(* capacity, any number of admin calls that rebuild meanwhile and any      *)
(* crashes, unless two merge tasks held copies of the table at once        *)
(* (spawn_watchers, config_source.rs).                                     *)
(***************************************************************************)
THEOREM SourcesKept == Spec => []DynamicHasAll
  <1>1. DynamicInv /\ [Next]_vars => DynamicInv'
    BY DynamicStepInv
  <1>2. DynamicInv => DynamicHasAll
    BY DEF DynamicInv, OnItsWay, DynamicHasAll, Quiet, MergersIdle, Covers
  <1> QED
    BY <1>1, <1>2, DynamicInitInv, PTL DEF Spec

-------------------------------------------------------------------------------
(* Plugins: the quota of rate-limit-by-user.                               *)

Ordered(a) == \A i, j \in 1 .. Len(a) : i <= j => a[i] <= a[j]

(* A burst of two windows' worth of requests takes longer than a window. *)
Spread(a) ==
  \A i \in 1 .. Len(a) :
    i + (2 * MaxPerWindow - 1) <= Len(a) => a[i + (2 * MaxPerWindow - 1)] - a[i] >= UserWindow

(* How many of the requests of a window went through. *)
Through(x) == IF x.count < MaxPerWindow THEN x.count ELSE MaxPerWindow

(* The requests of a window are the last ones that went through, the first *)
(* of them opened it, and what a window's worth before it went through is  *)
(* a window older.                                                         *)
Windowed(a, x) ==
  /\ x \in [count : Nat \ {0}, start : Nat]
  /\ Through(x) <= Len(a) /\ a[Len(a) - Through(x) + 1] <= x.start
  /\ Len(a) - Through(x) >= MaxPerWindow =>
       a[Len(a) - Through(x) - MaxPerWindow + 1] + UserWindow <= x.start

UserInv(a, w, now) ==
  /\ a \in Seq(Nat) /\ Ordered(a) /\ Spread(a)
  /\ \A i \in 1 .. Len(a) : a[i] <= now
  /\ w = {} => a = <<>>
  /\ w # {} => \E x : w = {x} /\ Windowed(a, x) /\ x.start <= now

(* One more request goes through. *)
LEMMA AppendAdmitted ==
  ASSUME NEW a \in Seq(Nat), Ordered(a), Spread(a), NEW now \in Nat,
         \A i \in 1 .. Len(a) : a[i] <= now,
         \A i \in 1 .. Len(a) : i + (2 * MaxPerWindow - 1) = Len(a) + 1 => a[i] + UserWindow <= now
  PROVE  /\ Append(a, now) \in Seq(Nat) /\ Ordered(Append(a, now)) /\ Spread(Append(a, now))
         /\ \A i \in 1 .. Len(a) + 1 : Append(a, now)[i] <= now
  <1> USE PluginAssumption
  <1>1. PICK b : b = Append(a, now)
    OBVIOUS
  <1>2. b \in Seq(Nat) /\ Len(b) = Len(a) + 1 /\ Len(a) \in Nat
    BY <1>1
  <1>3. b[Len(a) + 1] = now /\ \A i \in 1 .. Len(a) : b[i] = a[i] /\ a[i] \in Nat
    BY <1>1
  <1>4. Ordered(b)
    <2> SUFFICES ASSUME NEW i \in 1 .. Len(b), NEW j \in 1 .. Len(b), i <= j PROVE b[i] <= b[j]
      BY Zenon DEF Ordered
    <2>1. CASE j = Len(a) + 1
      BY SMTT(30), <2>1, <1>2, <1>3
    <2>2. CASE j # Len(a) + 1
      <3>1. i \in 1 .. Len(a) /\ j \in 1 .. Len(a)
        BY <2>2, <1>2
      <3> QED
        BY <3>1, <1>3 DEF Ordered
    <2> QED
      BY <2>1, <2>2
  <1>5. Spread(b)
    <2> SUFFICES ASSUME NEW i \in 1 .. Len(b), i + (2 * MaxPerWindow - 1) <= Len(b)
                 PROVE  b[i + (2 * MaxPerWindow - 1)] - b[i] >= UserWindow
      BY DEF Spread
    <2>1. PICK k : k = i + (2 * MaxPerWindow - 1)
      OBVIOUS
    <2>2. k \in Nat /\ k > i /\ k <= Len(b) /\ i \in 1 .. Len(a)
      BY <1>2, <2>1
    <2>3. CASE k <= Len(a)
      <3>1. a[k] - a[i] >= UserWindow
        BY <2>1, <2>2, <2>3 DEF Spread
      <3>2. b[k] = a[k] /\ b[i] = a[i]
        BY <1>3, <2>2, <2>3
      <3> QED
        BY <2>1, <3>1, <3>2
    <2>4. CASE k = Len(a) + 1
      <3>1. a[i] + UserWindow <= now
        BY <2>1, <2>2, <2>4
      <3>2. b[k] = now /\ b[i] = a[i] /\ a[i] \in Nat
        BY <1>3, <2>2, <2>4
      <3>3. b[k] - b[i] >= UserWindow
        BY <3>1, <3>2
      <3> QED
        BY <2>1, <3>3
    <2>5. k <= Len(a) \/ k = Len(a) + 1
      <3>1. k <= Len(a) + 1
        BY <1>2, <2>2
      <3>2. PICK n \in Nat : n = Len(a)
        BY <1>2
      <3>3. \A y, z \in Nat : y <= z + 1 => y <= z \/ y = z + 1
        OBVIOUS
      <3>4. k <= n \/ k = n + 1
        BY <2>2, <3>1, <3>2, <3>3
      <3> QED
        BY <3>2, <3>4
    <2> QED
      BY <2>3, <2>4, <2>5
  <1>6. \A i \in 1 .. Len(a) + 1 : b[i] <= now
    <2> SUFFICES ASSUME NEW i \in 1 .. Len(a) + 1 PROVE b[i] <= now
      OBVIOUS
    <2>1. i \in 1 .. Len(a) \/ i = Len(a) + 1
      BY <1>2
    <2> QED
      BY <1>3, <2>1
  <1> QED
    BY <1>1, <1>2, <1>4, <1>5, <1>6

(* What rate-limit-by-user makes of a user's history. *)
LEMMA CountInv ==
  ASSUME NEW a, NEW w, NEW now \in Nat, UserInv(a, w, now), NEW x, x = Count(w, now)
  PROVE  /\ x.count <= MaxPerWindow => UserInv(Append(a, now), {x}, now)
         /\ x.count > MaxPerWindow => UserInv(a, {x}, now)
         /\ x.count \in Nat
  <1> USE PluginAssumption
  <1>u. a \in Seq(Nat) /\ Ordered(a) /\ Spread(a) /\ (\A i \in 1 .. Len(a) : a[i] <= now) /\ Len(a) \in Nat
    BY DEF UserInv
  <1>s. ASSUME NEW b \in Seq(Nat), Ordered(b), Spread(b), \A i \in 1 .. Len(b) : b[i] <= now,
               Windowed(b, x), x.start <= now
        PROVE  UserInv(b, {x}, now)
    BY <1>s DEF UserInv
  <1>b. PICK b : b = Append(a, now)
    OBVIOUS
  <1>l. Len(b) = Len(a) + 1 /\ b[Len(a) + 1] = now /\ (\A i \in 1 .. Len(a) : b[i] = a[i] /\ a[i] \in Nat)
    BY <1>u, <1>b
  <1>a. ASSUME Windowed(b, x), x.start <= now,
               \A i \in 1 .. Len(a) : i + (2 * MaxPerWindow - 1) = Len(a) + 1 => a[i] + UserWindow <= now
        PROVE  UserInv(Append(a, now), {x}, now)
    <2>1. /\ b \in Seq(Nat) /\ Ordered(b) /\ Spread(b)
          /\ \A i \in 1 .. Len(b) : b[i] <= now
      BY <1>a, <1>u, <1>b, <1>l, AppendAdmitted
    <2> QED
      BY <1>a, <1>b, <1>s, <2>1
  <1>1. CASE w = {}
    <2>1. x = [count |-> 1, start |-> now] /\ a = <<>>
      BY <1>1 DEF Count, None, UserInv
    <2>2. Len(a) = 0
      BY <2>1
    <2>3. Through(x) = 1
      BY <2>1 DEF Through
    <2>4. Windowed(b, x)
      BY <1>l, <2>1, <2>2, <2>3 DEF Windowed
    <2> QED
      BY <1>a, <2>1, <2>2, <2>4
  <1>2. CASE w # {}
    <2>1. PICK o : w = {o} /\ Windowed(a, o) /\ o.start <= now
      BY <1>2 DEF UserInv
    <2>2. (CHOOSE z \in w : TRUE) = o
      BY <2>1
    <2>0. o \in [count : Nat \ {0}, start : Nat]
      BY <2>1 DEF Windowed
    <2>3. o.count \in Nat \ {0} /\ o.start \in Nat
      BY <2>0
    <2>4. PICK m : m = Through(o)
      OBVIOUS
    <2>5. m \in Nat /\ 1 <= m /\ m <= MaxPerWindow /\ m <= Len(a) /\ m <= o.count
      BY <2>1, <2>3, <2>4 DEF Through, Windowed
    <2>6. a[Len(a) - m + 1] <= o.start
      BY <2>1, <2>4 DEF Windowed
    <2>7. Len(a) - m >= MaxPerWindow => a[Len(a) - m - MaxPerWindow + 1] + UserWindow <= o.start
      BY <2>1, <2>4 DEF Windowed
    <2>8. CASE now - o.start >= UserWindow
      <3>1. x = [count |-> 1, start |-> now]
        BY <1>2, <2>2, <2>8 DEF Count, None
      <3>2. Through(x) = 1
        BY <3>1 DEF Through
      <3>3. ASSUME NEW i \in 1 .. Len(a), i <= Len(a) - MaxPerWindow + 1 PROVE a[i] + UserWindow <= now
        <4>1. PICK k : k = Len(a) - m + 1
          OBVIOUS
        <4>2. k \in 1 .. Len(a) /\ i <= k
          BY <1>u, <2>5, <3>3, <4>1
        <4>3. a[i] <= a[k] /\ a[k] \in Nat /\ a[i] \in Nat
          BY <1>u, <4>2 DEF Ordered
        <4> QED
          BY <2>3, <2>6, <2>8, <4>1, <4>3
      <3>4. Windowed(b, x)
        <4>1. Through(x) <= Len(b) /\ b[Len(b) - Through(x) + 1] <= x.start
          BY <1>u, <1>l, <3>1, <3>2
        <4>2. ASSUME Len(b) - Through(x) >= MaxPerWindow
              PROVE  b[Len(b) - Through(x) - MaxPerWindow + 1] + UserWindow <= x.start
          <5>1. PICK i : i = Len(a) - MaxPerWindow + 1
            OBVIOUS
          <5>2. i \in 1 .. Len(a)
            BY <1>u, <1>l, <3>2, <4>2, <5>1
          <5>3. Len(b) - Through(x) - MaxPerWindow + 1 = i
            BY <1>u, <1>l, <3>2, <5>1
          <5>4. a[i] + UserWindow <= now
            BY <3>3, <5>1, <5>2
          <5> QED
            BY <1>l, <3>1, <5>2, <5>3, <5>4
        <4> QED
          BY <3>1, <4>1, <4>2 DEF Windowed
      <3>5. \A i \in 1 .. Len(a) : i + (2 * MaxPerWindow - 1) = Len(a) + 1 => a[i] + UserWindow <= now
        BY <1>u, <3>3
      <3> QED
        BY <1>a, <3>1, <3>4, <3>5
    <2>9. CASE now - o.start < UserWindow
      <3>1. x = [o EXCEPT !.count = o.count + 1]
        <4>1. ~(now - o.start >= UserWindow)
          BY <2>3, <2>9
        <4> QED
          BY <1>2, <2>2, <4>1 DEF Count, None
      <3>2. x \in [count : Nat \ {0}, start : Nat] /\ x.count = o.count + 1 /\ x.start = o.start
        BY <2>0, <2>3, <3>1
      <3>3. CASE x.count <= MaxPerWindow
        <4>1. Through(x) = m + 1 /\ m < MaxPerWindow
          BY <2>3, <2>4, <3>2, <3>3 DEF Through
        <4>2. Len(b) - Through(x) = Len(a) - m
          BY <1>u, <1>l, <2>5, <4>1
        <4>3. Through(x) <= Len(b) /\ b[Len(b) - Through(x) + 1] <= x.start
          <5>1. PICK i : i = Len(a) - m + 1
            OBVIOUS
          <5>2. i \in 1 .. Len(a) /\ Through(x) <= Len(b)
            BY <1>u, <1>l, <2>5, <4>1, <5>1
          <5>3. Len(b) - Through(x) + 1 = i
            BY <4>2, <5>1
          <5> QED
            BY <1>l, <2>6, <3>2, <5>1, <5>2, <5>3
        <4>4. ASSUME Len(b) - Through(x) >= MaxPerWindow
              PROVE  b[Len(b) - Through(x) - MaxPerWindow + 1] + UserWindow <= x.start
          <5>1. PICK i : i = Len(a) - m - MaxPerWindow + 1
            OBVIOUS
          <5>2. i \in 1 .. Len(a)
            BY <1>u, <2>5, <4>2, <4>4, <5>1
          <5>3. Len(b) - Through(x) - MaxPerWindow + 1 = i
            BY <4>2, <5>1
          <5>4. a[i] + UserWindow <= o.start
            BY <2>7, <4>2, <4>4, <5>1
          <5> QED
            BY <1>l, <3>2, <5>2, <5>3, <5>4
        <4>5. Windowed(b, x)
          BY <3>2, <4>3, <4>4 DEF Windowed
        <4>6. ASSUME NEW i \in 1 .. Len(a), i + (2 * MaxPerWindow - 1) = Len(a) + 1
              PROVE  a[i] + UserWindow <= now
          <5>1. PICK k : k = Len(a) - m - MaxPerWindow + 1
            OBVIOUS
          <5>2. k \in 1 .. Len(a) /\ i <= k /\ Len(a) - m >= MaxPerWindow
            BY <1>u, <2>5, <4>1, <4>6, <5>1
          <5>3. a[i] <= a[k] /\ a[k] \in Nat /\ a[i] \in Nat
            BY <1>u, <5>2 DEF Ordered
          <5>4. a[k] + UserWindow <= o.start
            BY <2>7, <5>1, <5>2
          <5> QED
            BY <2>1, <2>3, <5>3, <5>4
        <4> QED
          BY <1>a, <2>1, <3>2, <3>3, <4>5, <4>6
      <3>4. CASE x.count > MaxPerWindow
        <4>1. Through(x) = m
          BY <2>3, <2>4, <3>2, <3>4 DEF Through
        <4>2. Windowed(a, x)
          BY <2>5, <2>6, <2>7, <3>2, <4>1 DEF Windowed
        <4>3. UserInv(a, {x}, now)
          BY <1>s, <1>u, <2>1, <3>2, <4>2
        <4> QED
          BY <2>3, <3>2, <3>4, <4>3
      <3> QED
        BY <3>2, <3>3, <3>4
    <2> QED
      BY <2>3, <2>8, <2>9
  <1> QED
    BY <1>1, <1>2

-------------------------------------------------------------------------------
(* Plugins: the billing record of monetizer.                               *)

CallRecords ==
  [at : {"run", "fetch", "store", "remove", "forward", "refused"}, next : Nat,
   user : Payers \cup {NoUser}, key : BOOLEAN, plan : SUBSET Nat, since : Nat]

(* The plan a call has, by where the call is: the service may have read it *)
(* only after the call began to ask, and what a call was given is at most  *)
(* a time to live and a call of the service out of date.                   *)
CallInv(c, now, ended) ==
  c # NoCall =>
    /\ c \in CallRecords /\ c.since <= now
    /\ c.plan # {} \/ c.at \in {"fetch", "store", "remove"} => c.user \in Payers
    /\ c.at \in {"fetch", "store"} => now - c.since <= FetchTimeout
    /\ c.at = "store" =>
         c.plan # {} /\ \A v \in c.plan : v < Len(ended[c.user]) => c.since <= ended[c.user][v + 1]
    /\ c.at \in {"run", "forward"} =>
         \A v \in c.plan : v < Len(ended[c.user]) =>
           c.since - ended[c.user][v + 1] <= BillingTtl + FetchTimeout

CallsInv(f, now, ended) ==
  f \in [PluginCalls -> {NoCall} \cup CallRecords] /\ \A r \in PluginCalls : CallInv(f[r], now, ended)

(* What is in the cache was true one call of the service before it was put *)
(* there.                                                                  *)
EntryInv(e, now, ends) ==
  /\ e.at <= now
  /\ e.version < Len(ends) => e.at - ends[e.version + 1] <= FetchTimeout

EntryRecords == [version : Nat, at : Nat]

EntriesInv(f, now, ended) ==
  f \in [Payers -> SUBSET EntryRecords] /\ \A u \in Payers : \A e \in f[u] : EntryInv(e, now, ended[u])

PlansInv(p, ended, now) ==
  /\ p \in [Payers -> Nat] /\ ended \in [Payers -> Seq(Nat)]
  /\ \A u \in Payers : Len(ended[u]) = p[u] /\ \A i \in 1 .. Len(ended[u]) : ended[u][i] <= now

QuotaInv(a, w, now) ==
  /\ a = [u \in Payers |-> a[u]] /\ w = [u \in Payers |-> w[u]]
  /\ \A u \in Payers : UserInv(a[u], w[u], now)

PluginInv ==
  /\ pluginTime \in Nat
  /\ CallsInv(pluginCall, pluginTime, superseded)
  /\ EntriesInv(billing, pluginTime, superseded)
  /\ PlansInv(plan, superseded, pluginTime)
  /\ QuotaInv(admitted, userWindow, pluginTime)

(* The plugins start without counters, cached plans and calls. *)
LEMMA PluginInitInv == PluginInit => PluginInv
  <1> SUFFICES ASSUME PluginInit PROVE PluginInv
    OBVIOUS
  <1> USE PluginAssumption
  <1>1. CallsInv(pluginCall, pluginTime, superseded)
    BY DEF PluginInit, CallsInv, CallInv
  <1>2. EntriesInv(billing, pluginTime, superseded)
    BY DEF PluginInit, EntriesInv, None
  <1>3. PlansInv(plan, superseded, pluginTime)
    <2>1. <<>> \in Seq(Nat) /\ Len(<<>>) = 0
      OBVIOUS
    <2> QED
      BY <2>1 DEF PluginInit, PlansInv
  <1>4. UserInv(<<>>, {}, 0)
    BY DEF UserInv, Ordered, Spread
  <1>5. QuotaInv(admitted, userWindow, pluginTime)
    BY <1>4 DEF PluginInit, QuotaInv, None
  <1> QED
    BY <1>1, <1>2, <1>3, <1>5 DEF PluginInit, PluginInv

(* A step of one call. *)
LEMMA CallMoves ==
  ASSUME PluginInv, NEW r \in PluginCalls, NEW c \in CallRecords, CallInv(c, pluginTime, superseded),
         pluginCall' = [pluginCall EXCEPT ![r] = c]
  PROVE  CallsInv(pluginCall', pluginTime, superseded)
  BY DEF PluginInv, CallsInv

(* A call that goes on to the next plugin keeps what is said of calls. *)
LEMMA AdvanceInv ==
  ASSUME PluginInv, NEW r \in PluginCalls, pluginCall[r].at = "run", Advance(r)
  PROVE  CallsInv(pluginCall', pluginTime, superseded)
  <1>1. PICK o : o = pluginCall[r]
    OBVIOUS
  <1>2. o \in CallRecords /\ CallInv(o, pluginTime, superseded) /\ o # NoCall
    BY <1>1 DEF PluginInv, CallsInv, NoCall
  <1>3. PICK c : c = [o EXCEPT !.at = "run", !.next = o.next + 1]
    OBVIOUS
  <1>4. /\ c \in CallRecords /\ c.at = "run" /\ c.user = o.user /\ c.plan = o.plan /\ c.since = o.since
        /\ o.at = "run" /\ c # NoCall
    <2>1. o.next \in Nat /\ o.next + 1 \in Nat
      BY <1>2 DEF CallRecords
    <2>2. c \in CallRecords
      BY <1>2, <1>3, <2>1 DEF CallRecords
    <2>3. c.at = "run" /\ c.user = o.user /\ c.plan = o.plan /\ c.since = o.since
      BY <1>2, <1>3 DEF CallRecords
    <2> QED
      BY <1>1, <2>2, <2>3 DEF NoCall
  <1>5. CallInv(c, pluginTime, superseded)
    BY <1>2, <1>4 DEF CallInv
  <1>6. pluginCall' = [pluginCall EXCEPT ![r] = c]
    BY <1>1, <1>3 DEF Advance
  <1> QED
    BY <1>4, <1>5, <1>6, CallMoves

(* A call that is refused keeps what is said of calls. *)
LEMMA RefuseInv ==
  ASSUME PluginInv, NEW r \in PluginCalls, pluginCall[r].at = "run", Refuse(r)
  PROVE  CallsInv(pluginCall', pluginTime, superseded)
  <1>1. PICK o : o = pluginCall[r]
    OBVIOUS
  <1>2. o \in CallRecords /\ CallInv(o, pluginTime, superseded) /\ o # NoCall
    BY <1>1 DEF PluginInv, CallsInv, NoCall
  <1>3. PICK c : c = [o EXCEPT !.at = "refused"]
    OBVIOUS
  <1>4. /\ c \in CallRecords /\ c.at = "refused" /\ c.user = o.user /\ c.plan = o.plan /\ c.since = o.since
        /\ c # NoCall
    BY <1>1, <1>2, <1>3 DEF CallRecords, NoCall
  <1>5. CallInv(c, pluginTime, superseded)
    BY <1>2, <1>4 DEF CallInv
  <1>6. pluginCall' = [pluginCall EXCEPT ![r] = c]
    BY <1>1, <1>3 DEF Refuse
  <1> QED
    BY <1>4, <1>5, <1>6, CallMoves

(* The call is given a version that was true, at the latest, so long ago. *)
LEMMA BilledInv ==
  ASSUME PluginInv, NEW r \in PluginCalls, pluginCall[r] \in CallRecords, pluginCall[r].user \in Payers,
         NEW version \in Nat, Billed(r, version),
         version < Len(superseded[pluginCall[r].user]) =>
           pluginTime - superseded[pluginCall[r].user][version + 1] <= BillingTtl + FetchTimeout
  PROVE  CallsInv(pluginCall', pluginTime, superseded)
  <1>1. PICK o : o = pluginCall[r]
    OBVIOUS
  <1>2. pluginTime \in Nat
    BY DEF PluginInv
  <1>3. PICK c : c = [o EXCEPT !.at = "run", !.next = o.next + 1, !.plan = {version}, !.since = pluginTime]
    OBVIOUS
  <1>4. /\ c \in CallRecords /\ c.at = "run" /\ c.user = o.user /\ c.plan = {version} /\ c.since = pluginTime
        /\ c # NoCall
    <2>1. o.next \in Nat /\ o.next + 1 \in Nat /\ o \in CallRecords /\ {version} \in SUBSET Nat
      BY <1>1 DEF CallRecords
    <2>2. c \in CallRecords
      BY <1>2, <1>3, <2>1 DEF CallRecords
    <2>3. c.at = "run" /\ c.user = o.user /\ c.plan = {version} /\ c.since = pluginTime
      BY <1>3, <2>1 DEF CallRecords
    <2> QED
      BY <2>2, <2>3 DEF NoCall
  <1>5. CallInv(c, pluginTime, superseded)
    BY <1>1, <1>2, <1>4 DEF CallInv
  <1>6. pluginCall' = [pluginCall EXCEPT ![r] = c]
    BY <1>1, <1>3 DEF Billed
  <1> QED
    BY <1>4, <1>5, <1>6, CallMoves

(* A step that moves a call and nothing else. *)
LEMMA OnlyCalls ==
  ASSUME PluginInv, CallsInv(pluginCall', pluginTime, superseded),
         UNCHANGED <<others, userWindow, billing, admitted>>
  PROVE  PluginInv'
  BY DEF PluginInv, others

(* A call that is under way has a record. *)
LEMMA CallIs ==
  ASSUME PluginInv, NEW r \in PluginCalls, pluginCall[r].at # "none"
  PROVE  pluginCall[r] \in CallRecords /\ pluginCall[r] # NoCall /\ CallInv(pluginCall[r], pluginTime, superseded)
  BY DEF PluginInv, CallsInv, NoCall

(* A new call begins with nothing attached. *)
LEMMA BeginInv ==
  ASSUME PluginInv, NEW r \in PluginCalls, NEW u \in Payers \cup {NoUser}, NEW key \in BOOLEAN,
         BeginRequest(r, u, key)
  PROVE  PluginInv'
  <1>1. PICK c : c = Begun(u, key)
    OBVIOUS
  <1>2. /\ c \in CallRecords /\ c.plan = {} /\ c.at = "run" /\ c.since = 0
    BY <1>1 DEF Begun, CallRecords, None
  <1>3. CallInv(c, pluginTime, superseded)
    BY <1>2 DEF CallInv, PluginInv
  <1>4. CallsInv(pluginCall', pluginTime, superseded)
    BY <1>1, <1>2, <1>3, CallMoves DEF BeginRequest
  <1> QED
    BY <1>4 DEF BeginRequest, PluginInv

(* The plugins without state only let a call go on or refuse it. *)
LEMMA StatelessInv ==
  ASSUME PluginInv, NEW r \in PluginCalls, ApiKeyAuth(r) \/ HeaderInjector(r)
  PROVE  PluginInv'
  <1>1. pluginCall[r].at = "run" /\ (Advance(r) \/ Refuse(r)) /\ UNCHANGED <<others, userWindow, billing, admitted>>
    BY DEF ApiKeyAuth, HeaderInjector, AtPlugin
  <1> QED
    BY <1>1, AdvanceInv, RefuseInv, OnlyCalls

(* The limiter by user counts what it admits in the window it is admitted  *)
(* in.                                                                     *)
LEMMA RateLimitInv ==
  ASSUME PluginInv, NEW r \in PluginCalls, RateLimitByUser(r)
  PROVE  PluginInv'
  <1>1. pluginCall[r].at = "run" /\ UNCHANGED <<others, billing>>
    BY DEF RateLimitByUser, AtPlugin
  <1>2. PICK u : u = pluginCall[r].user
    OBVIOUS
  <1>3. u \in Payers \cup {NoUser}
    BY <1>1, <1>2, CallIs DEF CallRecords
  <1>4. CASE u = NoUser
    BY <1>1, <1>2, <1>4, AdvanceInv, OnlyCalls DEF RateLimitByUser
  <1>5. CASE u # NoUser
    <2>1. u \in Payers
      BY <1>3, <1>5
    <2>2. PICK x : x = Count(userWindow[u], pluginTime)
      OBVIOUS
    <2>3. /\ userWindow' = [userWindow EXCEPT ![u] = {x}]
          /\ IF x.count > MaxPerWindow
             THEN Refuse(r) /\ UNCHANGED admitted
             ELSE Advance(r) /\ admitted' = [admitted EXCEPT ![u] = Append(admitted[u], pluginTime)]
      BY <1>2, <1>5, <2>2 DEF RateLimitByUser
    <2>4. pluginTime \in Nat /\ UserInv(admitted[u], userWindow[u], pluginTime)
      BY <2>1 DEF PluginInv, QuotaInv
    <2>5. /\ x.count <= MaxPerWindow => UserInv(Append(admitted[u], pluginTime), {x}, pluginTime)
          /\ x.count > MaxPerWindow => UserInv(admitted[u], {x}, pluginTime)
          /\ x.count \in Nat
      BY <2>2, <2>4, CountInv
    <2>6. CallsInv(pluginCall', pluginTime, superseded)
      BY <1>1, <2>3, AdvanceInv, RefuseInv
    <2>7. QuotaInv(admitted, userWindow, pluginTime)
      BY DEF PluginInv
    <2>8. QuotaInv(admitted', userWindow', pluginTime)
      <3>1. CASE x.count > MaxPerWindow
        BY <2>1, <2>3, <2>5, <2>7, <3>1 DEF QuotaInv
      <3>2. CASE ~(x.count > MaxPerWindow)
        <4>1. UserInv(Append(admitted[u], pluginTime), {x}, pluginTime)
          BY <2>5, <3>2, PluginAssumption
        <4>2. PICK a : a = Append(admitted[u], pluginTime)
          OBVIOUS
        <4>3. admitted' = [admitted EXCEPT ![u] = a]
          BY <2>3, <3>2, <4>2
        <4> QED
          BY <2>1, <2>3, <2>7, <4>1, <4>2, <4>3 DEF QuotaInv
      <3> QED
        BY <3>1, <3>2
    <2> QED
      BY <1>1, <2>6, <2>8 DEF PluginInv, others
  <1> QED
    BY <1>4, <1>5

(* A hit in the billing cache is no older than its time to live. *)
LEMMA GetCachedInv ==
  ASSUME PluginInv, NEW r \in PluginCalls, GetCached(r)
  PROVE  PluginInv'
  <1> USE PluginAssumption
  <1>1. pluginCall[r].at = "run" /\ UNCHANGED <<others, userWindow, billing, admitted>>
    BY DEF GetCached, AtPlugin
  <1>2. PICK o : o = pluginCall[r]
    OBVIOUS
  <1>3. o \in CallRecords /\ o # NoCall /\ CallInv(o, pluginTime, superseded) /\ pluginTime \in Nat
    BY <1>1, <1>2, CallIs DEF PluginInv
  <1>4. PICK u : u = o.user
    OBVIOUS
  <1>5. u \in Payers \cup {NoUser}
    BY <1>3, <1>4 DEF CallRecords
  <1>6. CASE u = NoUser
    <2>1. Advance(r)
      BY <1>2, <1>4, <1>6 DEF GetCached
    <2> QED
      BY <1>1, <2>1, AdvanceInv, OnlyCalls
  <1>7. CASE u # NoUser /\ billing[u] = None
    <2>1. PICK c : c = [o EXCEPT !.at = "fetch", !.since = pluginTime]
      OBVIOUS
    <2>2. pluginCall' = [pluginCall EXCEPT ![r] = c]
      BY <1>2, <1>4, <1>7, <2>1 DEF GetCached
    <2>3. c \in CallRecords
      BY <1>3, <2>1 DEF CallRecords
    <2>4. c.at = "fetch" /\ c.since = pluginTime /\ c.user = u
      BY <1>3, <1>4, <2>1 DEF CallRecords
    <2>5. CallInv(c, pluginTime, superseded)
      BY <1>3, <1>5, <1>7, <2>3, <2>4 DEF CallInv
    <2> QED
      BY <1>1, <2>2, <2>3, <2>5, CallMoves, OnlyCalls
  <1>8. CASE u # NoUser /\ billing[u] # None
    <2>1. PICK e : e = CHOOSE z \in billing[u] : TRUE
      OBVIOUS
    <2>2. u \in Payers /\ billing[u] # {}
      BY <1>5, <1>8 DEF None
    <2>3. e \in billing[u]
      BY <2>1, <2>2
    <2>4. e \in EntryRecords /\ EntryInv(e, pluginTime, superseded[u])
      BY <2>2, <2>3 DEF PluginInv, EntriesInv
    <2>5. e.version \in Nat /\ e.at \in Nat
      BY <2>4 DEF EntryRecords
    <2>6. IF FreshBilling(e) THEN Billed(r, e.version)
          ELSE pluginCall' = [pluginCall EXCEPT ![r].at = "remove"]
      BY <1>2, <1>4, <1>8, <2>1 DEF GetCached
    <2>7. CASE FreshBilling(e)
      <3>1. pluginTime - e.at < BillingTtl
        BY <2>7 DEF FreshBilling
      <3>2. ASSUME e.version < Len(superseded[u])
            PROVE  pluginTime - superseded[u][e.version + 1] <= BillingTtl + FetchTimeout
        <4>1. PICK t : t = superseded[u][e.version + 1]
          OBVIOUS
        <4>2. superseded[u] \in Seq(Nat)
          BY <2>2 DEF PluginInv, PlansInv
        <4>3. e.version + 1 \in 1 .. Len(superseded[u])
          BY <2>5, <3>2, <4>2
        <4>4. t \in Nat
          BY <4>1, <4>2, <4>3
        <4>5. e.at - t <= FetchTimeout
          BY <2>4, <3>2, <4>1 DEF EntryInv
        <4>6. pluginTime - t <= BillingTtl + FetchTimeout
          BY <1>3, <2>5, <3>1, <4>4, <4>5
        <4> QED
          BY <4>1, <4>6
      <3>3. CallsInv(pluginCall', pluginTime, superseded)
        BY <1>2, <1>3, <1>4, <2>2, <2>5, <2>6, <2>7, <3>2, BilledInv
      <3> QED
        BY <1>1, <3>3, OnlyCalls
    <2>8. CASE ~FreshBilling(e)
      <3>1. PICK c : c = [o EXCEPT !.at = "remove"]
        OBVIOUS
      <3>2. pluginCall' = [pluginCall EXCEPT ![r] = c]
        BY <1>2, <2>6, <2>8, <3>1
      <3>3. c \in CallRecords
        BY <1>3, <3>1 DEF CallRecords
      <3>4. c.at = "remove" /\ c.since = o.since /\ c.user = u
        BY <1>3, <1>4, <3>1 DEF CallRecords
      <3>5. CallInv(c, pluginTime, superseded)
        BY <1>3, <2>2, <3>3, <3>4 DEF CallInv
      <3> QED
        BY <1>1, <3>2, <3>3, <3>5, CallMoves, OnlyCalls
    <2> QED
      BY <2>7, <2>8
  <1> QED
    BY <1>6, <1>7, <1>8

(* Removing an entry, expired or fresh, keeps the invariant. *)
LEMMA RemoveExpiredInv ==
  ASSUME PluginInv, NEW r \in PluginCalls, RemoveExpired(r)
  PROVE  PluginInv'
  <1> USE PluginAssumption
  <1>1. PICK o : o = pluginCall[r]
    OBVIOUS
  <1>2. o \in CallRecords /\ o.at = "remove" /\ CallInv(o, pluginTime, superseded) /\ pluginTime \in Nat /\ o # NoCall
    BY <1>1, CallIs DEF PluginInv, RemoveExpired
  <1>3. PICK c : c = [o EXCEPT !.at = "fetch", !.since = pluginTime]
    OBVIOUS
  <1>4. pluginCall' = [pluginCall EXCEPT ![r] = c]
    BY <1>1, <1>3 DEF RemoveExpired
  <1>5. c \in CallRecords
    BY <1>2, <1>3 DEF CallRecords
  <1>6. c.at = "fetch" /\ c.since = pluginTime /\ c.user = o.user
    BY <1>2, <1>3 DEF CallRecords
  <1>7. CallInv(c, pluginTime, superseded)
    BY <1>2, <1>5, <1>6 DEF CallInv
  <1>8. CallsInv(pluginCall', pluginTime, superseded)
    BY <1>4, <1>5, <1>7, CallMoves
  <1>9. EntriesInv(billing', pluginTime, superseded)
    BY DEF RemoveExpired, PluginInv, EntriesInv, None
  <1> QED
    BY <1>8, <1>9 DEF RemoveExpired, PluginInv, others

(* A plan that was just fetched is the current one. *)
LEMMA FetchBillingInv ==
  ASSUME PluginInv, NEW r \in PluginCalls, FetchBilling(r)
  PROVE  PluginInv'
  <1> USE PluginAssumption
  <1>1. PICK o : o = pluginCall[r]
    OBVIOUS
  <1>2. o \in CallRecords /\ o.at = "fetch" /\ CallInv(o, pluginTime, superseded) /\ pluginTime \in Nat /\ o # NoCall
    BY <1>1, CallIs DEF PluginInv, FetchBilling
  <1>3. o.user \in Payers
    BY <1>2 DEF CallInv
  <1>4. PICK v : v = plan[o.user]
    OBVIOUS
  <1>5. v \in Nat /\ v = Len(superseded[o.user])
    BY <1>3, <1>4 DEF PluginInv, PlansInv
  <1>6. PICK c : c = [o EXCEPT !.at = "store", !.plan = {v}]
    OBVIOUS
  <1>7. pluginCall' = [pluginCall EXCEPT ![r] = c]
    BY <1>1, <1>4, <1>6 DEF FetchBilling
  <1>8. c \in CallRecords
    BY <1>2, <1>5, <1>6 DEF CallRecords
  <1>9. c.at = "store" /\ c.since = o.since /\ c.user = o.user /\ c.plan = {v}
    BY <1>2, <1>6 DEF CallRecords
  <1>10. CallInv(c, pluginTime, superseded)
    BY <1>2, <1>3, <1>5, <1>8, <1>9 DEF CallInv
  <1> QED
    BY <1>7, <1>8, <1>10, CallMoves, OnlyCalls DEF FetchBilling

(* A call whose fetch fails goes on without a plan. *)
LEMMA FetchFailsInv ==
  ASSUME PluginInv, NEW r \in PluginCalls, FetchFails(r)
  PROVE  PluginInv'
  <1>1. PICK o : o = pluginCall[r]
    OBVIOUS
  <1>2. o \in CallRecords /\ CallInv(o, pluginTime, superseded) /\ pluginTime \in Nat /\ o # NoCall
    BY <1>1, CallIs DEF PluginInv, FetchFails
  <1>3. PICK c : c = [o EXCEPT !.at = "run", !.next = o.next + 1, !.plan = {}]
    OBVIOUS
  <1>4. pluginCall' = [pluginCall EXCEPT ![r] = c]
    BY <1>1, <1>3 DEF FetchFails, None
  <1>5. c \in CallRecords
    <2>1. o.next + 1 \in Nat
      BY <1>2 DEF CallRecords
    <2> QED
      BY <1>2, <1>3, <2>1 DEF CallRecords
  <1>6. c.at = "run" /\ c.since = o.since /\ c.plan = {}
    BY <1>2, <1>3 DEF CallRecords
  <1>7. CallInv(c, pluginTime, superseded)
    BY <1>2, <1>5, <1>6 DEF CallInv
  <1> QED
    BY <1>4, <1>5, <1>7, CallMoves, OnlyCalls DEF FetchFails

(* A forwarded call ends with the plan attached to it. *)
LEMMA ForwardRequestInv ==
  ASSUME PluginInv, NEW r \in PluginCalls, ForwardRequest(r)
  PROVE  PluginInv'
  <1>1. PICK o : o = pluginCall[r]
    OBVIOUS
  <1>2. o \in CallRecords /\ o.at = "run" /\ CallInv(o, pluginTime, superseded) /\ o # NoCall
    BY <1>1, CallIs DEF ForwardRequest
  <1>3. PICK c : c = [o EXCEPT !.at = "forward"]
    OBVIOUS
  <1>4. pluginCall' = [pluginCall EXCEPT ![r] = c]
    BY <1>1, <1>3 DEF ForwardRequest
  <1>5. c \in CallRecords
    BY <1>2, <1>3 DEF CallRecords
  <1>6. c.at = "forward" /\ c.since = o.since /\ c.plan = o.plan /\ c.user = o.user
    BY <1>2, <1>3 DEF CallRecords
  <1>7. CallInv(c, pluginTime, superseded)
    BY <1>2, <1>5, <1>6 DEF CallInv
  <1> QED
    BY <1>4, <1>5, <1>7, CallMoves, OnlyCalls DEF ForwardRequest

(* A fetched plan is stored with the age it has reached by then. *)
LEMMA SetCachedInv ==
  ASSUME PluginInv, NEW r \in PluginCalls, SetCached(r)
  PROVE  PluginInv'
  <1> USE PluginAssumption
  <1>1. PICK o : o = pluginCall[r]
    OBVIOUS
  <1>2. o \in CallRecords /\ o.at = "store" /\ CallInv(o, pluginTime, superseded) /\ pluginTime \in Nat /\ o # NoCall
    BY <1>1, CallIs DEF PluginInv, SetCached
  <1>3. o.user \in Payers /\ o.plan # {} /\ o.plan \subseteq Nat /\ o.since \in Nat
    BY <1>2 DEF CallInv, CallRecords
  <1>4. PICK u \in Payers : u = o.user
    BY <1>3
  <1>5. PICK v : v = CHOOSE z \in o.plan : TRUE
    OBVIOUS
  <1>6. v \in o.plan /\ v \in Nat
    BY <1>3, <1>5
  <1>7. ASSUME v < Len(superseded[u])
        PROVE  pluginTime - superseded[u][v + 1] <= FetchTimeout /\ superseded[u][v + 1] \in Nat
    <2>1. PICK t : t = superseded[u][v + 1]
      OBVIOUS
    <2>2. superseded[u] \in Seq(Nat)
      BY DEF PluginInv, PlansInv
    <2>3. v + 1 \in 1 .. Len(superseded[u])
      BY <1>6, <1>7, <2>2
    <2>4. t \in Nat
      BY <2>1, <2>2, <2>3
    <2>5. o.since <= t /\ pluginTime - o.since <= FetchTimeout
      BY <1>2, <1>4, <1>6, <1>7, <2>1 DEF CallInv
    <2>6. pluginTime - t <= FetchTimeout
      BY <1>2, <1>3, <2>4, <2>5
    <2> QED
      BY <2>1, <2>4, <2>6
  <1>8. Billed(r, v)
    BY <1>1, <1>5 DEF SetCached
  <1>9. CallsInv(pluginCall', pluginTime, superseded)
    <2>1. v < Len(superseded[u]) => pluginTime - superseded[u][v + 1] <= BillingTtl + FetchTimeout
      BY <1>2, <1>7
    <2> QED
      BY <1>1, <1>2, <1>3, <1>4, <1>6, <1>8, <2>1, BilledInv
  <1>10. PICK e : e = [version |-> v, at |-> pluginTime]
    OBVIOUS
  <1>11. e \in EntryRecords /\ EntryInv(e, pluginTime, superseded[u])
    BY <1>2, <1>6, <1>7, <1>10 DEF EntryRecords, EntryInv
  <1>12. \A x \in Payers : /\ x = u => billing'[x] = {e}
                           /\ x # u => billing'[x] \in {{}, billing[x]}
    BY <1>1, <1>4, <1>5, <1>10 DEF SetCached, None
  <1>13. billing' = [x \in Payers |-> billing'[x]]
    BY DEF SetCached
  <1>14. EntriesInv(billing, pluginTime, superseded)
    BY DEF PluginInv
  <1>15. EntriesInv(billing', pluginTime, superseded)
    <2>1. \A x \in Payers : billing'[x] \in SUBSET EntryRecords
      BY <1>11, <1>12, <1>14 DEF EntriesInv
    <2>2. PICK f : f = billing'
      OBVIOUS
    <2>3. f = [x \in Payers |-> f[x]] /\ \A x \in Payers : f[x] \in SUBSET EntryRecords
      BY <1>13, <2>1, <2>2
    <2>4. f \in [Payers -> SUBSET EntryRecords]
      BY <2>3
    <2>5. \A x \in Payers : \A z \in f[x] : EntryInv(z, pluginTime, superseded[x])
      BY <1>11, <1>12, <1>14, <2>2 DEF EntriesInv
    <2> QED
      BY <2>2, <2>4, <2>5 DEF EntriesInv
  <1> QED
    BY <1>9, <1>15 DEF SetCached, PluginInv, others

(* Ages and windows move on with the clock. *)
LEMMA PluginTickInv ==
  ASSUME PluginInv, PluginTick
  PROVE  PluginInv'
  <1> USE PluginAssumption
  <1>1. PICK now : now = pluginTime
    OBVIOUS
  <1>2. now \in Nat /\ pluginTime' = now + 1 /\ now + 1 \in Nat
    BY <1>1 DEF PluginInv, PluginTick
  <1>3. UNCHANGED <<pluginCall, userWindow, billing, plan, superseded, admitted>>
    BY DEF PluginTick
  <1>4. CallsInv(pluginCall, now + 1, superseded)
    <2> SUFFICES ASSUME NEW r \in PluginCalls, pluginCall[r] # NoCall
                 PROVE  CallInv(pluginCall[r], now + 1, superseded)
      BY <1>1 DEF PluginInv, CallsInv, CallInv
    <2>1. PICK c : c = pluginCall[r]
      OBVIOUS
    <2>2. c \in CallRecords /\ CallInv(c, now, superseded) /\ c # NoCall
      BY <1>1, <2>1 DEF PluginInv, CallsInv
    <2>3. c.since \in Nat /\ c.since <= now
      BY <2>2 DEF CallRecords, CallInv
    <2>4. c.at \in {"fetch", "store"} => now - c.since < FetchTimeout
      BY <1>1, <2>1 DEF PluginTick
    <2>5. c.since <= now + 1 /\ (c.at \in {"fetch", "store"} => (now + 1) - c.since <= FetchTimeout)
      BY <1>2, <2>3, <2>4
    <2> QED
      BY <2>1, <2>2, <2>5 DEF CallInv
  <1>5. EntriesInv(billing, now + 1, superseded)
    <2>1. EntriesInv(billing, now, superseded)
      BY <1>1 DEF PluginInv
    <2>2. ASSUME NEW u \in Payers, NEW e \in billing[u] PROVE EntryInv(e, now + 1, superseded[u])
      <3>1. EntryInv(e, now, superseded[u]) /\ e \in EntryRecords
        BY <2>1, <2>2 DEF EntriesInv
      <3>2. e.at \in Nat
        BY <3>1 DEF EntryRecords
      <3> QED
        BY <1>2, <3>1, <3>2 DEF EntryInv
    <2> QED
      BY <2>1, <2>2 DEF EntriesInv
  <1>6. PlansInv(plan, superseded, now + 1)
    <2>1. PlansInv(plan, superseded, now)
      BY <1>1 DEF PluginInv
    <2>2. ASSUME NEW u \in Payers, NEW i \in 1 .. Len(superseded[u]) PROVE superseded[u][i] <= now + 1
      <3>1. superseded[u] \in Seq(Nat) /\ superseded[u][i] <= now
        BY <2>1, <2>2 DEF PlansInv
      <3>2. superseded[u][i] \in Nat
        BY <2>2, <3>1
      <3> QED
        BY <1>2, <3>1, <3>2
    <2> QED
      BY <2>1, <2>2 DEF PlansInv
  <1>7. QuotaInv(admitted, userWindow, now + 1)
    <2>1. QuotaInv(admitted, userWindow, now)
      BY <1>1 DEF PluginInv
    <2>2. ASSUME NEW u \in Payers PROVE UserInv(admitted[u], userWindow[u], now + 1)
      <3>1. UserInv(admitted[u], userWindow[u], now)
        BY <2>1 DEF QuotaInv
      <3>2. PICK a : a = admitted[u]
        OBVIOUS
      <3>3. a \in Seq(Nat) /\ \A i \in 1 .. Len(a) : a[i] <= now
        BY <3>1, <3>2 DEF UserInv
      <3>4. ASSUME NEW i \in 1 .. Len(a) PROVE a[i] <= now + 1
        <4>1. a[i] \in Nat /\ a[i] <= now
          BY <3>3, <3>4
        <4> QED
          BY <1>2, <4>1
      <3>5. ASSUME NEW x, Windowed(a, x), x.start <= now PROVE x.start <= now + 1
        <4>1. x.start \in Nat
          BY <3>5 DEF Windowed
        <4> QED
          BY <1>2, <3>5, <4>1
      <3> QED
        BY <3>1, <3>2, <3>4, <3>5 DEF UserInv
    <2> QED
      BY <2>1, <2>2 DEF QuotaInv
  <1> QED
    BY <1>2, <1>3, <1>4, <1>5, <1>6, <1>7 DEF PluginInv

(* A plan that changes becomes superseded now, so what is cached is not    *)
(* yet too old.                                                            *)
LEMMA PlanChangesInv ==
  ASSUME PluginInv, NEW u \in Payers, PlanChanges(u)
  PROVE  PluginInv'
  <1> USE PluginAssumption
  <1>1. PICK now : now = pluginTime
    OBVIOUS
  <1>2. now \in Nat /\ PlansInv(plan, superseded, now)
    BY <1>1 DEF PluginInv
  <1>3. PICK s : s = superseded[u]
    OBVIOUS
  <1>4. PICK t : t = Append(s, now)
    OBVIOUS
  <1>5. s \in Seq(Nat) /\ Len(s) = plan[u] /\ Len(s) \in Nat /\ plan[u] \in Nat
    BY <1>2, <1>3 DEF PlansInv
  <1>6. /\ t \in Seq(Nat) /\ Len(t) = Len(s) + 1 /\ t[Len(s) + 1] = now
        /\ \A i \in 1 .. Len(s) : t[i] = s[i] /\ s[i] \in Nat
    BY SMTT(30), <1>2, <1>4, <1>5
  <1>7. PICK ended : ended = [superseded EXCEPT ![u] = t]
    OBVIOUS
  <1>8. superseded' = ended /\ plan' = [plan EXCEPT ![u] = plan[u] + 1]
    BY <1>1, <1>3, <1>4, <1>7 DEF PlanChanges
  <1>9. ended[u] = t /\ (\A x \in Payers : x # u => ended[x] = superseded[x]) /\ ended \in [Payers -> Seq(Nat)]
    BY <1>2, <1>6, <1>7 DEF PlansInv
  <1>n. ASSUME NEW v \in Nat, v < Len(t) PROVE t[v + 1] = now \/ (v < Len(s) /\ t[v + 1] = s[v + 1])
    <2>1. v < Len(s) \/ v = Len(s)
      BY <1>5, <1>6, <1>n
    <2>2. ASSUME v < Len(s) PROVE t[v + 1] = s[v + 1]
      <3>1. v + 1 \in 1 .. Len(s)
        BY <1>5, <2>2
      <3> QED
        BY <1>6, <3>1
    <2> QED
      BY <1>6, <2>1, <2>2
  <1>10. CallsInv(pluginCall, now, ended)
    <2> SUFFICES ASSUME NEW r \in PluginCalls, pluginCall[r] # NoCall
                 PROVE  CallInv(pluginCall[r], now, ended)
      BY <1>1 DEF PluginInv, CallsInv, CallInv
    <2>1. PICK c : c = pluginCall[r]
      OBVIOUS
    <2>2. c \in CallRecords /\ CallInv(c, now, superseded) /\ c # NoCall
      BY <1>1, <2>1 DEF PluginInv, CallsInv
    <2>3. c.since \in Nat /\ c.since <= now /\ c.plan \subseteq Nat /\ (c.plan # {} => c.user \in Payers)
      BY <2>2 DEF CallRecords, CallInv
    <2>4. CASE c.user # u
      <3>1. c.plan # {} => ended[c.user] = superseded[c.user]
        BY <1>9, <2>3, <2>4
      <3> QED
        BY <2>1, <2>2, <3>1 DEF CallInv
    <2>5. CASE c.user = u
      <3>0. c.since - now <= BillingTtl + FetchTimeout
        BY <1>2, <2>3
      <3>1. ASSUME c.at = "store", NEW v \in c.plan, v < Len(t) PROVE c.since <= t[v + 1]
        <4>1. v < Len(s) => c.since <= s[v + 1]
          BY <1>3, <2>2, <2>5, <3>1 DEF CallInv
        <4> QED
          BY <1>n, <2>3, <3>1, <4>1
      <3>2. ASSUME c.at \in {"run", "forward"}, NEW v \in c.plan, v < Len(t)
            PROVE  c.since - t[v + 1] <= BillingTtl + FetchTimeout
        <4>1. v < Len(s) => c.since - s[v + 1] <= BillingTtl + FetchTimeout
          BY <1>3, <2>2, <2>5, <3>2 DEF CallInv
        <4> QED
          BY <1>n, <2>3, <3>0, <3>2, <4>1
      <3> QED
        BY <1>9, <2>1, <2>2, <2>5, <3>1, <3>2 DEF CallInv
    <2> QED
      BY <2>4, <2>5
  <1>11. EntriesInv(billing, now, ended)
    <2>1. EntriesInv(billing, now, superseded)
      BY <1>1 DEF PluginInv
    <2>2. ASSUME NEW x \in Payers, NEW e \in billing[x] PROVE EntryInv(e, now, ended[x])
      <3>1. EntryInv(e, now, superseded[x]) /\ e \in EntryRecords
        BY <2>1, <2>2 DEF EntriesInv
      <3>2. e.at \in Nat /\ e.version \in Nat /\ e.at <= now
        BY <3>1 DEF EntryRecords, EntryInv
      <3>3. CASE x # u
        BY <1>9, <3>1, <3>3
      <3>4. CASE x = u
        <4>1. ASSUME e.version < Len(t) PROVE e.at - t[e.version + 1] <= FetchTimeout
          <5>1. t[e.version + 1] = now \/ (e.version < Len(s) /\ t[e.version + 1] = s[e.version + 1])
            BY <1>n, <3>2, <4>1
          <5>2. e.version < Len(s) => e.at - s[e.version + 1] <= FetchTimeout
            BY <1>3, <3>1, <3>4 DEF EntryInv
          <5>3. e.at - now <= FetchTimeout
            BY <1>2, <3>2
          <5> QED
            BY <5>1, <5>2, <5>3
        <4> QED
          BY <1>9, <3>2, <3>4, <4>1 DEF EntryInv
      <3> QED
        BY <3>3, <3>4
    <2> QED
      BY <2>1, <2>2 DEF EntriesInv
  <1>12. PlansInv(plan', ended, now)
    <2>1. plan' \in [Payers -> Nat] /\ plan'[u] = Len(t) /\ \A x \in Payers : x # u => plan'[x] = plan[x]
      BY <1>2, <1>5, <1>6, <1>8 DEF PlansInv
    <2>2. \A i \in 1 .. Len(t) : t[i] <= now
      <3> SUFFICES ASSUME NEW i \in 1 .. Len(t) PROVE t[i] <= now
        OBVIOUS
      <3>1. i \in 1 .. Len(s) \/ i = Len(s) + 1
        BY <1>5, <1>6
      <3>2. i \in 1 .. Len(s) => s[i] <= now
        BY <1>2, <1>3 DEF PlansInv
      <3> QED
        BY <1>2, <1>6, <3>1, <3>2
    <2> QED
      BY <1>2, <1>9, <2>1, <2>2 DEF PlansInv
  <1>13. UNCHANGED <<pluginTime, pluginCall, userWindow, billing, admitted>>
    BY DEF PlanChanges
  <1> QED
    BY <1>1, <1>8, <1>10, <1>11, <1>12, <1>13 DEF PluginInv

(* Every step of the plugins keeps their invariant. *)
LEMMA PluginStepInv == PluginInv /\ [PluginNext]_pluginVars => PluginInv'
  <1> SUFFICES ASSUME PluginInv, [PluginNext]_pluginVars PROVE PluginInv'
    OBVIOUS
  <1>1. CASE UNCHANGED pluginVars
    BY <1>1 DEF pluginVars, PluginInv
  <1>2. ASSUME NEW r \in PluginCalls, PluginStep(r) PROVE PluginInv'
    BY <1>2, StatelessInv, RateLimitInv, GetCachedInv, RemoveExpiredInv, FetchBillingInv, FetchFailsInv,
       SetCachedInv, ForwardRequestInv DEF PluginStep
  <1> QED
    BY <1>1, <1>2, BeginInv, PluginTickInv, PlanChangesInv DEF PluginNext

(* The inductive invariant of the plugins contains what the run checks. *)
LEMMA PluginInvGives == PluginInv => PluginsSound
  <1> SUFFICES ASSUME PluginInv PROVE PluginsSound
    OBVIOUS
  <1>1. BillingFresh
    BY DEF PluginInv, CallsInv, CallInv, BillingFresh, NoCall
  <1>2. UserQuota
    BY DEF PluginInv, QuotaInv, UserInv, Spread, UserQuota
  <1> QED
    BY <1>1, <1>2 DEF PluginsSound

-------------------------------------------------------------------------------
(* RouteAdmission: the rules of a route.                                   *)

(* The order sort_by_key puts the rules in. *)
Precedes(rules, j, i) ==
  \/ PrefixLen(rules[j].prefix) > PrefixLen(rules[i].prefix)
  \/ PrefixLen(rules[j].prefix) = PrefixLen(rules[i].prefix) /\ j < i

(* The length of a prefix is a number. *)
LEMMA PrefixLenIs ==
  ASSUME NEW p \in Seq(STRING)
  PROVE  PrefixLen(p) \in Int
  <1>1. Len(p) \in Nat
    OBVIOUS
  <1> QED
    BY <1>1 DEF PrefixLen

(* A list of rules. *)
RuleList(rules) == rules \in Seq(Rules) /\ \A i \in DOMAIN rules : rules[i].prefix \in Seq(STRING)

(* The order of resolve_auth_rule, longer prefix first and then the place  *)
(* in the list, is total.                                                  *)
LEMMA OrderIsTotal ==
  ASSUME NEW rules, RuleList(rules), NEW i \in DOMAIN rules, NEW j \in DOMAIN rules
  PROVE  /\ ~Precedes(rules, i, i)
         /\ i # j => Precedes(rules, i, j) \/ Precedes(rules, j, i)
         /\ \A k \in DOMAIN rules : Precedes(rules, k, j) /\ Precedes(rules, j, i) => Precedes(rules, k, i)
         /\ Precedes(rules, j, i) => PrefixLen(rules[i].prefix) <= PrefixLen(rules[j].prefix)
  <1>1. \A k \in DOMAIN rules : PrefixLen(rules[k].prefix) \in Int
    BY PrefixLenIs DEF RuleList
  <1>2. DOMAIN rules \subseteq Nat
    BY DEF RuleList
  <1> QED
    BY <1>1, <1>2 DEF Precedes

(* The rank of every rule is its own, and every rank is taken. *)
LEMMA RanksAreOneToOne ==
  ASSUME NEW rules, RuleList(rules)
  PROVE  /\ \A i \in DOMAIN rules : Cardinality(SortedBefore(rules, i)) \in 0 .. Len(rules) - 1
         /\ \A i, j \in DOMAIN rules :
              Precedes(rules, j, i) => Cardinality(SortedBefore(rules, j)) < Cardinality(SortedBefore(rules, i))
         /\ \A k \in DOMAIN rules : \E i \in DOMAIN rules : Cardinality(SortedBefore(rules, i)) = k - 1
  <1>1. PICK n \in Nat : n = Len(rules) /\ DOMAIN rules = 1 .. n
    BY DEF RuleList
  <1>2. IsFiniteSet(1 .. n) /\ Cardinality(1 .. n) = n
    BY FS_Interval
  <1>b. \A i \in 1 .. n : SortedBefore(rules, i) = {j \in 1 .. n : Precedes(rules, j, i)}
    BY <1>1 DEF SortedBefore, Precedes
  <1>3. ASSUME NEW i \in 1 .. n
        PROVE  /\ IsFiniteSet(SortedBefore(rules, i)) /\ Cardinality(SortedBefore(rules, i)) \in Nat
               /\ Cardinality(SortedBefore(rules, i)) < n
    <2>1. PICK B : B = SortedBefore(rules, i)
      OBVIOUS
    <2>2. B \subseteq 1 .. n /\ i \notin B
      BY <1>1, <1>b, <2>1, OrderIsTotal
    <2>3. IsFiniteSet(B) /\ Cardinality(B) <= n /\ (n = Cardinality(B) => 1 .. n = B)
      BY <1>2, <2>2, FS_Subset
    <2>4. Cardinality(B) \in Nat
      BY <2>3, FS_CardinalityType
    <2>5. 1 .. n # B
      BY <2>2
    <2>6. Cardinality(B) < n
      BY <2>3, <2>4, <2>5
    <2> QED
      BY <2>1, <2>3, <2>4, <2>6
  <1>4. ASSUME NEW i \in 1 .. n, NEW j \in 1 .. n, Precedes(rules, j, i)
        PROVE  Cardinality(SortedBefore(rules, j)) < Cardinality(SortedBefore(rules, i))
    <2>1. PICK B : B = SortedBefore(rules, i)
      OBVIOUS
    <2>2. PICK C : C = SortedBefore(rules, j)
      OBVIOUS
    <2>3. C \subseteq B /\ j \in B /\ j \notin C
      BY <1>1, <1>4, <1>b, <2>1, <2>2, OrderIsTotal
    <2>4. IsFiniteSet(B) /\ Cardinality(B) \in Nat /\ Cardinality(C) \in Nat
      BY <1>3, <2>1, <2>2
    <2>5. Cardinality(C) <= Cardinality(B) /\ (Cardinality(B) = Cardinality(C) => B = C)
      BY <2>3, <2>4, FS_Subset
    <2>6. B # C
      BY <2>3
    <2>7. Cardinality(C) < Cardinality(B)
      BY <2>4, <2>5, <2>6
    <2> QED
      BY <2>1, <2>2, <2>7
  <1>5. ASSUME NEW k \in 1 .. n
        PROVE  \E i \in 1 .. n : Cardinality(SortedBefore(rules, i)) = k - 1
    <2> DEFINE f == [i \in 1 .. n |-> Cardinality(SortedBefore(rules, i)) + 1]
    <2>1. \A i \in 1 .. n : f[i] \in 1 .. n /\ f[i] = Cardinality(SortedBefore(rules, i)) + 1
      BY <1>3
    <2>2. \A i, j \in 1 .. n : i # j => f[i] # f[j]
      <3> SUFFICES ASSUME NEW i \in 1 .. n, NEW j \in 1 .. n, i # j PROVE f[i] # f[j]
        OBVIOUS
      <3>1. Precedes(rules, i, j) \/ Precedes(rules, j, i)
        BY <1>1, OrderIsTotal
      <3>2. Cardinality(SortedBefore(rules, i)) \in Nat /\ Cardinality(SortedBefore(rules, j)) \in Nat
        BY <1>3
      <3>3. Cardinality(SortedBefore(rules, i)) # Cardinality(SortedBefore(rules, j))
        BY <1>4, <3>1, <3>2
      <3> QED
        BY <3>2, <3>3
    <2> HIDE DEF f
    <2>3. f \in [1 .. n -> 1 .. n]
      BY <2>1 DEF f
    <2>4. f \in Injection(1 .. n, 1 .. n)
      BY <2>2, <2>3 DEF Injection, IsInjective
    <2>5. f \in Surjection(1 .. n, 1 .. n)
      BY <1>2, <2>4, FS_Injection
    <2>6. PICK i \in 1 .. n : f[i] = k
      BY <2>5 DEF Surjection
    <2>7. Cardinality(SortedBefore(rules, i)) \in Nat /\ k = Cardinality(SortedBefore(rules, i)) + 1
      BY <1>3, <2>1, <2>6
    <2> QED
      BY <2>7
  <1>6. \A i \in 1 .. n : Cardinality(SortedBefore(rules, i)) \in 0 .. n - 1
    BY <1>3
  <1> QED
    BY <1>1, <1>4, <1>5, <1>6

(* What LongestPrefixDecides says of a result. *)
Decided(rules, path, resolved) ==
  LET Hit == {i \in DOMAIN rules : RuleMatches(rules[i], path)}
  IN  \/ Hit = {} /\ resolved = NoRole
      \/ \E i \in Hit :
          /\ \A j \in Hit : PrefixLen(rules[j].prefix) <= PrefixLen(rules[i].prefix)
          /\ CASE rules[i].auth = "typo" -> resolved = "OWNER"
               [] OTHER -> resolved = rules[i].auth

(* The first match in sorted order is a match with a longest prefix. *)
LEMMA ResolveDecides ==
  ASSUME NEW rules, RuleList(rules), NEW path
  PROVE  Decided(rules, path, ResolveAuthRule(rules, path))
  <1> DEFINE D == DOMAIN rules
             at == [k \in D |-> CHOOSE i \in D : Cardinality(SortedBefore(rules, i)) = k - 1]
             sorted == BySpecificity(rules)
             matches == {k \in D : RuleMatches(sorted[k], path)}
             Hit == {i \in D : RuleMatches(rules[i], path)}
             rank == [i \in D |-> Cardinality(SortedBefore(rules, i))]
  <1>1. /\ \A i \in D : rank[i] \in 0 .. Len(rules) - 1
        /\ \A i, j \in D : Precedes(rules, j, i) => rank[j] < rank[i]
        /\ \A k \in D : \E i \in D : rank[i] = k - 1
    BY RanksAreOneToOne
  <1>2. \A k \in D : at[k] \in D /\ rank[at[k]] = k - 1
    BY <1>1
  <1>3. DOMAIN sorted = D /\ \A k \in D : sorted[k] = rules[at[k]]
    BY DEF BySpecificity
  <1>4. ResolveAuthRule(rules, path) =
          IF matches = {} THEN NoRole
          ELSE Resolve(sorted[CHOOSE i \in matches : \A j \in matches : i <= j].auth)
    BY <1>3 DEF ResolveAuthRule
  <1>d. D = 1 .. Len(rules) /\ Len(rules) \in Nat
    BY DEF RuleList
  <1> HIDE DEF at, sorted, rank, D
  <1>5. ASSUME NEW j \in D PROVE rank[j] \in Nat /\ rank[j] + 1 \in D /\ at[rank[j] + 1] = j
    <2>1. rank[j] \in Nat /\ rank[j] + 1 \in D
      <3>1. rank[j] \in 0 .. Len(rules) - 1
        BY <1>1
      <3>2. PICK n \in Nat : n = Len(rules)
        BY <1>d
      <3>q. PICK q : q = rank[j]
        OBVIOUS
      <3>3. q \in 0 .. n - 1
        BY <3>1, <3>2, <3>q
      <3>4. q \in Nat /\ q + 1 \in 1 .. n
        BY <3>3
      <3> QED
        BY <1>d, <3>2, <3>q, <3>4
    <2>2. PICK i \in D : i = at[rank[j] + 1]
      BY <1>2, <2>1
    <2>3. rank[i] = rank[j] /\ rank[i] \in Nat
      BY <1>1, <1>2, <2>1, <2>2
    <2>4. i # j => Precedes(rules, i, j) \/ Precedes(rules, j, i)
      BY OrderIsTotal DEF D
    <2>5. i = j
      BY <1>1, <2>3, <2>4
    <2> QED
      BY <2>1, <2>2, <2>5
  <1>6. CASE matches = {}
    <2>1. ASSUME NEW j \in Hit PROVE FALSE
      <3>1. j \in D /\ rank[j] + 1 \in D /\ sorted[rank[j] + 1] = rules[j]
        BY <1>3, <1>5
      <3> QED
        BY <1>6, <3>1
    <2> QED
      BY <1>4, <1>6, <2>1 DEF Decided, D
  <1>7. CASE matches # {}
    <2>1. matches \in SUBSET Nat
      BY <1>d
    <2>2. PICK k \in matches : \A j \in matches : ~(<<j, k>> \in OpToRel(<, Nat))
      BY <1>7, <2>1, WFMin, NatLessThanWellFounded
    <2>3. \A j \in matches : ~(j < k)
      BY <2>1, <2>2 DEF OpToRel
    <2>4. \E i \in matches : \A j \in matches : i <= j
      BY <2>1, <2>3
    <2>5. PICK m : m = CHOOSE i \in matches : \A j \in matches : i <= j
      OBVIOUS
    <2>6. m \in matches /\ \A j \in matches : m <= j
      BY <2>4, <2>5
    <2>7. PICK i \in D : i = at[m] /\ rank[i] = m - 1
      BY <1>2, <2>6
    <2>8. i \in Hit /\ sorted[m] = rules[i]
      BY <1>3, <2>6, <2>7
    <2>9. ASSUME NEW j \in Hit PROVE PrefixLen(rules[j].prefix) <= PrefixLen(rules[i].prefix)
      <3>1. j \in D /\ rank[j] + 1 \in matches
        BY <1>3, <1>5
      <3>2. rank[j] \in Nat /\ m \in Nat /\ rank[i] <= rank[j] /\ rank[i] \in Nat
        <4>1. PICK q : q = rank[j]
          OBVIOUS
        <4>2. q \in Nat /\ m \in Nat /\ m <= q + 1 /\ rank[i] = m - 1
          BY <1>5, <2>1, <2>6, <2>7, <3>1, <4>1
        <4>3. m # 0
          BY <1>d, <2>6
        <4> QED
          BY <4>1, <4>2, <4>3
      <3>3. ~Precedes(rules, j, i)
        BY <1>1, <3>1, <3>2
      <3>4. i # j => PrefixLen(rules[j].prefix) <= PrefixLen(rules[i].prefix)
        BY <3>1, <3>3, OrderIsTotal DEF D
      <3>5. PrefixLen(rules[i].prefix) \in Int
        BY PrefixLenIs DEF RuleList, D
      <3> QED
        BY <3>4, <3>5
    <2>10. ResolveAuthRule(rules, path) = Resolve(rules[i].auth)
      BY <1>4, <1>7, <2>5, <2>8
    <2>11. (CASE rules[i].auth = "typo" -> Resolve(rules[i].auth) = "OWNER"
              [] OTHER -> Resolve(rules[i].auth) = rules[i].auth)
      BY DEF Resolve
    <2> QED
      BY <2>8, <2>9, <2>10, <2>11 DEF Decided, D
  <1> QED
    BY <1>6, <1>7

RuleInv ==
  /\ RuleList(ruling.rules)
  /\ ruling = [rules |-> ruling.rules, path |-> ruling.path, resolved |-> ruling.resolved]
  /\ ruling.resolved # "pending" => Decided(ruling.rules, ruling.path, ruling.resolved)

(* No rule is resolved before the path is looked at. *)
LEMMA RuleInitInv == RuleInit => RuleInv
  <1> SUFFICES ASSUME RuleInit PROVE RuleInv
    OBVIOUS
  <1>0. PICK rs \in UNION {[1 .. n -> Rules] : n \in 0 .. MaxRules}, p \in RulePaths :
          ruling = [rules |-> rs, path |-> p, resolved |-> "pending"]
    BY DEF RuleInit
  <1>1. PICK n \in 0 .. MaxRules : rs \in [1 .. n -> Rules]
    OBVIOUS
  <1>2. rs \in Seq(Rules) /\ DOMAIN rs = 1 .. n
    BY <1>1, RulePrefixesAssumption
  <1>3. \A i \in DOMAIN rs : rs[i].prefix \in Seq(STRING)
    BY <1>1, RulePrefixesAssumption DEF Rules
  <1> QED
    BY <1>0, <1>2, <1>3 DEF RuleInv, RuleList

(* The rule that is resolved is the first of the matching ones in that     *)
(* order.                                                                  *)
LEMMA RuleStepInv == RuleInv /\ [ResolveRuling]_ruleVars => RuleInv'
  <1> SUFFICES ASSUME RuleInv, [ResolveRuling]_ruleVars PROVE RuleInv'
    OBVIOUS
  <1>1. CASE UNCHANGED ruleVars
    <2>1. ruling' = ruling
      BY <1>1 DEF ruleVars
    <2> QED
      BY <2>1 DEF RuleInv, RuleList, Decided, Rules
  <1>2. CASE ResolveRuling
    <2>1. PICK res : res = ResolveAuthRule(ruling.rules, ruling.path)
      OBVIOUS
    <2>2. Decided(ruling.rules, ruling.path, res)
      BY <2>1, ResolveDecides DEF RuleInv
    <2>3. ruling' = [ruling EXCEPT !.resolved = res]
      BY <1>2, <2>1 DEF ResolveRuling
    <2>4. ruling' = [rules |-> ruling.rules, path |-> ruling.path, resolved |-> res]
      BY <2>3 DEF RuleInv
    <2>5. ruling'.rules = ruling.rules /\ ruling'.path = ruling.path /\ ruling'.resolved = res
      BY <2>4
    <2> QED
      BY <2>2, <2>4, <2>5 DEF RuleInv, RuleList, Decided, Rules
  <1> QED
    BY <1>1, <1>2

(* The first matching rule in that order has the longest matching prefix. *)
LEMMA RuleInvGives == RuleInv => LongestPrefixDecides
  BY DEF RuleInv, Decided, LongestPrefixDecides

-------------------------------------------------------------------------------
(* RouteAdmission: who passes.                                             *)

(* OWNER is at least any role there is. *)
LEMMA OwnerMayAll ==
  ASSUME NEW role, IsKnownRole(role)
  PROVE  EnforceMinRole({"OWNER"}, role)
  <1>1. DOMAIN Hierarchy = 1 .. 5 /\ Hierarchy[1] = "OWNER"
    BY DEF Hierarchy
  <1>2. \A i \in 1 .. 5 : Hierarchy[i] = "OWNER" => i = 1
    BY DEF Hierarchy
  <1>3. IsKnownRole("OWNER")
    BY <1>1 DEF IsKnownRole, KnownRoles
  <1>4. Rank("OWNER") = 1
    BY <1>1, <1>2, <1>3 DEF Rank
  <1>5. \E i \in 1 .. 5 : Hierarchy[i] = role
    BY <1>1 DEF IsKnownRole, KnownRoles
  <1>6. Rank(role) \in 1 .. 5
    BY <1>1, <1>5 DEF Rank
  <1>7. IsAtLeast("OWNER", role)
    BY <1>4, <1>6 DEF IsAtLeast
  <1> QED
    BY <1>7 DEF EnforceMinRole

(* What the decision says of a request, of an upgrade and of an OWNER. *)
AskedServer(r, c, answer) ==
  answer.status = "forward" /\ ~Opened(r) /\ ~r.softAuth =>
    \/ /\ c.up /\ c.session = "live"
       /\ Wanted(r) # NoRole => EnforceMinRole({c.role}, Wanted(r))
    \/ ~c.up /\ c.degraded /\ Wanted(r) = NoRole

OwnerServed(r, c, answer) ==
  /\ ValidRoute(r)
  /\ c.up /\ c.session = "live" /\ c.role = "OWNER"
  /\ ~(r.public /\ r.rule \in RuleRoles)
  => answer.status = "forward"

(* The role that resolve_auth_rule and the route lead to is the one the    *)
(* reference asks for.                                                     *)
LEMMA EffectiveIsWanted ==
  ASSUME NEW r \in Routes
  PROVE  EffectiveRole(r) = Wanted(r)
  BY DEF EffectiveRole, Wanted, NoRole

(* The admission decision forwards to a protected path only after asking   *)
(* the server.                                                             *)
LEMMA AdmitAsked ==
  ASSUME NEW r \in Routes, NEW c \in Callers
  PROVE  AskedServer(r, c, AdmitHttp(r, c))
  <1> SUFFICES ASSUME AdmitHttp(r, c).status = "forward", ~Opened(r), ~r.softAuth
               PROVE  \/ /\ c.up /\ c.session = "live"
                         /\ Wanted(r) # NoRole => EnforceMinRole({c.role}, Wanted(r))
                      \/ ~c.up /\ c.degraded /\ Wanted(r) = NoRole
    BY DEF AskedServer
  <1>1. PICK m : m = Wanted(r)
    OBVIOUS
  <1>2. ~r.bypass /\ r.rule # "public" /\ ~(r.public /\ m = NoRole)
    BY <1>1 DEF Opened
  <1>3. PICK id : id = Identify(r, c, r.public \/ r.bypass \/ r.rule = "public", m)
    OBVIOUS
  <1>4. AdmitHttp(r, c) = IF id.is # "authenticated" THEN Refusal(id.is)
                          ELSE IF r.public /\ m # NoRole THEN Answer("403")
                          ELSE EnforceRole(r, id, m)
    BY <1>1, <1>3, EffectiveIsWanted DEF AdmitHttp
  <1>5. \A why : Refusal(why).status # "forward"
    BY DEF Refusal, Answer
  <1>6. id.is = "authenticated"
    BY <1>4, <1>5
  <1>7. ~r.public
    BY <1>2, <1>4, <1>6 DEF Answer
  <1>8. m # NoRole => EnforceMinRole(id.roles, m)
    BY <1>2, <1>4, <1>6, <1>7 DEF EnforceRole, Answer
  <1>9. id = CheckWithDegradedPolicy(c, m, m = NoRole)
    BY <1>2, <1>3, <1>7 DEF Identify
  <1>10. CASE c.up
    <2>1. c.session = "live" /\ id = Authenticated({c.role}, FALSE)
      BY <1>6, <1>9, <1>10 DEF CheckWithDegradedPolicy, NotAuthenticated
    <2>2. id.roles = {c.role}
      BY <2>1 DEF Authenticated
    <2> QED
      BY <1>1, <1>8, <1>10, <2>1, <2>2
  <1>11. CASE ~c.up
    <2>1. m = NoRole /\ c.degraded
      BY <1>6, <1>9, <1>11 DEF CheckWithDegradedPolicy, NotAuthenticated
    <2> QED
      BY <1>1, <1>11, <2>1
  <1> QED
    BY <1>10, <1>11

(* The admission decision serves the owner on every route that passes      *)
(* validation.                                                             *)
LEMMA AdmitOwner ==
  ASSUME NEW r \in Routes, NEW c \in Callers
  PROVE  OwnerServed(r, c, AdmitHttp(r, c))
  <1> SUFFICES ASSUME ValidRoute(r), c.up, c.session = "live", c.role = "OWNER",
                      ~(r.public /\ r.rule \in RuleRoles)
               PROVE  AdmitHttp(r, c).status = "forward"
    BY DEF OwnerServed
  <1>1. PICK m : m = Wanted(r)
    OBVIOUS
  <1>b. r.public \in BOOLEAN /\ r.bypass \in BOOLEAN /\ r.softAuth \in BOOLEAN
    BY DEF Routes
  <1>2. m # NoRole => IsKnownRole(m)
    BY <1>1 DEF ValidRoute, Wanted
  <1>3. m # NoRole => EnforceMinRole({"OWNER"}, m)
    BY <1>2, OwnerMayAll
  <1>4. r.public => m = NoRole
    BY <1>1 DEF ValidRoute, Wanted, Routes, NoRole
  <1>5. PICK skip \in BOOLEAN : skip = (r.public \/ r.bypass \/ r.rule = "public")
    OBVIOUS
  <1>6. skip => m = NoRole \/ r.bypass
    BY <1>1, <1>4, <1>5 DEF Wanted, NoRole
  <1>7. PICK id : id = Identify(r, c, skip, m)
    OBVIOUS
  <1>8. AdmitHttp(r, c) = IF id.is # "authenticated" THEN Refusal(id.is)
                          ELSE IF r.public /\ m # NoRole THEN Answer("403")
                          ELSE EnforceRole(r, id, m)
    BY <1>1, <1>5, <1>7, EffectiveIsWanted DEF AdmitHttp
  <1>9. \A f : CheckWithDegradedPolicy(c, m, f) = Authenticated({"OWNER"}, FALSE)
    BY <1>3 DEF CheckWithDegradedPolicy
  <1>10. id = IF skip THEN Anonymous ELSE Authenticated({"OWNER"}, FALSE)
    <2>1. Authenticated({"OWNER"}, FALSE).is = "authenticated"
      BY DEF Authenticated
    <2> QED
      BY <1>7, <1>9, <2>1 DEF Identify
  <1>11. id.is = "authenticated" /\ (~skip => id.roles = {"OWNER"})
    BY <1>10 DEF Anonymous, Authenticated
  <1>12. AdmitHttp(r, c) = EnforceRole(r, id, m)
    BY <1>4, <1>8, <1>11
  <1>13. m # NoRole /\ ~r.bypass => EnforceMinRole(id.roles, m)
    BY <1>3, <1>6, <1>11
  <1> QED
    BY <1>12, <1>13 DEF EnforceRole, Forward

(* Without a rule for the path the two copies decide alike. *)
LEMMA AdmitAlike ==
  ASSUME NEW r \in Routes, NEW c \in Callers, r.rule = NoRole
  PROVE  AdmitWs(r, c) = AdmitHttp(r, c)
  <1>1. EffectiveRole(r) = r.minRole
    BY DEF EffectiveRole, NoRole
  <1>2. (r.public \/ r.bypass \/ r.rule = "public") = (r.public \/ r.bypass)
    BY DEF NoRole
  <1>3. PICK id : id = Identify(r, c, r.public \/ r.bypass, r.minRole)
    OBVIOUS
  <1>4. AdmitHttp(r, c) = IF id.is # "authenticated" THEN Refusal(id.is)
                          ELSE IF r.public /\ r.minRole # NoRole THEN Answer("403")
                          ELSE EnforceRole(r, id, r.minRole)
    BY <1>1, <1>2, <1>3 DEF AdmitHttp
  <1>5. AdmitWs(r, c) = IF r.public /\ r.minRole # NoRole THEN Answer("403")
                        ELSE IF id.is # "authenticated" THEN Refusal(id.is)
                        ELSE EnforceRole(r, id, r.minRole)
    BY <1>3 DEF AdmitWs
  <1>6. r.public => id = Anonymous
    BY <1>3 DEF Identify
  <1>7. r.public => id.is = "authenticated"
    BY <1>6 DEF Anonymous
  <1> QED
    BY <1>4, <1>5, <1>7

(* The answers that were given are those of the two decisions. *)
AnswersTo(a, h, w) ==
  /\ a \in [route : Routes, caller : Callers]
  /\ h = NoAnswer \/ h = AdmitHttp(a.route, a.caller)
  /\ w = NoAnswer \/ (h # NoAnswer /\ w = AdmitWs(a.route, a.caller))

AdmissionInv == AnswersTo(ask, httpAnswer, wsAnswer)

(* Nothing is answered before the request is handled. *)
LEMMA AdmissionInitInv == AdmissionInit => AdmissionInv
  BY DEF AdmissionInit, AdmissionInv, AnswersTo

(* Each of the two handlers answers by its own copy of the decision. *)
LEMMA AdmissionStepInv == AdmissionInv /\ [HandleHttp \/ HandleWs]_admissionVars => AdmissionInv'
  <1> SUFFICES ASSUME AdmissionInv, [HandleHttp \/ HandleWs]_admissionVars PROVE AdmissionInv'
    OBVIOUS
  <1>1. AnswersTo(ask', httpAnswer', wsAnswer')
    BY DEF HandleHttp, HandleWs, admissionVars, AdmissionInv, AnswersTo
  <1> QED
    BY <1>1 DEF AdmissionInv

(* What the two copies of the decision answer has the three properties of  *)
(* admission.                                                              *)
LEMMA AdmissionInvGives ==
  AdmissionInv => ProtectedPathsAskedServer /\ UpgradeAsRequest /\ ValidRouteServesOwner
  <1> SUFFICES ASSUME AdmissionInv
               PROVE  ProtectedPathsAskedServer /\ UpgradeAsRequest /\ ValidRouteServesOwner
    OBVIOUS
  <1>1. PICK r \in Routes, c \in Callers : r = ask.route /\ c = ask.caller
    BY DEF AdmissionInv, AnswersTo
  <1>2. /\ httpAnswer = NoAnswer \/ httpAnswer = AdmitHttp(r, c)
        /\ wsAnswer = NoAnswer \/ (httpAnswer # NoAnswer /\ wsAnswer = AdmitWs(r, c))
    BY <1>1 DEF AdmissionInv, AnswersTo
  <1>3. NoAnswer.status # "forward"
    BY DEF NoAnswer, Answer
  <1>4. ProtectedPathsAskedServer
    <2>1. AskedServer(r, c, httpAnswer)
      BY <1>2, <1>3, AdmitAsked DEF AskedServer
    <2> QED
      BY <1>1, <2>1 DEF AskedServer, ProtectedPathsAskedServer
  <1>5. UpgradeAsRequest
    BY <1>1, <1>2, AdmitAlike DEF UpgradeAsRequest
  <1>6. ValidRouteServesOwner
    BY <1>1, <1>2, AdmitOwner DEF OwnerServed, ValidRouteServesOwner
  <1> QED
    BY <1>4, <1>5, <1>6

-------------------------------------------------------------------------------
(* Listener: what the listeners answer themselves.                         *)

ServedAs(q, c, answer) ==
  /\ q \in Arrivals /\ c \in Conditions
  /\ answer = Unhandled \/ answer = IF q.listener = "plain" THEN PlainService(q, c) ELSE TlsService(q, c)

ListenerInv == ServedAs(arrival, condition, handled)

(* Nothing is answered before a request arrives. *)
LEMMA ListenerInitInv == ListenerInit => ListenerInv
  BY DEF ListenerInit, ListenerInv, ServedAs

(* A request is answered by the first test of the listener that takes it. *)
LEMMA ListenerStepInv == ListenerInv /\ [ServeRequest]_listenerVars => ListenerInv'
  <1> SUFFICES ASSUME ListenerInv, [ServeRequest]_listenerVars PROVE ListenerInv'
    OBVIOUS
  <1>1. ServedAs(arrival', condition', handled')
    BY DEF ServeRequest, listenerVars, ListenerInv, ServedAs
  <1> QED
    BY <1>1 DEF ListenerInv

Mutations == {"reset breaker", "reload", "patch", "clear overlay", "drain"}

(* The endpoints that change something are never asked with GET. *)
LEMMA MutationsAreMutating ==
  ASSUME NEW path, NEW method, AdminEndpoint(path, method) \in Mutations
  PROVE  method # "GET"
  BY DEF AdminEndpoint, Mutations

(* An answer that changes state was asked for locally, on the plain        *)
(* listener, with the token.                                               *)
LEMMA ServedAsAuthorized ==
  ASSUME NEW q, NEW c, NEW answer, ServedAs(q, c, answer), answer \in Mutations
  PROVE  q.loopback /\ q.host = "unrouted" /\ q.listener = "plain" /\ c.token /\ q.bearer = "right"
  <1>1. q \in Arrivals /\ c \in Conditions /\ answer # Unhandled
    BY DEF ServedAs, Mutations, Unhandled
  <1>2. \A d, u : HealthzStatus(d, u) \notin Mutations
    BY DEF HealthzStatus, Mutations
  <1>3. TlsService(q, c) \notin Mutations
    BY <1>2 DEF TlsService, Mutations
  <1>4. answer = PlainService(q, c) /\ q.listener = "plain"
    BY <1>1, <1>3 DEF ServedAs
  <1>5. answer = AdminApi(q, c) /\ AdminIsGatewayAdmin(q.host)
    BY <1>2, <1>4 DEF PlainService, Mutations
  <1>6. q.host = "unrouted"
    BY <1>1, <1>5 DEF AdminIsGatewayAdmin, Arrivals, HostKinds
  <1>7. /\ q.loopback /\ AdminDecide(c.token, q.bearer, q.method # "GET") = "allow"
        /\ answer = AdminEndpoint(q.path, q.method)
    BY <1>5 DEF AdminApi, AdminDecide, Mutations
  <1>8. q.method # "GET"
    BY <1>7, MutationsAreMutating
  <1>9. c.token /\ q.bearer = "right"
    BY <1>7, <1>8 DEF AdminDecide
  <1> QED
    BY <1>4, <1>6, <1>7, <1>9

(* The invariant of the listeners gives the parts about the admin API and  *)
(* routed hosts.                                                           *)
LEMMA ListenerInvGives == ListenerInv => ChangesAreAuthorized /\ RoutedHostReachesService
  <1> SUFFICES ASSUME ListenerInv PROVE ChangesAreAuthorized /\ RoutedHostReachesService
    OBVIOUS
  <1>1. ChangesAreAuthorized
    BY ServedAsAuthorized DEF ListenerInv, ChangesAreAuthorized, Mutations
  <1>2. RoutedHostReachesService
    BY DEF ListenerInv, ServedAs, RoutedHostReachesService, PlainService, TlsService, OwnHealthz, HostIsRouted,
           AdminIsGatewayAdmin
  <1> QED
    BY <1>1, <1>2

-------------------------------------------------------------------------------
(* The validator: decoding a path, for texts of every length.              *)

(* A non-empty set of naturals has a least element. *)
LEMMA LeastNatural ==
  ASSUME NEW T \in SUBSET Nat, T # {}
  PROVE  \E n \in T : \A m \in T : n <= m
  <1>1. PICK n \in T : \A m \in T : ~(<<m, n>> \in OpToRel(<, Nat))
    BY ZenonT(40), WFMin, NatLessThanWellFounded
  <1>2. \A m \in T : ~(m < n)
    BY <1>1 DEF OpToRel
  <1> QED
    BY <1>2

(* Induction on the length of a sequence, with the claim as a set. *)
LEMMA ByLength ==
  ASSUME NEW S, NEW Good,
         \A s \in Seq(S) : (\A t \in Seq(S) : Len(t) < Len(s) => t \in Good) => s \in Good
  PROVE  \A s \in Seq(S) : s \in Good
  <1> SUFFICES ASSUME NEW s0 \in Seq(S), s0 \notin Good PROVE FALSE
    OBVIOUS
  <1> DEFINE Bad == {s \in Seq(S) : s \notin Good}
             Lens == {Len(s) : s \in Bad}
  <1>1. Lens \in SUBSET Nat /\ Lens # {}
    <2>1. \A s \in Seq(S) : Len(s) \in Nat
      BY LenProperties
    <2>2. Bad \subseteq Seq(S) /\ s0 \in Bad
      OBVIOUS
    <2>3. Len(s0) \in Lens
      BY <2>2
    <2>4. \A m \in Lens : m \in Nat
      BY <2>1, <2>2
    <2> QED
      BY <2>3, <2>4
  <1>2. PICK n \in Lens : \A m \in Lens : n <= m
    <2> HIDE DEF Lens
    <2> QED
      BY <1>1, LeastNatural
  <1>3. PICK s \in Bad : Len(s) = n
    BY <1>2
  <1>4. \A t \in Seq(S) : Len(t) < Len(s) => t \in Good
    <2> SUFFICES ASSUME NEW t \in Seq(S), Len(t) < Len(s), t \notin Good PROVE FALSE
      OBVIOUS
    <2>1. Len(t) \in Lens
      OBVIOUS
    <2>2. Len(t) \in Nat /\ n \in Nat /\ n <= Len(t)
      <3> HIDE DEF Lens
      <3> QED
        BY <1>1, <1>2, <2>1
    <2> QED
      BY <2>2, <1>3
  <1> QED
    BY <1>3, <1>4

Shortens(nx, S, B) ==
  nx \in [Seq(S) -> Seq(S)] /\ \A s \in Seq(S) : s \notin B => Len(nx[s]) < Len(s)
SolvesBy(F, S, B, b, h, nx) ==
  F = [s \in Seq(S) |-> IF s \in B THEN b[s] ELSE h[s] \o F[nx[s]]]

(* A function may be defined by recursion along a step that shortens the   *)
(* sequence: the equation has a solution.                                  *)
LEMMA ShorteningRecursion ==
  ASSUME NEW S, NEW B, NEW b, NEW h, NEW nx, Shortens(nx, S, B)
  PROVE  \E F : SolvesBy(F, S, B, b, h, nx)
  <1> DEFINE Upto(n) == {s \in Seq(S) : Len(s) <= n}
             Body(f, s) == IF s \in B THEN b[s] ELSE h[s] \o f[nx[s]]
             Solves(f, n) == f = [s \in Upto(n) |-> Body(f, s)]
             Solvable == {n \in Nat : \E f : Solves(f, n)}
             Agreed == {s \in Seq(S) : \A m \in Nat, n \in Nat : \A f, g :
                          Len(s) <= m /\ Len(s) <= n /\ Solves(f, m) /\ Solves(g, n) => f[s] = g[s]}
  <1>l. \A s \in Seq(S) : Len(s) \in Nat /\ nx[s] \in Seq(S) /\ Len(nx[s]) \in Nat
    BY LenProperties DEF Shortens
  <1>k. \A s \in Seq(S) : s \notin B => Len(nx[s]) < Len(s)
    BY DEF Shortens
  <1>1. \A s \in Seq(S), n \in Nat : \A f : Solves(f, n) /\ Len(s) <= n => f[s] = Body(f, s)
    <2> SUFFICES ASSUME NEW s \in Seq(S), NEW n \in Nat, NEW f, Solves(f, n), Len(s) <= n
                 PROVE  f[s] = Body(f, s)
      OBVIOUS
    <2>1. s \in Upto(n)
      OBVIOUS
    <2> HIDE DEF Upto, Body
    <2> QED
      BY <2>1
  <1>2. \A s \in Seq(S) : s \in Agreed
    <2>1. ASSUME NEW s \in Seq(S), \A t \in Seq(S) : Len(t) < Len(s) => t \in Agreed
          PROVE  s \in Agreed
      <3> SUFFICES ASSUME NEW m \in Nat, NEW n \in Nat, NEW f, NEW g,
                          Len(s) <= m, Len(s) <= n, Solves(f, m), Solves(g, n)
                   PROVE  f[s] = g[s]
        OBVIOUS
      <3>1. f[s] = Body(f, s) /\ g[s] = Body(g, s)
        <4> HIDE DEF Body, Solves
        <4> QED
          BY <1>1
      <3>2. s \notin B => f[nx[s]] = g[nx[s]]
        <4>1. ASSUME s \notin B PROVE f[nx[s]] = g[nx[s]]
          <5>1. nx[s] \in Agreed /\ Len(nx[s]) <= m /\ Len(nx[s]) <= n
            <6> HIDE DEF Agreed
            <6> QED
              BY <4>1, <1>k, <1>l, <2>1
          <5> HIDE DEF Solves
          <5> QED
            BY <5>1
        <4> QED
          BY <4>1
      <3> QED
        BY <3>1, <3>2
    <2> HIDE DEF Agreed
    <2> QED
      BY <2>1, ByLength
  <1>3. \A n \in Nat : n \in Solvable
    <2> SUFFICES ASSUME NEW n0 \in Nat, n0 \notin Solvable PROVE FALSE
      OBVIOUS
    <2> DEFINE Un == {n \in Nat : n \notin Solvable}
    <2>1. PICK n \in Un : \A m \in Un : n <= m
      <3>1. Un \in SUBSET Nat /\ Un # {}
        OBVIOUS
      <3> HIDE DEF Un
      <3> QED
        BY <3>1, LeastNatural
    <2>2. ASSUME n = 0 PROVE FALSE
      <3> DEFINE f0 == [s \in Upto(0) |-> b[s]]
      <3>1. \A s \in Upto(0) : s \in B
        BY <1>k, <1>l
      <3>2. \A s \in Upto(0) : Body(f0, s) = b[s]
        BY <3>1
      <3>3. Solves(f0, 0)
        <4> HIDE DEF Body, Upto
        <4> QED
          BY <3>2
      <3> QED
        BY <2>1, <2>2, <3>3
    <2>3. ASSUME n # 0 PROVE FALSE
      <3>1. n - 1 \in Nat /\ n - 1 \in Solvable
        <4> HIDE DEF Solvable
        <4>1. n \in Nat
          BY <2>1
        <4> QED
          BY <2>1, <2>3, <4>1
      <3>2. PICK f : Solves(f, n - 1)
        BY <3>1
      <3> DEFINE g == [s \in Upto(n) |-> Body(f, s)]
      <3>3. \A s \in Upto(n) : s \notin B => g[nx[s]] = f[nx[s]]
        <4> SUFFICES ASSUME NEW s \in Upto(n), s \notin B PROVE g[nx[s]] = f[nx[s]]
          OBVIOUS
        <4>1. nx[s] \in Seq(S) /\ Len(nx[s]) <= n - 1 /\ nx[s] \in Upto(n)
          BY <1>k, <1>l, <2>1, <2>3
        <4>2. g[nx[s]] = Body(f, nx[s])
          <5> HIDE DEF Body, Upto
          <5> QED
            BY <4>1
        <4>3. f[nx[s]] = Body(f, nx[s])
          <5> HIDE DEF Body, Solves
          <5> QED
            BY <1>1, <3>1, <3>2, <4>1
        <4> QED
          BY <4>2, <4>3
      <3>4. \A s \in Upto(n) : Body(g, s) = Body(f, s)
        <4> HIDE DEF g, Upto
        <4> QED
          BY <3>3
      <3>5. Solves(g, n)
        <4> HIDE DEF Body, Upto
        <4> QED
          BY <3>4
      <3> QED
        BY <2>1, <3>5
    <2> QED
      BY <2>2, <2>3
  <1> DEFINE Sol(n) == CHOOSE f : Solves(f, n)
             F == [s \in Seq(S) |-> Sol(Len(s))[s]]
  <1>4. \A n \in Nat : Solves(Sol(n), n)
    <2> HIDE DEF Solves
    <2> QED
      BY <1>3
  <1>5. \A s \in Seq(S) : F[s] = Body(F, s)
    <2> SUFFICES ASSUME NEW s \in Seq(S) PROVE F[s] = Body(F, s)
      OBVIOUS
    <2>1. F[s] = Body(Sol(Len(s)), s)
      <3> HIDE DEF Body, Solves, Sol
      <3> QED
        BY <1>1, <1>4, <1>l
    <2>2. s \notin B => F[nx[s]] = Sol(Len(s))[nx[s]]
      <3>1. ASSUME s \notin B PROVE F[nx[s]] = Sol(Len(s))[nx[s]]
        <4>1. nx[s] \in Agreed /\ Len(nx[s]) <= Len(s)
          <5> HIDE DEF Agreed
          <5> QED
            BY <1>2, <1>k, <1>l, <3>1
        <4> HIDE DEF Solves, Sol
        <4> QED
          BY <4>1, <1>4, <1>l
      <3> QED
        BY <3>1
    <2> HIDE DEF F, Sol
    <2> QED
      BY <2>1, <2>2
  <1>6. F = [s \in Seq(S) |-> Body(F, s)]
    <2> HIDE DEF Body, Sol
    <2> QED
      BY <1>5
  <1> HIDE DEF F
  <1> QED
    BY <1>6 DEF SolvesBy
Texts == Seq(Chars)

(* What a pass makes of the beginning of a text, and where it goes on. *)
Decoded(s) == IF EscapeAt(s) THEN <<Byte(s[2], s[3])>> ELSE <<Head(s)>>
Rest(s) == IF EscapeAt(s) THEN SubSeq(s, 4, Len(s)) ELSE Tail(s)

(* The rest of a text is a shorter text. *)
LEMMA RestIsShorter ==
  ASSUME NEW s \in Texts, s # <<>>
  PROVE  /\ Len(s) \in Nat /\ Len(s) > 0 /\ Head(s) = s[1]
         /\ Rest(s) \in Texts /\ Decoded(s) \in Texts /\ Len(Decoded(s)) = 1
         /\ Decoded(s)[1] = IF EscapeAt(s) THEN Byte(s[2], s[3]) ELSE s[1]
         /\ Len(Rest(s)) = IF EscapeAt(s) THEN Len(s) - 3 ELSE Len(s) - 1
         /\ \A i \in 1 .. Len(Rest(s)) : Rest(s)[i] = IF EscapeAt(s) THEN s[i + 3] ELSE s[i + 1]
         /\ EscapeAt(s) => Len(s) >= 3
  <1>1. Len(s) \in Nat /\ Len(s) > 0 /\ Head(s) = s[1] /\ \A i \in 1 .. Len(s) : s[i] \in Chars
    BY EmptySeq, ElementOfSeq, LenProperties DEF Texts
  <1>2. CASE EscapeAt(s)
    <2>1. Len(s) >= 3
      BY <1>2 DEF EscapeAt
    <2>2. \A i \in 4 .. Len(s) : s[i] \in Chars
      BY <1>1
    <2>3. /\ SubSeq(s, 4, Len(s)) \in Texts
          /\ Len(SubSeq(s, 4, Len(s))) = IF 4 <= Len(s) THEN Len(s) - 4 + 1 ELSE 0
          /\ \A i \in 1 .. Len(s) - 4 + 1 : SubSeq(s, 4, Len(s))[i] = s[4 + i - 1]
      BY <1>1, <2>2, SubSeqProperties DEF Texts
    <2>4. Byte(s[2], s[3]) \in Chars
      BY DEF Byte, Chars
    <2>5. Rest(s) = SubSeq(s, 4, Len(s)) /\ Decoded(s) = <<Byte(s[2], s[3])>>
      BY <1>2 DEF Rest, Decoded
    <2>6. Len(Rest(s)) = Len(s) - 3 /\ \A i \in 1 .. Len(Rest(s)) : Rest(s)[i] = s[i + 3]
      <3>1. Len(Rest(s)) = Len(s) - 3
        <4>1. Len(Rest(s)) = IF 4 <= Len(s) THEN Len(s) - 4 + 1 ELSE 0
          BY Zenon, <2>3, <2>5
        <4>2. CASE Len(s) = 3
          BY <4>1, <4>2
        <4>3. CASE Len(s) >= 4
          BY <1>1, <4>1, <4>3
        <4>4. ASSUME NEW n \in Nat, n >= 3 PROVE n = 3 \/ n >= 4
          BY <4>4
        <4> QED
          BY <1>1, <2>1, <4>2, <4>3, <4>4
      <3>2. ASSUME NEW i \in 1 .. Len(Rest(s)) PROVE Rest(s)[i] = s[i + 3]
        <4>1. i \in 1 .. Len(s) - 4 + 1 /\ 4 + i - 1 = i + 3
          BY <3>1, <1>1
        <4> QED
          BY <4>1, <2>3, <2>5
      <3> QED
        BY <3>1, <3>2
    <2>7. Decoded(s) \in Texts /\ Len(Decoded(s)) = 1 /\ Decoded(s)[1] = Byte(s[2], s[3])
      BY <2>4, <2>5 DEF Texts
    <2> QED
      BY <1>1, <1>2, <2>1, <2>3, <2>5, <2>6, <2>7
  <1>3. CASE ~EscapeAt(s)
    <2>1. /\ Tail(s) \in Texts /\ Len(Tail(s)) = Len(s) - 1
          /\ \A i \in 1 .. Len(Tail(s)) : Tail(s)[i] = s[i + 1]
      BY HeadTailProperties DEF Texts
    <2>2. Rest(s) = Tail(s) /\ Decoded(s) = <<s[1]>>
      BY <1>1, <1>3 DEF Rest, Decoded
    <2>3. Decoded(s) \in Texts /\ Len(Decoded(s)) = 1 /\ Decoded(s)[1] = s[1]
      BY <1>1, <2>2 DEF Texts
    <2> QED
      BY <1>1, <1>3, <2>1, <2>2, <2>3
  <1> QED
    BY <1>2, <1>3

(* One pass of the decoding is what its equation says. *)
LEMMA PassUnfolds ==
  /\ DecodePass[<<>>] = <<>>
  /\ \A s \in Texts : s # <<>> => DecodePass[s] = Decoded(s) \o DecodePass[Rest(s)]
  <1> DEFINE Body(f, s) == IF s = <<>> THEN <<>>
                           ELSE IF EscapeAt(s) THEN <<Byte(s[2], s[3])>> \o f[SubSeq(s, 4, Len(s))]
                           ELSE <<Head(s)>> \o f[Tail(s)]
             Solves(f) == f = [s \in Texts |-> Body(f, s)]
             B == {<<>>}
             b == [s \in Texts |-> <<>>]
             h == [s \in Texts |-> Decoded(s)]
             nx == [s \in Texts |-> IF s = <<>> THEN <<>> ELSE Rest(s)]
  <1>e. <<>> \in Texts
    BY DEF Texts
  <1>1. nx \in [Texts -> Texts] /\ \A s \in Texts : s \notin B => Len(nx[s]) < Len(s)
    <2>1. \A s \in Texts : s # <<>> => Rest(s) \in Texts /\ Len(Rest(s)) < Len(s)
      BY RestIsShorter
    <2> QED
      BY <2>1, <1>e
  <1>2. PICK F : SolvesBy(F, Chars, B, b, h, nx)
    <2>1. Shortens(nx, Chars, B)
      <3> HIDE DEF B, nx
      <3> QED
        BY <1>1 DEF Texts, Shortens
    <2> HIDE DEF B, b, h, nx
    <2> QED
      BY <2>1, ShorteningRecursion
  <1>3. F = [s \in Texts |-> IF s \in B THEN b[s] ELSE h[s] \o F[nx[s]]]
    <2> HIDE DEF B, b, h, nx
    <2> QED
      BY <1>2 DEF SolvesBy, Texts
  <1>4. \A f : \A s \in Texts : Body(f, s) = IF s \in B THEN b[s] ELSE h[s] \o f[nx[s]]
    <2> SUFFICES ASSUME NEW f, NEW s \in Texts
                 PROVE  Body(f, s) = IF s \in B THEN b[s] ELSE h[s] \o f[nx[s]]
      OBVIOUS
    <2>1. CASE s = <<>>
      BY <2>1
    <2>2. CASE s # <<>>
      <3>1. h[s] = Decoded(s) /\ nx[s] = Rest(s)
        BY <2>2
      <3>2. Body(f, s) = Decoded(s) \o f[Rest(s)]
        BY <2>2 DEF Decoded, Rest
      <3> QED
        BY <2>2, <3>1, <3>2
    <2> QED
      BY <2>1, <2>2
  <1>5. Solves(F)
    <2> HIDE DEF Body, B, b, h, nx
    <2> QED
      BY <1>3, <1>4
  <1>6. DecodePass = CHOOSE f : Solves(f)
    BY DEF DecodePass, Texts
  <1>7. Solves(DecodePass)
    <2> HIDE DEF Solves
    <2> QED
      BY <1>5, <1>6
  <1>8. \A s \in Texts : DecodePass[s] = Body(DecodePass, s)
    <2> HIDE DEF Body
    <2> QED
      BY <1>7
  <1>9. DecodePass[<<>>] = <<>>
    BY <1>8, <1>e
  <1>10. ASSUME NEW s \in Texts, s # <<>> PROVE DecodePass[s] = Decoded(s) \o DecodePass[Rest(s)]
    <2>1. Body(DecodePass, s) = Decoded(s) \o DecodePass[Rest(s)]
      BY <1>10 DEF Decoded, Rest
    <2> HIDE DEF Body
    <2> QED
      BY <2>1, <1>8
  <1> QED
    BY <1>9, <1>10

(* A character put before a text. *)
LEMMA Prefixed ==
  ASSUME NEW c \in Texts, Len(c) = 1, NEW d \in Texts
  PROVE  /\ c \o d \in Texts /\ Len(d) \in Nat /\ Len(c \o d) = 1 + Len(d)
         /\ (c \o d)[1] = c[1]
         /\ \A i \in 1 .. Len(d) : (c \o d)[i + 1] = d[i]
  <1>1. /\ c \o d \in Texts /\ Len(c \o d) = Len(c) + Len(d) /\ Len(d) \in Nat
        /\ \A i \in 1 .. Len(c) + Len(d) : (c \o d)[i] = IF i <= Len(c) THEN c[i] ELSE d[i - Len(c)]
    BY ConcatProperties, LenProperties DEF Texts
  <1> DEFINE e == c \o d
  <1> HIDE DEF e
  <1>2. e[1] = c[1]
    BY <1>1 DEF e
  <1>3. ASSUME NEW i \in 1 .. Len(d) PROVE e[i + 1] = d[i]
    <2>1. i + 1 \in 1 .. Len(c) + Len(d) /\ ~(i + 1 <= Len(c)) /\ i + 1 - Len(c) = i
      BY <1>1
    <2> QED
      BY <1>1, <2>1 DEF e
  <1> QED
    BY <1>1, <1>2, <1>3 DEF e

(* Is there an escape at some place of a text? *)
EscapeIn(s) ==
  \E i \in 1 .. Len(s) : s[i] = "%" /\ i + 2 <= Len(s) /\ IsHex(s[i + 1]) /\ IsHex(s[i + 2])

(* A pass does not lengthen a text, and one that does not shorten it found *)
(* nothing to decode.                                                      *)
PassShortens(s) ==
  LET d == DecodePass[s] IN
  /\ d \in Texts /\ Len(d) <= Len(s)
  /\ Len(d) = Len(s) => d = s /\ ~EscapeIn(s)

(* Every text passes so. *)
LEMMA PassesShorten == \A s \in Texts : PassShortens(s)
  <1> DEFINE Good == {s \in Texts : PassShortens(s)}
  <1>1. ASSUME NEW s \in Texts, \A t \in Texts : Len(t) < Len(s) => t \in Good PROVE s \in Good
    <2>1. CASE s = <<>>
      <3>1. DecodePass[s] = s /\ s \in Texts /\ Len(s) = 0
        BY <2>1, PassUnfolds
      <3> QED
        BY <3>1 DEF PassShortens, EscapeIn
    <2>2. CASE s # <<>>
      <3> DEFINE r == Rest(s)
                 d == DecodePass[r]
                 c == Decoded(s)
      <3>1. /\ Len(s) \in Nat /\ r \in Texts /\ c \in Texts /\ Len(c) = 1
            /\ c[1] = IF EscapeAt(s) THEN Byte(s[2], s[3]) ELSE s[1]
            /\ Len(r) = IF EscapeAt(s) THEN Len(s) - 3 ELSE Len(s) - 1
            /\ \A i \in 1 .. Len(r) : r[i] = IF EscapeAt(s) THEN s[i + 3] ELSE s[i + 1]
        BY <2>2, RestIsShorter
      <3>2. PassShortens(r)
        <4>1. Len(r) < Len(s)
          BY <3>1
        <4> QED
          BY <1>1, <3>1, <4>1
      <3>3. DecodePass[s] = c \o d
        BY <2>2, PassUnfolds
      <3>4. d \in Texts /\ Len(d) \in Nat /\ Len(d) <= Len(r)
        BY <3>2, LenProperties DEF PassShortens, Texts
      <3>5. /\ c \o d \in Texts /\ Len(c \o d) = 1 + Len(d) /\ (c \o d)[1] = c[1]
            /\ \A i \in 1 .. Len(d) : (c \o d)[i + 1] = d[i]
        BY <3>1, <3>4, Prefixed
      <3>6. Len(c \o d) <= Len(s)
        BY <3>1, <3>4, <3>5
      <3>7. ASSUME Len(c \o d) = Len(s) PROVE c \o d = s /\ ~EscapeIn(s)
        <4>1. ~EscapeAt(s) /\ Len(d) = Len(r) /\ Len(r) = Len(s) - 1
          BY <3>1, <3>4, <3>5, <3>7
        <4>2. d = r /\ ~EscapeIn(r)
          BY <3>2, <4>1 DEF PassShortens
        <4>3. ASSUME NEW i \in 1 .. Len(s) PROVE (c \o d)[i] = s[i]
          <5>1. CASE i = 1
            BY <3>1, <3>5, <4>1, <5>1
          <5>2. CASE i # 1
            <6>1. i - 1 \in 1 .. Len(d) /\ (i - 1) + 1 = i
              BY <3>1, <4>1, <5>2
            <6>2. (c \o d)[i] = d[i - 1] /\ r[i - 1] = s[i]
              BY <3>1, <3>5, <4>1, <6>1
            <6> QED
              BY <4>2, <6>2
          <5> QED
            BY <5>1, <5>2
        <4>4. c \o d = s
          BY <3>5, <3>7, <4>3, SeqEqual DEF Texts
        <4>5. ~EscapeIn(s)
          <5> SUFFICES ASSUME NEW i \in 1 .. Len(s), s[i] = "%", i + 2 <= Len(s),
                              IsHex(s[i + 1]), IsHex(s[i + 2])
                       PROVE  FALSE
            BY DEF EscapeIn
          <5>1. CASE i = 1
            BY <3>1, <4>1, <5>1, <2>2, RestIsShorter DEF EscapeAt
          <5>2. CASE i # 1
            <6>1. i - 1 \in 1 .. Len(r) /\ i \in 1 .. Len(r) /\ i + 1 \in 1 .. Len(r)
              BY <3>1, <4>1, <5>2
            <6>2. r[i - 1] = s[i] /\ r[i] = s[i + 1] /\ r[i + 1] = s[i + 2]
              BY <3>1, <4>1, <6>1
            <6>3. EscapeIn(r)
              <7> HIDE DEF r
              <7>1. (i - 1) + 1 = i /\ (i - 1) + 2 = i + 1
                BY <3>1
              <7> QED
                BY <6>1, <6>2, <7>1, <4>1, <3>1 DEF EscapeIn
            <6> QED
              BY <4>2, <6>3
          <5> QED
            BY <5>1, <5>2
        <4> QED
          BY <4>4, <4>5
      <3> QED
        BY <3>3, <3>5, <3>6, <3>7 DEF PassShortens
    <2> QED
      BY <2>1, <2>2
  <1> HIDE DEF Good
  <1>2. \A s \in Texts : s \in Good
    BY <1>1, ByLength DEF Texts
  <1> QED
    BY <1>2 DEF Good

(* A text without a percent sign is left as it is. *)
LEMMA PlainStays ==
  ASSUME NEW s0 \in Texts, ~Contains(s0, "%")
  PROVE  DecodePass[s0] = s0
  <1> DEFINE Good == {s \in Texts : (\A i \in 1 .. Len(s) : s[i] # "%") => DecodePass[s] = s}
  <1>1. ASSUME NEW s \in Texts, \A t \in Texts : Len(t) < Len(s) => t \in Good PROVE s \in Good
    <2> SUFFICES ASSUME \A i \in 1 .. Len(s) : s[i] # "%" PROVE DecodePass[s] = s
      OBVIOUS
    <2>1. CASE s = <<>>
      BY <2>1, PassUnfolds
    <2>2. CASE s # <<>>
      <3> DEFINE r == Rest(s)
                 c == Decoded(s)
      <3>1. /\ Len(s) \in Nat /\ Len(s) > 0 /\ r \in Texts /\ c \in Texts /\ Len(c) = 1 /\ Head(s) = s[1]
            /\ c[1] = IF EscapeAt(s) THEN Byte(s[2], s[3]) ELSE s[1]
            /\ Len(r) = IF EscapeAt(s) THEN Len(s) - 3 ELSE Len(s) - 1
            /\ \A i \in 1 .. Len(r) : r[i] = IF EscapeAt(s) THEN s[i + 3] ELSE s[i + 1]
        BY <2>2, RestIsShorter
      <3>2. ~EscapeAt(s)
        BY <3>1 DEF EscapeAt
      <3>3. Len(r) = Len(s) - 1 /\ \A i \in 1 .. Len(r) : r[i] = s[i + 1]
        BY <3>1, <3>2
      <3>4. DecodePass[r] = r
        <4>1. Len(r) < Len(s) /\ r \in Good
          BY <1>1, <3>1, <3>3
        <4>2. \A i \in 1 .. Len(r) : r[i] # "%"
          <5> HIDE DEF r
          <5> QED
            BY <3>1, <3>3
        <4> HIDE DEF r
        <4> QED
          BY <4>1, <4>2
      <3>5. DecodePass[s] = c \o r
        BY <2>2, <3>4, PassUnfolds
      <3>6. /\ c \o r \in Texts /\ Len(c \o r) = 1 + Len(r) /\ (c \o r)[1] = c[1]
            /\ \A i \in 1 .. Len(r) : (c \o r)[i + 1] = r[i]
        BY <3>1, Prefixed
      <3>7. ASSUME NEW i \in 1 .. Len(s) PROVE (c \o r)[i] = s[i]
        <4>1. CASE i = 1
          BY <3>1, <3>2, <3>6, <4>1
        <4>2. CASE i # 1
          <5>1. i - 1 \in 1 .. Len(r) /\ (i - 1) + 1 = i
            BY <3>1, <3>3, <4>2
          <5> QED
            BY <3>3, <3>6, <5>1
        <4> QED
          BY <4>1, <4>2
      <3> QED
        BY <3>1, <3>3, <3>5, <3>6, <3>7, SeqEqual DEF Texts
    <2> QED
      BY <2>1, <2>2
  <1> HIDE DEF Good
  <1>2. s0 \in Good
    BY <1>1, ByLength DEF Texts
  <1> QED
    BY <1>2 DEF Good, Contains

(* A ".." that a text has is there after a pass, too. *)
LEMMA DotsStay ==
  ASSUME NEW s0 \in Texts, HasDots(s0)
  PROVE  HasDots(DecodePass[s0])
  <1> DEFINE Good == {s \in Texts : HasDots(s) => HasDots(DecodePass[s])}
  <1>1. ASSUME NEW s \in Texts, \A t \in Texts : Len(t) < Len(s) => t \in Good PROVE s \in Good
    <2> SUFFICES ASSUME HasDots(s) PROVE HasDots(DecodePass[s])
      OBVIOUS
    <2>1. PICK i \in 1 .. (Len(s) - 1) : s[i] = "." /\ s[i + 1] = "."
      BY DEF HasDots
    <2>l. Len(s) \in Nat
      BY LenProperties DEF Texts
    <2>2. s # <<>>
      BY <2>1
    <2> DEFINE r == Rest(s)
               d == DecodePass[r]
               c == Decoded(s)
    <2>3. /\ r \in Texts /\ c \in Texts /\ Len(c) = 1 /\ Head(s) = s[1]
          /\ c[1] = IF EscapeAt(s) THEN Byte(s[2], s[3]) ELSE s[1]
          /\ Len(r) = IF EscapeAt(s) THEN Len(s) - 3 ELSE Len(s) - 1
          /\ \A k \in 1 .. Len(r) : r[k] = IF EscapeAt(s) THEN s[k + 3] ELSE s[k + 1]
      BY <2>2, RestIsShorter
    <2>4. d \in Texts /\ DecodePass[s] = c \o d
      BY <2>2, <2>3, PassUnfolds, PassesShorten DEF PassShortens
    <2>5. /\ Len(d) \in Nat /\ Len(c \o d) = 1 + Len(d) /\ (c \o d)[1] = c[1]
          /\ \A k \in 1 .. Len(d) : (c \o d)[k + 1] = d[k]
      BY <2>3, <2>4, Prefixed
    <2>6. ASSUME HasDots(r) PROVE HasDots(c \o d)
      <3>1. Len(r) < Len(s)
        BY <2>3, <2>l
      <3>2. HasDots(d)
        BY <1>1, <2>3, <2>6, <3>1
      <3>3. PICK k \in 1 .. (Len(d) - 1) : d[k] = "." /\ d[k + 1] = "."
        BY <3>2 DEF HasDots
      <3>4. /\ k + 1 \in 1 .. (Len(c \o d) - 1)
            /\ (c \o d)[k + 1] = "." /\ (c \o d)[(k + 1) + 1] = "."
        BY <2>5, <3>3
      <3> QED
        BY <3>4 DEF HasDots
    <2>7. CASE EscapeAt(s)
      <3>1. s[1] = "%" /\ IsHex(s[2]) /\ IsHex(s[3]) /\ Len(r) = Len(s) - 3
        BY <2>3, <2>7 DEF EscapeAt
      <3>2. i \notin {1, 2, 3}
        BY <2>1, <3>1 DEF IsHex
      <3>3. i - 3 \in 1 .. Len(r) /\ (i - 3) + 1 \in 1 .. Len(r) /\ (i - 3) + 3 = i /\ ((i - 3) + 1) + 3 = i + 1
        BY <2>1, <2>l, <3>1, <3>2
      <3>4. r[i - 3] = "." /\ r[(i - 3) + 1] = "." /\ i - 3 \in 1 .. (Len(r) - 1)
        BY <2>1, <2>3, <2>7, <2>l, <3>1, <3>3
      <3>5. HasDots(r)
        BY <3>4 DEF HasDots
      <3> QED
        BY <2>4, <2>6, <3>5
    <2>8. CASE ~EscapeAt(s) /\ i # 1
      <3>1. i - 1 \in 1 .. Len(r) /\ (i - 1) + 1 \in 1 .. Len(r) /\ (i - 1) + 1 = i
        BY <2>1, <2>3, <2>8, <2>l
      <3>2. r[i - 1] = "." /\ r[(i - 1) + 1] = "." /\ i - 1 \in 1 .. (Len(r) - 1)
        BY <2>1, <2>3, <2>8, <2>l, <3>1
      <3>3. HasDots(r)
        BY <3>2 DEF HasDots
      <3> QED
        BY <2>4, <2>6, <3>3
    <2>9. CASE ~EscapeAt(s) /\ i = 1
      <3>1. s[1] = "." /\ s[2] = "." /\ Len(r) = Len(s) - 1 /\ 1 \in 1 .. Len(r)
        BY <2>1, <2>3, <2>9, <2>l
      <3>2. r[1] = "." /\ r # <<>>
        BY <2>3, <2>9, <3>1
      <3>3. /\ Head(r) = r[1] /\ Rest(r) \in Texts /\ Decoded(r) \in Texts /\ Len(Decoded(r)) = 1
            /\ Decoded(r)[1] = IF EscapeAt(r) THEN Byte(r[2], r[3]) ELSE r[1]
        BY <2>3, <3>2, RestIsShorter
      <3>4. ~EscapeAt(r)
        BY <3>2, <3>3 DEF EscapeAt
      <3>5. d = Decoded(r) \o DecodePass[Rest(r)] /\ DecodePass[Rest(r)] \in Texts
        BY <2>3, <3>2, <3>3, PassUnfolds, PassesShorten DEF PassShortens
      <3>6. d[1] = "." /\ Len(d) >= 1
        BY <3>2, <3>3, <3>4, <3>5, Prefixed
      <3>7. /\ 1 \in 1 .. (Len(c \o d) - 1)
            /\ (c \o d)[1] = "." /\ (c \o d)[1 + 1] = "."
        BY <2>3, <2>5, <2>9, <3>1, <3>6
      <3> QED
        BY <2>4, <3>7 DEF HasDots
    <2> QED
      BY <2>7, <2>8, <2>9
  <1> HIDE DEF Good
  <1>2. s0 \in Good
    BY <1>1, ByLength DEF Texts
  <1> QED
    BY <1>2 DEF Good

(* Another pass follows when this one changed something and left a percent *)
(* sign.                                                                   *)
GoesOn(s) == Contains(DecodePass[s], "%") /\ DecodePass[s] # s

(* The repeated decoding is what its equation says. *)
LEMMA DecodeUnfolds ==
  \A s \in Texts : UrlencodingDecode[s] = IF GoesOn(s) THEN UrlencodingDecode[DecodePass[s]] ELSE DecodePass[s]
  <1> DEFINE Body(f, s) == IF Contains(DecodePass[s], "%") /\ DecodePass[s] # s
                           THEN f[DecodePass[s]] ELSE DecodePass[s]
             Solves(f) == f = [s \in Texts |-> Body(f, s)]
             B == {s \in Texts : ~GoesOn(s)}
             b == [s \in Texts |-> DecodePass[s]]
             h == [s \in Texts |-> <<>>]
             nx == [s \in Texts |-> DecodePass[s]]
  <1>p. \A s \in Texts : DecodePass[s] \in Texts /\ (DecodePass[s] # s => Len(DecodePass[s]) < Len(s))
    <2> SUFFICES ASSUME NEW s \in Texts
                 PROVE  DecodePass[s] \in Texts /\ (DecodePass[s] # s => Len(DecodePass[s]) < Len(s))
      OBVIOUS
    <2>1. PassShortens(s)
      BY PassesShorten
    <2>2. Len(s) \in Nat /\ DecodePass[s] \in Texts /\ Len(DecodePass[s]) \in Nat
      BY <2>1, LenProperties DEF PassShortens, Texts
    <2> QED
      BY <2>1, <2>2 DEF PassShortens
  <1>1. Shortens(nx, Chars, B)
    <2>1. nx \in [Texts -> Texts] /\ \A s \in Texts : s \notin B => Len(nx[s]) < Len(s)
      BY <1>p DEF GoesOn
    <2> HIDE DEF B, nx
    <2> QED
      BY <2>1 DEF Texts, Shortens
  <1>2. PICK F : SolvesBy(F, Chars, B, b, h, nx)
    <2> HIDE DEF B, b, h, nx
    <2> QED
      BY <1>1, ShorteningRecursion
  <1>3. F = [s \in Texts |-> IF s \in B THEN b[s] ELSE h[s] \o F[nx[s]]]
    <2> HIDE DEF B, b, h, nx
    <2> QED
      BY <1>2 DEF SolvesBy, Texts
  <1>4. \A s \in Texts : F[s] = IF ~GoesOn(s) THEN DecodePass[s] ELSE <<>> \o F[DecodePass[s]]
    <2>1. \A s \in Texts : F[s] = IF s \in B THEN b[s] ELSE h[s] \o F[nx[s]]
      <3> HIDE DEF B, b, h, nx
      <3> QED
        BY <1>3
    <2> QED
      BY <2>1
  <1>5. \A s \in Texts : F[s] \in Texts
    <2> DEFINE Good == {s \in Texts : F[s] \in Texts}
    <2>1. ASSUME NEW s \in Texts, \A t \in Texts : Len(t) < Len(s) => t \in Good PROVE s \in Good
      <3>1. CASE ~GoesOn(s)
        BY <1>4, <1>p, <3>1
      <3>2. CASE GoesOn(s)
        <4>1. F[DecodePass[s]] \in Texts
          BY <2>1, <1>p, <3>2 DEF GoesOn
        <4>2. <<>> \o F[DecodePass[s]] = F[DecodePass[s]]
          BY <4>1, ConcatEmptySeq DEF Texts
        <4> QED
          BY <1>4, <3>2, <4>1, <4>2
      <3> QED
        BY <3>1, <3>2
    <2> HIDE DEF Good
    <2>2. \A s \in Texts : s \in Good
      BY <2>1, ByLength DEF Texts
    <2> QED
      BY <2>2 DEF Good
  <1>6. \A s \in Texts : F[s] = Body(F, s)
    <2> SUFFICES ASSUME NEW s \in Texts PROVE F[s] = Body(F, s)
      OBVIOUS
    <2>1. <<>> \o F[DecodePass[s]] = F[DecodePass[s]]
      BY <1>5, <1>p, ConcatEmptySeq DEF Texts
    <2> QED
      BY <1>4, <2>1 DEF GoesOn
  <1>7. Solves(F)
    <2>1. F = [s \in Texts |-> F[s]]
      <3> HIDE DEF B, b, h, nx
      <3> QED
        BY <1>3
    <2> HIDE DEF Body
    <2> QED
      BY <1>6, <2>1
  <1>8. UrlencodingDecode = CHOOSE f : Solves(f)
    BY DEF UrlencodingDecode, Texts
  <1>9. Solves(UrlencodingDecode)
    <2> HIDE DEF Solves
    <2> QED
      BY <1>7, <1>8
  <1>10. \A s \in Texts : UrlencodingDecode[s] = Body(UrlencodingDecode, s)
    <2> HIDE DEF Body
    <2> QED
      BY <1>9
  <1> QED
    BY <1>10 DEF GoesOn

(* What the repeated decoding gives: a text in which nothing is left to    *)
(* decode, with the ".." of the text it was given.                         *)
Settled(s) ==
  LET u == UrlencodingDecode[s] IN
  /\ u \in Texts /\ ~EscapeIn(u)
  /\ HasDots(s) => HasDots(u)

(* Every text settles. *)
LEMMA AllSettle == \A s \in Texts : Settled(s)
  <1> DEFINE Good == {s \in Texts : Settled(s)}
  <1>1. ASSUME NEW s \in Texts, \A t \in Texts : Len(t) < Len(s) => t \in Good PROVE s \in Good
    <2> DEFINE d == DecodePass[s]
    <2>1. d \in Texts /\ Len(d) \in Nat /\ Len(s) \in Nat /\ Len(d) <= Len(s) /\ (HasDots(s) => HasDots(d))
      BY PassesShorten, DotsStay, LenProperties DEF PassShortens, Texts
    <2>2. Len(d) = Len(s) => d = s /\ ~EscapeIn(s)
      BY PassesShorten DEF PassShortens
    <2>3. CASE GoesOn(s)
      <3>1. Len(d) < Len(s)
        BY <2>1, <2>2, <2>3 DEF GoesOn
      <3>2. Settled(d)
        BY <1>1, <2>1, <3>1
      <3>3. UrlencodingDecode[s] = UrlencodingDecode[d]
        BY <2>3, DecodeUnfolds
      <3> QED
        BY <2>1, <3>2, <3>3 DEF Settled
    <2>4. CASE ~GoesOn(s)
      <3>1. UrlencodingDecode[s] = d
        BY <2>4, DecodeUnfolds
      <3>2. ~EscapeIn(d)
        <4>1. CASE d = s
          BY <2>2, <4>1
        <4>2. CASE ~Contains(d, "%")
          BY <4>2 DEF EscapeIn, Contains
        <4> QED
          BY <2>4, <4>1, <4>2 DEF GoesOn
      <3> QED
        BY <2>1, <3>1, <3>2 DEF Settled
    <2> QED
      BY <2>3, <2>4
  <1> HIDE DEF Good
  <1>2. \A s \in Texts : s \in Good
    BY <1>1, ByLength DEF Texts
  <1> QED
    BY <1>2 DEF Good

(* A pass more at the beginning changes nothing at the end. *)
LEMMA OnePassMore ==
  ASSUME NEW s \in Texts
  PROVE  DecodePass[s] \in Texts /\ UrlencodingDecode[DecodePass[s]] = UrlencodingDecode[s]
  <1> DEFINE d == DecodePass[s]
  <1>1. d \in Texts
    BY PassesShorten DEF PassShortens
  <1>2. CASE GoesOn(s)
    BY <1>1, <1>2, DecodeUnfolds
  <1>3. CASE d = s
    BY <1>1, <1>3
  <1>4. CASE ~Contains(d, "%")
    <2>1. DecodePass[d] = d
      BY <1>1, <1>4, PlainStays
    <2>2. UrlencodingDecode[s] = d
      BY <1>4, DecodeUnfolds DEF GoesOn
    <2>3. UrlencodingDecode[d] = d
      BY <1>1, <2>1, DecodeUnfolds DEF GoesOn
    <2> QED
      BY <1>1, <2>2, <2>3
  <1> QED
    BY <1>2, <1>3, <1>4 DEF GoesOn

(* A path that does not traverse does not after a pass either. *)
LEMMA PassStaysInside ==
  ASSUME NEW s \in Texts, ~Traverses(s)
  PROVE  DecodePass[s] \in Texts /\ ~Traverses(DecodePass[s]) /\ ~HasDots(DecodePass[s])
  <1>1. DecodePass[s] \in Texts /\ ~HasDots(UrlencodingDecode[DecodePass[s]])
    BY OnePassMore DEF Traverses
  <1>2. ~HasDots(DecodePass[s])
    BY <1>1, AllSettle DEF Settled
  <1> QED
    BY <1>1, <1>2 DEF Traverses

InboundInv == inbound.path \in Texts /\ verdict.says \in {"pending", Validate(inbound)}

(* Requests have paths, and nothing is said of them at first. *)
LEMMA InboundInitInv == (ValidatorInit => InboundInv) /\ (StillInbound => InboundInv)
  <1>1. ASSUME ValidatorInit PROVE InboundInv
    <2>1. inbound \in Inbounds /\ verdict.says = "pending"
      BY <1>1 DEF ValidatorInit
    <2>2. CASE inbound \in {[large |-> FALSE, host |-> "exact", path |-> p, listed |-> "none"] :
                              p \in UNION {[1..n -> PathChars] : n \in 0..MaxPath}}
      <3>1. PICK p \in UNION {[1..n -> PathChars] : n \in 0..MaxPath} : inbound.path = p
        BY <2>2
      <3>2. PICK n \in 0 .. MaxPath : p \in [1 .. n -> PathChars]
        BY <3>1
      <3>3. n \in Nat
        BY PathAssumption
      <3>4. p \in Seq(PathChars)
        BY <3>2, <3>3, SeqDef
      <3>5. p \in Texts
        BY <3>4, SeqMonotonic DEF Texts, Chars
      <3> QED
        BY <2>1, <3>1, <3>5 DEF InboundInv
    <2>3. CASE inbound \in [large : BOOLEAN, host : InboundHosts, path : {<<"a">>, <<".", ".">>},
                            listed : {"none", "inside", "outside"}]
      <3>1. inbound.path \in {<<"a">>, <<".", ".">>}
        BY <2>3
      <3>2. <<"a">> \in Texts /\ <<".", ".">> \in Texts
        BY DEF Texts, Chars
      <3> QED
        BY <2>1, <3>1, <3>2 DEF InboundInv
    <2> QED
      BY <2>1, <2>2, <2>3 DEF Inbounds
  <1>2. ASSUME StillInbound PROVE InboundInv
    <2>1. inbound.path = <<>> /\ verdict.says = "pending"
      BY <1>2 DEF StillInbound
    <2> QED
      BY <2>1 DEF InboundInv, Texts
  <1> QED
    BY <1>1, <1>2

(* The validator decides once. *)
LEMMA InboundStepInv == InboundInv /\ [ValidateRequest]_validatorVars => InboundInv'
  <1> SUFFICES ASSUME InboundInv, [ValidateRequest]_validatorVars PROVE InboundInv'
    OBVIOUS
  <1>1. CASE ValidateRequest
    <2>1. inbound' = inbound /\ verdict'.says = Validate(inbound)
      BY <1>1 DEF ValidateRequest
    <2>2. Validate(inbound)' = Validate(inbound)
      BY <2>1 DEF Validate
    <2> QED
      BY <2>1, <2>2 DEF InboundInv
  <1>2. CASE UNCHANGED validatorVars
    BY <1>2 DEF InboundInv, validatorVars, Validate
  <1> QED
    BY <1>1, <1>2

(* What the validator passes does not traverse. *)
LEMMA PassedInside ==
  ASSUME NEW r, Validate(r) = "pass"
  PROVE  ~Traverses(r.path)
  BY DEF Validate

(* The invariant of the validator gives the parts about the path. *)
LEMMA InboundInvGives == InboundInv => NoTraversalPasses /\ DecodingSettles
  <1> SUFFICES ASSUME InboundInv PROVE NoTraversalPasses /\ DecodingSettles
    OBVIOUS
  <1> DEFINE p == inbound.path
  <1>1. NoTraversalPasses
    <2> SUFFICES ASSUME verdict.says = "pass" PROVE NoTraversalPasses
      BY DEF NoTraversalPasses
    <2>1. p \in Texts /\ ~Traverses(p) /\ ~HasDots(p)
      BY PassedInside DEF InboundInv, Traverses
    <2>2. DecodePass[p] \in Texts /\ ~Traverses(DecodePass[p]) /\ ~HasDots(DecodePass[p])
      BY <2>1, PassStaysInside
    <2> DEFINE q == DecodePass[p]
    <2>3. DecodePass[q] \in Texts /\ ~Traverses(DecodePass[q]) /\ ~HasDots(DecodePass[q])
      BY <2>2, PassStaysInside
    <2>4. ~HasDots(DecodePass[DecodePass[q]])
      BY <2>3, PassStaysInside
    <2> QED
      BY <2>1, <2>2, <2>3, <2>4 DEF NoTraversalPasses
  <1>2. DecodingSettles
    <2>1. UrlencodingDecode[p] \in Texts /\ ~EscapeIn(UrlencodingDecode[p])
      BY AllSettle DEF InboundInv, Settled
    <2>2. DOMAIN UrlencodingDecode[p] = 1 .. Len(UrlencodingDecode[p])
      BY <2>1, LenProperties DEF Texts
    <2> QED
      BY <2>1, <2>2 DEF DecodingSettles, EscapeIn
  <1> QED
    BY <1>1, <1>2

(***************************************************************************)
(* However often a passed path is decoded behind the gateway (flow.rs,     *)
(* RequestValidator and urlencoding_decode), for paths of every length: it *)
(* never turns into one with "..".                                         *)
(***************************************************************************)
THEOREM NeverTraverses ==
  ASSUME NEW r, Validate(r) = "pass", r.path \in Texts,
         NEW decoded, decoded[0] = r.path, \A n \in Nat : decoded[n + 1] = DecodePass[decoded[n]]
  PROVE  \A n \in Nat : ~HasDots(decoded[n])
  <1> DEFINE Inside(n) == decoded[n] \in Texts /\ ~Traverses(decoded[n])
             Out == {n \in Nat : ~Inside(n)}
  <1>1. Inside(0)
    BY PassedInside
  <1>2. \A n \in Nat : Inside(n) => Inside(n + 1)
    BY PassStaysInside
  <1>3. Out = {}
    <2> SUFFICES ASSUME Out # {} PROVE FALSE
      OBVIOUS
    <2>1. PICK n \in Out : \A m \in Out : n <= m
      <3>1. Out \in SUBSET Nat
        OBVIOUS
      <3> HIDE DEF Out
      <3> QED
        BY <3>1, LeastNatural
    <2>2. n # 0 /\ n \in Nat /\ n - 1 \in Nat /\ ~Inside(n)
      <3> HIDE DEF Inside
      <3> QED
        BY <1>1, <2>1
    <2>3. Inside(n - 1) /\ (n - 1) + 1 = n
      <3> HIDE DEF Inside
      <3> QED
        BY <2>1, <2>2
    <2> HIDE DEF Inside
    <2> QED
      BY <1>2, <2>2, <2>3
  <1> QED
    BY <1>3 DEF Traverses

-------------------------------------------------------------------------------
(* The parts together.  A step of the whole is a step of each part, or     *)
(* leaves it alone.                                                        *)

(* Nothing is asked of a part that the behaviour is not about. *)
AdmissionHere == IF area = "admission" THEN AdmissionInv ELSE httpAnswer = NoAnswer /\ wsAnswer = NoAnswer
ConfigHere == IF area = "config" THEN ConfigInv ELSE gateway = NotStarted

GatewayInv ==
  /\ AssertionInv /\ PluginInv /\ ShapeInv /\ RuleInv /\ ListenerInv /\ InboundInv
  /\ AdmissionHere /\ ConfigHere

(* A step of the composition is a step or a stutter of every part, and     *)
(* stays in its area.                                                      *)
LEMMA GatewaySteps ==
  ASSUME [GatewayNext]_gatewayVars
  PROVE  /\ area' = area
         /\ [AssertionNext]_assertionVars /\ [PluginNext]_pluginVars /\ [ShapeNext]_shapeVars
         /\ [ResolveRuling]_ruleVars /\ [ServeRequest]_listenerVars /\ [ValidateRequest]_validatorVars
         /\ IF area = "admission" THEN [HandleHttp \/ HandleWs]_admissionVars ELSE UNCHANGED admissionVars
         /\ IF area = "config" THEN [StartGateway]_configVars ELSE UNCHANGED configVars
  <1>1. CASE UNCHANGED gatewayVars
    BY <1>1 DEF gatewayVars
  <1>2. CASE GatewayNext
    BY <1>2 DEF GatewayNext, AreaStep, Keep
  <1> QED
    BY <1>1, <1>2

(* The invariant of every part holds initially. *)
LEMMA GatewayInitInv == GatewayInit => GatewayInv
  <1> SUFFICES ASSUME GatewayInit PROVE GatewayInv
    OBVIOUS
  <1>1. AssertionInv /\ PluginInv
    BY AssertionInitInv, PluginInitInv DEF GatewayInit
  <1>2. ShapeInv
    <2>1. CASE area = "shaping"
      BY <2>1, ShapeInitInv DEF GatewayInit, Begin
    <2>2. CASE area # "shaping"
      <3>1. StillShaping
        BY <2>2 DEF GatewayInit, Begin
      <3>2. ShapeSetting
        <4>1. /\ shapeConf.remove = {} /\ shapeConf.add = {} /\ shapeConf.inject = {}
              /\ shapeConf.backend = BackendHeaders("identity", {})
          BY <3>1 DEF StillShaping
        <4>2. {} \in SUBSET BackendExtras /\ "identity" \in {"identity", "br"}
          OBVIOUS
        <4>3. \E c \in {"identity", "br"}, x \in SUBSET BackendExtras : shapeConf.backend = BackendHeaders(c, x)
          BY <4>1, <4>2
        <4> QED
          BY <4>1, <4>3 DEF ShapeSetting
      <3>3. DOMAIN shaped.headers = {} /\ shaped.body = "none"
        <4>1. shaped = NoResponse
          BY <3>1 DEF StillShaping
        <4>2. NoResponse.headers = <<>> /\ NoResponse.body = "none" /\ DOMAIN <<>> = {}
          BY DEF NoResponse
        <4> QED
          BY <4>1, <4>2
      <3>4. ShapingSound
        BY <3>3 DEF ShapingSound, OwnOriginOnly, BodyAsLabelled, NoBackendIdentity
      <3> QED
        BY <3>1, <3>2, <3>4 DEF ShapeInv, StillShaping
    <2> QED
      BY <2>1, <2>2
  <1>3. RuleInv
    <2>1. CASE area = "rules"
      BY <2>1, RuleInitInv DEF GatewayInit, Begin
    <2>2. CASE area # "rules"
      <3>1. ruling = [rules |-> <<>>, path |-> <<"">>, resolved |-> "pending"]
        BY <2>2 DEF GatewayInit, Begin, StillRules
      <3>2. <<>> \in Seq(Rules) /\ DOMAIN <<>> = {}
        OBVIOUS
      <3>3. ruling.rules = <<>> /\ ruling.resolved = "pending"
        BY <3>1
      <3>4. RuleList(ruling.rules)
        BY <3>2, <3>3 DEF RuleList
      <3> QED
        BY <3>1, <3>3, <3>4 DEF RuleInv
    <2> QED
      BY <2>1, <2>2
  <1>4. ListenerInv
    <2>1. CASE area = "listener"
      BY <2>1, ListenerInitInv DEF GatewayInit, Begin
    <2>2. CASE area # "listener"
      <3>1. StillListener
        BY <2>2 DEF GatewayInit, Begin
      <3>2. arrival \in Arrivals /\ condition \in Conditions
        BY <3>1 DEF StillListener, Arrivals, Conditions, HostKinds, OtherPaths, Methods
      <3> QED
        BY <3>1, <3>2 DEF StillListener, ListenerInv, ServedAs
    <2> QED
      BY <2>1, <2>2
  <1>5. AdmissionHere
    BY AdmissionInitInv DEF GatewayInit, Begin, AdmissionHere, StillAdmission
  <1>6. ConfigHere
    BY ConfigInitInv DEF GatewayInit, Begin, ConfigHere, StillConfig
  <1>7. InboundInv
    BY InboundInitInv DEF GatewayInit, Begin
  <1> QED
    BY <1>1, <1>2, <1>3, <1>4, <1>5, <1>6, <1>7 DEF GatewayInv

(* Every step of the composition keeps the invariant of every part. *)
LEMMA GatewayStepInv == GatewayInv /\ [GatewayNext]_gatewayVars => GatewayInv'
  <1> SUFFICES ASSUME GatewayInv, [GatewayNext]_gatewayVars PROVE GatewayInv'
    OBVIOUS
  <1>1. AssertionInv' /\ PluginInv'
    BY GatewaySteps, AssertionStepInv, PluginStepInv DEF GatewayInv
  <1>2. ShapeInv' /\ RuleInv' /\ ListenerInv' /\ InboundInv'
    BY GatewaySteps, ShapeStepInv, RuleStepInv, ListenerStepInv, InboundStepInv DEF GatewayInv
  <1>3. AdmissionHere'
    <2>1. CASE area = "admission"
      BY <2>1, GatewaySteps, AdmissionStepInv DEF GatewayInv, AdmissionHere
    <2>2. CASE area # "admission"
      <3>1. httpAnswer = NoAnswer /\ wsAnswer = NoAnswer /\ UNCHANGED <<area, httpAnswer, wsAnswer>>
        BY <2>2, GatewaySteps DEF GatewayInv, AdmissionHere, admissionVars
      <3> QED
        BY <2>2, <3>1 DEF AdmissionHere, NoAnswer, Answer
    <2> QED
      BY <2>1, <2>2
  <1>4. ConfigHere'
    <2>1. CASE area = "config"
      BY <2>1, GatewaySteps, ConfigStepInv DEF GatewayInv, ConfigHere
    <2>2. CASE area # "config"
      <3>1. gateway = NotStarted /\ UNCHANGED <<area, gateway>>
        BY <2>2, GatewaySteps DEF GatewayInv, ConfigHere, configVars
      <3> QED
        BY <2>2, <3>1 DEF ConfigHere, NotStarted
    <2> QED
      BY <2>1, <2>2
  <1> QED
    BY <1>1, <1>2, <1>3, <1>4 DEF GatewayInv

(* The invariant of every part holds at all times. *)
LEMMA AlwaysGatewayInv == GatewaySpec => []GatewayInv
  BY GatewayInitInv, GatewayStepInv, PTL DEF GatewaySpec

(***************************************************************************)
(* A verifier takes a signed identity only from the gateway that signed    *)
(* it, once and in time, through any number of key rotations and any clock *)
(* skew within the allowance (identity_assertion.rs).                      *)
(***************************************************************************)
THEOREM AssertionsKept == GatewaySpec => []AssertionsSound
  <1>1. GatewayInv => AssertionsSound
    BY DEF GatewayInv, AssertionInv
  <1> QED
    BY <1>1, AlwaysGatewayInv, PTL

(***************************************************************************)
(* A gateway that serves was built from its configuration, for every       *)
(* configuration the files can hold (config.rs, main.rs).                  *)
(***************************************************************************)
THEOREM ConfigurationsKept == GatewaySpec => []StartsAsConfigured
  <1>1. GatewayInv => StartsAsConfigured
    <2> SUFFICES ASSUME GatewayInv PROVE StartsAsConfigured
      OBVIOUS
    <2>1. CASE area = "config"
      BY <2>1, ConfigInvGives DEF GatewayInv, ConfigHere
    <2>2. CASE area # "config"
      <3>0. gateway = NotStarted
        BY <2>2 DEF GatewayInv, ConfigHere
      <3>1. gateway.state # "serving"
        BY <3>0 DEF NotStarted
      <3> QED
        BY <3>1 DEF StartsAsConfigured, AllowlistKept, WeightsPaired, HttpsListens, PluginsRun, SignerReady, Serving
    <2> QED
      BY <2>1, <2>2
  <1> QED
    BY <1>1, AlwaysGatewayInv, PTL

(***************************************************************************)
(* What a client gets is meant for it, fresh or from the shared cache, for *)
(* every CORS policy, origin and set of backend headers (proxy.rs).        *)
(***************************************************************************)
THEOREM ShapingKept == GatewaySpec => []ShapingSound
  <1>1. GatewayInv => ShapingSound
    BY DEF GatewayInv, ShapeInv
  <1> QED
    BY <1>1, AlwaysGatewayInv, PTL

(***************************************************************************)
(* Billing stays fresh and the quota of a user holds in any stretch of a   *)
(* window's length, for any number of concurrent requests, users and       *)
(* plugins, any limits and times to live (plugin.rs).                      *)
(***************************************************************************)
THEOREM PluginsKept == GatewaySpec => []PluginsSound
  <1>1. GatewayInv => PluginsSound
    BY PluginInvGives DEF GatewayInv
  <1> QED
    BY <1>1, AlwaysGatewayInv, PTL

(***************************************************************************)
(* The most specific rule decides and a protected path asks the auth       *)
(* server, for any list of rules, any paths and any roles (config.rs,      *)
(* proxy.rs, websocket.rs).                                                *)
(***************************************************************************)
THEOREM AdmissionKept == GatewaySpec => []AdmissionSound
  <1>1. GatewayInv => AdmissionSound
    <2> SUFFICES ASSUME GatewayInv PROVE AdmissionSound
      OBVIOUS
    <2>1. LongestPrefixDecides
      BY RuleInvGives DEF GatewayInv
    <2>2. CASE area = "admission"
      BY <2>1, <2>2, AdmissionInvGives DEF GatewayInv, AdmissionHere, AdmissionSound
    <2>3. CASE area # "admission"
      <3>1. httpAnswer = NoAnswer /\ wsAnswer = NoAnswer
        BY <2>3 DEF GatewayInv, AdmissionHere
      <3>2. httpAnswer.status # "forward"
        BY <3>1 DEF NoAnswer, Answer
      <3>3. ProtectedPathsAskedServer /\ UpgradeAsRequest /\ ValidRouteServesOwner
        BY <3>1, <3>2 DEF ProtectedPathsAskedServer, UpgradeAsRequest, ValidRouteServesOwner
      <3> QED
        BY <2>1, <3>3 DEF AdmissionSound
    <2> QED
      BY <2>2, <2>3
  <1> QED
    BY <1>1, AlwaysGatewayInv, PTL

(***************************************************************************)
(* The administration is for the administrator, and a host that a route    *)
(* names is its service's, whatever the listener, the token, the method    *)
(* and the path (main.rs, tls.rs, admin_auth.rs); and no spelling of ".."  *)
(* passes the validator, in paths of every length (flow.rs).               *)
(***************************************************************************)
THEOREM InboundKept == GatewaySpec => []InboundSound
  <1>1. GatewayInv => InboundSound
    BY ListenerInvGives, InboundInvGives DEF GatewayInv, InboundSound
  <1> QED
    BY <1>1, AlwaysGatewayInv, PTL

(* A behaviour of the whole is a behaviour of the store. *)
LEMMA GatewayRunsStore == GatewaySpec => Spec
  <1>1. GatewayInit => Init
    BY DEF GatewayInit
  <1>2. [GatewayNext]_gatewayVars => [Next]_vars
    BY DEF GatewayNext, AreaStep, Keep, gatewayVars
  <1> QED
    BY <1>1, <1>2, PTL DEF GatewaySpec, Spec

(***************************************************************************)
(* Beside everything else the gateway does, its config store implements    *)
(* the durable register and serves only valid configurations that its      *)
(* files hold (config_overlay.rs, main.rs).                                *)
(***************************************************************************)
THEOREM StoreKept == GatewaySpec => []StoreSound /\ OverlayIsRegister
  BY GatewayRunsStore, StoreIsSound, OverlayRefines, PTL
=============================================================================
