------------------------------ MODULE HotConfig ------------------------------
(***************************************************************************)
(* The configuration of a running gateway and the three parties that       *)
(* change it: the admin API and SIGHUP (gateway/src/main.rs over           *)
(* ConfigStore and rebuild_hot_with_dynamic of config_overlay.rs), and the *)
(* merge tasks of the config sources (spawn_watchers of config_source.rs). *)
(*                                                                         *)
(* A configuration document is a function on Keys, Absent where it has no  *)
(* such key; a key stands for a path of the JSON document, so deep_merge   *)
(* is a merge key by key.  A set of dynamic routes is a function on Hosts. *)
(* The hot state is kept as the pair it is built from: an effective        *)
(* configuration and a table of dynamic routes that overrides it.          *)
(*                                                                         *)
(* The store's mutex is held by one operation at a time, but it is dropped *)
(* before the hot state is rebuilt, and the rebuild reads the dynamic      *)
(* routes before it stores: those are the steps in between.                *)
(***************************************************************************)
EXTENDS Naturals, Sequences

CONSTANTS
  Keys, Vals,      \* configuration keys and their values
  Hosts,           \* hosts of dynamic routes
  Absent, Null,    \* no such key; JSON null in a patch
  ValidConfigs,    \* effective configurations that pass validate()
  BaseDocs,        \* base YAMLs the operators write
  Patches,         \* merge patches the admins send
  Admins,          \* concurrent admin calls; SIGHUP's task is one of them
  Sources,         \* config sources
  Announcements,   \* route sets a source sends
  ChannelCap       \* capacity of a source's channel (code: 16)

Docs == [Keys -> Vals \cup {Absent}]
RouteSets == [Hosts -> Vals \cup {Absent}]
Empty == [k \in Keys |-> Absent]
NoRoutes == [h \in Hosts |-> Absent]

ASSUME HotConfigAssumption ==
  /\ Absent \notin Vals /\ Null \notin Vals /\ Null # Absent
  /\ Absent \notin Admins
  /\ ValidConfigs \subseteq Docs
  /\ BaseDocs \subseteq Docs
  /\ Patches \subseteq [Keys -> Vals \cup {Absent, Null}]
  /\ Announcements \subseteq RouteSets
  /\ ChannelCap \in Nat \ {0}

VARIABLES
  baseFile,     \* the hand-written YAML on disk
  overlayFile,  \* the overlay on disk
  running,      \* is the process up
  base,         \* Inner.base
  overlay,      \* Inner.overlay
  holder,       \* the admin call inside the store's mutex, or Absent
  hot,          \* the ArcSwap<HotState>
  dynamic,      \* the shared DynamicRoutes
  startCfg,     \* the configuration spawn_watchers captured
  apc,          \* where each admin call is
  cand,         \* its candidate overlay
  cfg,          \* the effective configuration it got from the store
  snap,         \* its snapshot of the dynamic routes
  chan,         \* the channel of each source
  wpc,          \* where each merge task is
  mine,         \* the routes it received
  union,        \* its copy of all dynamic routes
  latest,       \* history: what each source announced last in this life
  crossed       \* history: two merge tasks held copies of the dynamic routes at once

disk == <<baseFile, overlayFile>>
store == <<base, overlay, holder>>
admin == <<apc, cand, cfg, snap>>
merge == <<chan, wpc, mine, union, latest, crossed>>
vars == <<disk, running, store, hot, dynamic, startCfg, admin, merge>>

(* deep_merge: null deletes the key, anything else replaces it. *)
DeepMerge(doc, patch) ==
  [k \in Keys |-> IF patch[k] = Null THEN Absent
                  ELSE IF patch[k] = Absent THEN doc[k] ELSE patch[k]]

(* build_effective *)
Effective(b, o) == DeepMerge(b, o)

(* Routes of one table laid over another, host by host. *)
Override(under, over) ==
  [h \in Hosts |-> IF over[h] = Absent THEN under[h] ELSE over[h]]

(* Every variable has the shape the code's types give it. *)
TypeOK ==
  /\ baseFile \in Docs /\ overlayFile \in Docs
  /\ running \in BOOLEAN
  /\ base \in Docs /\ overlay \in Docs
  /\ holder \in Admins \cup {Absent}
  /\ hot \in [cfg : Docs, dyn : RouteSets]
  /\ dynamic \in RouteSets
  /\ startCfg \in Docs
  /\ apc \in [Admins -> {"idle", "locked", "renamed", "rebuild", "store"}]
  /\ cand \in [Admins -> Docs]
  /\ cfg \in [Admins -> Docs]
  /\ snap \in [Admins -> RouteSets]
  /\ chan \in [Sources -> Seq(Announcements)]
  /\ \A s \in Sources : Len(chan[s]) <= ChannelCap
  /\ wpc \in [Sources -> {"recv", "load", "publish", "store"}]
  /\ mine \in [Sources -> RouteSets]
  /\ union \in [Sources -> RouteSets]
  /\ latest \in [Sources -> RouteSets]
  /\ crossed \in BOOLEAN

(* What ConfigStore::load and main build from the two files. *)
Loaded ==
  /\ base' = baseFile
  /\ overlay' = overlayFile
  /\ holder' = Absent
  /\ startCfg' = Effective(baseFile, overlayFile)
  /\ hot' = [cfg |-> Effective(baseFile, overlayFile), dyn |-> NoRoutes]
  /\ dynamic' = NoRoutes

(* Every task starts over. *)
FreshTasks ==
  /\ apc' = [a \in Admins |-> "idle"]
  /\ cand' = [a \in Admins |-> Empty]
  /\ cfg' = [a \in Admins |-> Empty]
  /\ snap' = [a \in Admins |-> NoRoutes]
  /\ chan' = [s \in Sources |-> <<>>]
  /\ wpc' = [s \in Sources |-> "recv"]
  /\ mine' = [s \in Sources |-> NoRoutes]
  /\ union' = [s \in Sources |-> NoRoutes]
  /\ latest' = [s \in Sources |-> NoRoutes]
  /\ crossed' = FALSE

Init ==
  /\ baseFile \in BaseDocs
  /\ overlayFile = Empty
  /\ Effective(baseFile, Empty) \in ValidConfigs
  /\ running = TRUE
  /\ base = baseFile /\ overlay = Empty /\ holder = Absent
  /\ hot = [cfg |-> baseFile, dyn |-> NoRoutes]
  /\ dynamic = NoRoutes
  /\ startCfg = baseFile
  /\ apc = [a \in Admins |-> "idle"]
  /\ cand = [a \in Admins |-> Empty]
  /\ cfg = [a \in Admins |-> Empty]
  /\ snap = [a \in Admins |-> NoRoutes]
  /\ chan = [s \in Sources |-> <<>>]
  /\ wpc = [s \in Sources |-> "recv"]
  /\ mine = [s \in Sources |-> NoRoutes]
  /\ union = [s \in Sources |-> NoRoutes]
  /\ latest = [s \in Sources |-> NoRoutes]
  /\ crossed = FALSE

-------------------------------------------------------------------------------
(* PATCH /admin/config and DELETE /admin/config/overlay.                   *)

(* Mutant: the overlay file is truncated and rewritten in place. *)
ProposeInPlace(a, candidate) ==
  /\ running /\ apc[a] = "idle" /\ holder = Absent
  /\ Effective(base, candidate) \in ValidConfigs
  /\ holder' = a
  /\ apc' = [apc EXCEPT ![a] = "locked"]
  /\ cand' = [cand EXCEPT ![a] = candidate]
  /\ overlayFile' = Empty
  /\ UNCHANGED <<baseFile, running, base, overlay, hot, dynamic, startCfg, cfg, snap, merge>>

(* Mutant: the candidate is not validated. *)
ProposeUnchecked(a, candidate) ==
  /\ running /\ apc[a] = "idle" /\ holder = Absent
  /\ holder' = a
  /\ apc' = [apc EXCEPT ![a] = "locked"]
  /\ cand' = [cand EXCEPT ![a] = candidate]
  /\ UNCHANGED <<disk, running, base, overlay, hot, dynamic, startCfg, cfg, snap, merge>>

(* Merge, build and validate under the mutex, then write the temp file. A  *)
(* candidate that does not validate is answered 400 and changes nothing.   *)
Propose(a, candidate) ==
  /\ running /\ apc[a] = "idle" /\ holder = Absent
  /\ Effective(base, candidate) \in ValidConfigs
  /\ holder' = a
  /\ apc' = [apc EXCEPT ![a] = "locked"]
  /\ cand' = [cand EXCEPT ![a] = candidate]
  /\ UNCHANGED <<disk, running, base, overlay, hot, dynamic, startCfg, cfg, snap, merge>>

(* apply_patch *)
ApplyPatch(a, p) == Propose(a, DeepMerge(overlay, p))

(* clear_overlay *)
ClearOverlay(a) == Propose(a, Empty)

(* persist's rename: the new overlay is the file now. *)
Rename(a) ==
  /\ apc[a] = "locked"
  /\ overlayFile' = cand[a]
  /\ apc' = [apc EXCEPT ![a] = "renamed"]
  /\ UNCHANGED <<baseFile, running, store, hot, dynamic, startCfg, cand, cfg, snap,
                 merge>>

(* Mutant: memory is changed although the write failed. *)
PersistFailsCommits(a) ==
  /\ apc[a] = "locked"
  /\ overlay' = cand[a]
  /\ holder' = Absent
  /\ apc' = [apc EXCEPT ![a] = "idle"]
  /\ cand' = [cand EXCEPT ![a] = Empty]
  /\ UNCHANGED <<disk, running, base, hot, dynamic, startCfg, cfg, snap, merge>>

(* persist fails before or at the rename: error, the mutex is dropped. *)
PersistFails(a) ==
  /\ apc[a] = "locked"
  /\ holder' = Absent
  /\ apc' = [apc EXCEPT ![a] = "idle"]
  /\ cand' = [cand EXCEPT ![a] = Empty]
  /\ UNCHANGED <<disk, running, base, overlay, hot, dynamic, startCfg, cfg, snap, merge>>

(* inner.overlay = candidate, and the mutex is dropped. *)
Commit(a) ==
  /\ apc[a] = "renamed"
  /\ overlay' = cand[a]
  /\ holder' = Absent
  /\ cfg' = [cfg EXCEPT ![a] = Effective(base, cand[a])]
  /\ cand' = [cand EXCEPT ![a] = Empty]
  /\ apc' = [apc EXCEPT ![a] = "rebuild"]
  /\ UNCHANGED <<disk, running, base, hot, dynamic, startCfg, snap, merge>>

(* Mutant: a reload takes the new base without validating it. *)
ReloadUnchecked(a) ==
  /\ running /\ apc[a] = "idle" /\ holder = Absent
  /\ base' = baseFile
  /\ cfg' = [cfg EXCEPT ![a] = Effective(baseFile, overlay)]
  /\ apc' = [apc EXCEPT ![a] = "rebuild"]
  /\ UNCHANGED <<disk, running, overlay, holder, hot, dynamic, startCfg, cand, snap,
                 merge>>

(* POST /admin/reload and SIGHUP: re-read the base, keep the overlay.  An  *)
(* invalid result leaves everything as it is.                              *)
ReloadBase(a) ==
  /\ running /\ apc[a] = "idle" /\ holder = Absent
  /\ Effective(baseFile, overlay) \in ValidConfigs
  /\ base' = baseFile
  /\ cfg' = [cfg EXCEPT ![a] = Effective(baseFile, overlay)]
  /\ apc' = [apc EXCEPT ![a] = "rebuild"]
  /\ UNCHANGED <<disk, running, overlay, holder, hot, dynamic, startCfg, cand, snap,
                 merge>>

(* rebuild_hot_with_dynamic: load the dynamic routes ... *)
LoadSnapshot(a) ==
  /\ apc[a] = "rebuild"
  /\ snap' = [snap EXCEPT ![a] = dynamic]
  /\ apc' = [apc EXCEPT ![a] = "store"]
  /\ UNCHANGED <<disk, running, store, hot, dynamic, startCfg, cand, cfg, merge>>

(* ... and store the new hot state. *)
StoreHot(a) ==
  /\ apc[a] = "store"
  /\ hot' = [cfg |-> cfg[a], dyn |-> snap[a]]
  /\ apc' = [apc EXCEPT ![a] = "idle"]
  /\ cfg' = [cfg EXCEPT ![a] = Empty]
  /\ snap' = [snap EXCEPT ![a] = NoRoutes]
  /\ UNCHANGED <<disk, running, store, dynamic, startCfg, cand, merge>>

-------------------------------------------------------------------------------
(* The config sources: a watch task sends, a merge task receives.          *)

(* Mutant: an unbounded channel. *)
AnnounceUnbounded(s, routes) ==
  /\ running
  /\ chan' = [chan EXCEPT ![s] = Append(@, routes)]
  /\ latest' = [latest EXCEPT ![s] = routes]
  /\ UNCHANGED <<disk, running, store, hot, dynamic, startCfg, admin, wpc, mine, union, crossed>>

(* tx.send: waits while the channel is full. *)
Announce(s, routes) ==
  /\ running
  /\ Len(chan[s]) < ChannelCap
  /\ chan' = [chan EXCEPT ![s] = Append(@, routes)]
  /\ latest' = [latest EXCEPT ![s] = routes]
  /\ UNCHANGED <<disk, running, store, hot, dynamic, startCfg, admin, wpc, mine, union, crossed>>

(* rx.recv *)
Recv(s) ==
  /\ wpc[s] = "recv"
  /\ chan[s] # <<>>
  /\ mine' = [mine EXCEPT ![s] = Head(chan[s])]
  /\ chan' = [chan EXCEPT ![s] = Tail(@)]
  /\ wpc' = [wpc EXCEPT ![s] = "load"]
  /\ UNCHANGED <<disk, running, store, hot, dynamic, startCfg, admin, union, latest, crossed>>

(* Mutant: this source's routes are not inserted. *)
LoadUnionOnly(s) ==
  /\ wpc[s] = "load"
  /\ union' = [union EXCEPT ![s] = dynamic]
  /\ wpc' = [wpc EXCEPT ![s] = "publish"]
  /\ crossed' = (crossed \/ \E t \in Sources \ {s} : wpc[t] = "publish")
  /\ UNCHANGED <<disk, running, store, hot, dynamic, startCfg, admin, chan, mine, latest>>

(* all_dynamic = dynamic.load_full() with this source's routes inserted *)
LoadUnion(s) ==
  /\ wpc[s] = "load"
  /\ union' = [union EXCEPT ![s] = Override(dynamic, mine[s])]
  /\ wpc' = [wpc EXCEPT ![s] = "publish"]
  /\ crossed' = (crossed \/ \E t \in Sources \ {s} : wpc[t] = "publish")
  /\ UNCHANGED <<disk, running, store, hot, dynamic, startCfg, admin, chan, mine, latest>>

(* dynamic.store *)
Publish(s) ==
  /\ wpc[s] = "publish"
  /\ dynamic' = union[s]
  /\ wpc' = [wpc EXCEPT ![s] = "store"]
  /\ UNCHANGED <<disk, running, store, hot, startCfg, admin, chan, mine, union, latest, crossed>>

(* The hot state is rebuilt from the configuration captured at start-up. *)
StoreMerged(s) ==
  /\ wpc[s] = "store"
  /\ hot' = [cfg |-> startCfg, dyn |-> union[s]]
  /\ wpc' = [wpc EXCEPT ![s] = "recv"]
  /\ mine' = [mine EXCEPT ![s] = NoRoutes]
  /\ union' = [union EXCEPT ![s] = NoRoutes]
  /\ UNCHANGED <<disk, running, store, dynamic, startCfg, admin, chan, latest, crossed>>

-------------------------------------------------------------------------------
(* Operators and crashes.                                                  *)

(* The hand-written YAML is edited. *)
EditBase(d) ==
  /\ baseFile' = d
  /\ UNCHANGED <<overlayFile, running, store, hot, dynamic, startCfg, admin, merge>>

(* The process dies at any point; what is in memory is gone. *)
Crash ==
  /\ running
  /\ running' = FALSE
  /\ holder' = Absent
  /\ FreshTasks
  /\ UNCHANGED <<disk, base, overlay, hot, dynamic, startCfg>>

(* Start-up.  A configuration that does not validate ends the process. *)
Start ==
  /\ ~running
  /\ Effective(baseFile, overlayFile) \in ValidConfigs
  /\ running' = TRUE
  /\ Loaded
  /\ UNCHANGED <<disk, admin, merge>>

Next ==
  \/ \E a \in Admins :
       \/ \E p \in Patches : ApplyPatch(a, p)
       \/ ClearOverlay(a) \/ Rename(a) \/ PersistFails(a) \/ Commit(a)
       \/ ReloadBase(a) \/ LoadSnapshot(a) \/ StoreHot(a)
  \/ \E s \in Sources :
       \/ \E routes \in Announcements : Announce(s, routes)
       \/ Recv(s) \/ LoadUnion(s) \/ Publish(s) \/ StoreMerged(s)
  \/ \E d \in BaseDocs : EditBase(d)
  \/ Crash
  \/ Start

Spec == Init /\ [][Next]_vars

-------------------------------------------------------------------------------
(* Properties.                                                             *)

AdminsIdle == \A a \in Admins : apc[a] = "idle"
MergersIdle == \A s \in Sources : wpc[s] = "recv" /\ chan[s] = <<>>
Quiet == running /\ AdminsIdle /\ MergersIdle

(***************************************************************************)
(* Memory is never ahead of disk: whenever the store's mutex is free, the  *)
(* overlay in memory is the one a restart would read.                      *)
(***************************************************************************)
MemoryMatchesDisk ==
  running /\ holder = Absent => overlay = overlayFile

(***************************************************************************)
(* The configuration the store serves always passes validation, although   *)
(* the base and the overlay are replaced independently of each other.      *)
(***************************************************************************)
StoreIsValid == running => Effective(base, overlay) \in ValidConfigs

(***************************************************************************)
(* The gateway comes up again after a crash at any point, unless the base  *)
(* YAML was edited since it was last read.                                 *)
(***************************************************************************)
BootsAgain ==
  baseFile = base => Effective(baseFile, overlayFile) \in ValidConfigs

(***************************************************************************)
(* config_overlay.rs and spec/SPEC.md: a patched or reloaded configuration *)
(* takes effect immediately, so with no operation under way the hot state  *)
(* is built from the store's configuration.                                *)
(***************************************************************************)
HotMatchesStore == Quiet => hot.cfg = Effective(base, overlay)

(***************************************************************************)
(* A host that a source announced in this life of the process is in the    *)
(* shared snapshot of dynamic routes once the merge tasks are idle,        *)
(* whatever rebuilds of the hot state ran meanwhile, unless two merge      *)
(* tasks held copies of the snapshot at once.  They load, extend and store *)
(* it without a lock, so then the routes of one source can be lost until   *)
(* it announces again, although the comment above that code says that      *)
(* "multiple sources accumulate".                                          *)
(***************************************************************************)
DynamicHasAll ==
  Quiet /\ ~crossed => \A s \in Sources, h \in Hosts :
             latest[s][h] # Absent => dynamic[h] # Absent

(***************************************************************************)
(* The running gateway serves what its files say, and only what it has     *)
(* validated, and a crash at any step leaves files it starts from.         *)
(***************************************************************************)
StoreSound == MemoryMatchesDisk /\ StoreIsValid /\ BootsAgain

(***************************************************************************)
(* The overlay as a register: a reader gets the one in memory, or in the   *)
(* file while the process is down, and the candidate of the call inside    *)
(* the mutex is under way.  Clearing is the update that deletes every key. *)
(***************************************************************************)
ClearsAll == [k \in Keys |-> Null]

Register == INSTANCE DurableRegister WITH
  First <- Empty,
  Updates <- Patches \cup {ClearsAll},
  Apply <- DeepMerge,
  value <- IF running THEN overlay ELSE overlayFile,
  pending <- IF holder = Absent THEN {} ELSE {cand[holder]},
  up <- running

(***************************************************************************)
(* The steps of persist (config_overlay.rs: the temp file, the rename, the *)
(* assignment to memory), interleaved with other admin calls, reloads,     *)
(* config sources, edits of the base and crashes, implement an atomic      *)
(* durable register: no acknowledged change is lost, no refused one comes  *)
(* back, and every patch is laid over the overlay it replaces.             *)
(***************************************************************************)
OverlayIsRegister == Register!Spec
===============================================================================
