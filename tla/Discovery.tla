------------------------------ MODULE Discovery ------------------------------
(***************************************************************************)
(* How an edit of services.json reaches the selector: the watch task of    *)
(* the source (ServicesWatch) sends routes through a bounded channel, the  *)
(* merge task of spawn_watchers (gateway/src/config_source.rs) installs    *)
(* them in the hot state, and the health checker (HealthChecker) probes    *)
(* what the hot state routes to.  The three tasks run concurrently, next   *)
(* to the rebuilds of the hot state by SIGHUP and the admin API            *)
(* (rebuild_hot_with_dynamic of config_overlay.rs), with the writers of    *)
(* the file and the backends as their environment.                         *)
(*                                                                         *)
(* One service is followed: Listed gives the backends that a version of    *)
(* the file lists for its host, none if the version leaves the host out.   *)
(***************************************************************************)
EXTENDS Naturals, Sequences, FiniteSets

CONSTANTS
  Backends,     \* backend URLs
  MaxEdits,     \* bound: how often the file is rewritten
  Listed,       \* backends of the service in each version of the file
  ChannelCap    \* capacity of the channel of routes             (code: 16)

ASSUME DiscoveryAssumption ==
  /\ MaxEdits \in Nat
  /\ Listed \in [0 .. MaxEdits -> SUBSET Backends]
  /\ ChannelCap \in Nat \ {0}

VARIABLES
  content, edits, mtime,                 \* the file
  wpc, last, read, sent,                 \* the watch task
  queue,                                 \* the mpsc channel
  dynamic,                               \* its backends in the shared DynamicRoutes
  merging,                               \* is the merge task about to store
  rebuild,                               \* a rebuild: [at, got, late]
  routed,                                \* the service's backends in hot.routing
  up, health, hpc, todo, target, seen,   \* backends and health checker
  awaited                                \* history: a watched edit is not in effect yet

W == INSTANCE ServicesWatch WITH pc <- wpc
H == INSTANCE HealthChecker WITH pc <- hpc

watch == <<content, edits, mtime, wpc, last, read, sent>>
checker == <<up, health, hpc, todo, target, seen>>
hotState == <<dynamic, merging, rebuild, routed>>
tasks == <<watch, queue, hotState, checker>>
discoveryVars == <<tasks, awaited>>

(* Every variable has the shape the code's types give it: one probe at a   *)
(* time, no modification time from the future, no overfull channel.        *)
DiscoveryTypeOK ==
  /\ W!TypeOK /\ H!TypeOK
  /\ queue \in Seq(0 .. MaxEdits) /\ Len(queue) <= ChannelCap
  /\ dynamic \in SUBSET Backends /\ merging \in BOOLEAN
  /\ rebuild \in [at : {"idle", "store"}, got : SUBSET Backends, late : BOOLEAN]
  /\ awaited \in BOOLEAN

(* At start the routing is the one of the YAML, which has not the service. *)
DiscoveryInit ==
  /\ W!Init /\ H!Init
  /\ queue = <<>> /\ routed = {} /\ awaited = FALSE
  /\ dynamic = {} /\ merging = FALSE
  /\ rebuild = [at |-> "idle", got |-> {}, late |-> FALSE]

(* Mutant: try_send, which gives up when the channel is full. *)
SendOrDrop ==
  /\ W!InitialSend \/ W!Send
  /\ queue' = IF Len(queue) < ChannelCap THEN Append(queue, read) ELSE queue
  /\ UNCHANGED <<hotState, checker>>

(* tx.send waits for room in the channel. *)
SendRoutes ==
  /\ Len(queue) < ChannelCap
  /\ W!InitialSend \/ W!Send
  /\ queue' = Append(queue, read)
  /\ UNCHANGED <<hotState, checker>>

(* The merge task publishes: the routes of the version overwrite those of  *)
(* the same host in the shared snapshot, and a host the version leaves out *)
(* keeps what it had ...                                                   *)
Merge ==
  /\ queue # <<>> /\ ~merging
  /\ queue' = Tail(queue)
  /\ LET bs == Listed[Head(queue)] IN dynamic' = IF bs = {} THEN dynamic ELSE bs
  /\ merging' = TRUE
  /\ UNCHANGED <<watch, rebuild, routed, checker>>

(* ... and stores the hot state it built from the snapshot. *)
StoreMerged ==
  /\ merging
  /\ H!Swap(dynamic)
  /\ merging' = FALSE
  /\ rebuild' = [rebuild EXCEPT !.late = FALSE]
  /\ UNCHANGED <<watch, queue, dynamic>>

(* SIGHUP, a reload or a patch: the snapshot is loaded ... *)
BeginRebuild ==
  /\ rebuild.at = "idle"
  /\ rebuild' = [rebuild EXCEPT !.at = "store", !.got = dynamic]
  /\ UNCHANGED <<watch, queue, dynamic, merging, routed, checker>>

(* ... and the hot state built from it is stored, late if the snapshot has *)
(* been replaced meanwhile.                                                *)
EndRebuild ==
  /\ rebuild.at = "store"
  /\ H!Swap(rebuild.got)
  /\ rebuild' = [at |-> "idle", got |-> {}, late |-> rebuild.got # dynamic]
  /\ UNCHANGED <<watch, queue, dynamic, merging>>

LookAtFile == W!Look /\ UNCHANGED <<queue, hotState, checker>>
CheckHealth == H!Checker /\ UNCHANGED <<watch, queue, dynamic, merging, rebuild>>
Environment ==
  \/ (W!BeginWrite \/ W!EndWrite) /\ UNCHANGED <<queue, hotState, checker>>
  \/ \E b \in Backends : H!Flip(b) /\ UNCHANGED <<watch, queue, dynamic, merging, rebuild>>

(* The file lists the service, and the router has the backends it lists.  *)
InEffect ==
  content \in 0 .. MaxEdits /\ Listed[content] # {} /\ routed = Listed[content]

(* The file leaves the service out. *)
Removed == content \in 0 .. MaxEdits /\ Listed[content] = {}

DiscoveryNext ==
  /\ \/ LookAtFile \/ SendRoutes \/ Merge \/ StoreMerged \/ BeginRebuild \/ EndRebuild
     \/ CheckHealth \/ Environment
  /\ awaited' = ((awaited \/ (wpc' = "sleep" /\ mtime' # last')) /\ ~InEffect' /\ ~Removed')

(* Whoever begins to write the file ends it. *)
EndWrite == W!EndWrite /\ UNCHANGED <<queue, hotState, checker>>

-------------------------------------------------------------------------------
(***************************************************************************)
(* An edit of services.json that lists the service, made while the watch   *)
(* task polls, gets into effect, also when it is written between the       *)
(* poll's look at the modification time and the reload, is half written at *)
(* the reload, or finds the channel full.  Two edits it does not promise:  *)
(* one that a rebuild undoes, which loaded the snapshot before the merge   *)
(* task published and stored after it, until the next merge or rebuild;    *)
(* and one that removes the service, whose routes the merge keeps.         *)
(***************************************************************************)
EditTakesEffect == []<>(~awaited \/ rebuild.late)

(***************************************************************************)
(* A dead backend that a watched edit brought into the routing is found    *)
(* out by the health checker and stays marked, although it was unknown to  *)
(* the checker at start-up and the table changed in the middle of rounds.  *)
(***************************************************************************)
DeadIsNoticed ==
  \A b \in Backends :
    <>[](~up[b] /\ b \in routed) => <>[](~health[b])

(***************************************************************************)
(* A backend that was judged dead, then left the routing, recovered and    *)
(* came back by another edit, gets traffic again.                          *)
(***************************************************************************)
RecoveryIsNoticed ==
  \A b \in Backends :
    <>[](up[b] /\ b \in routed) => <>[](health[b])
===============================================================================
