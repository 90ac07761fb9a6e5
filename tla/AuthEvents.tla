----------------------------- MODULE AuthEvents -----------------------------
(***************************************************************************)
(* Auth events (auth-server/src/auth_events.rs) and the erasure of a user  *)
(* (handlers/admin.rs hard_delete_user). Handlers raise an event of a user *)
(* with publish_and_audit: it is written to the audit log, which may fail  *)
(* without consequence, and then published: to the instance's own          *)
(* broadcast, read by the SSE streams of handlers/viz.rs, and through an   *)
(* unbounded channel and a lossy Redis PUBLISH to the other instances,     *)
(* which drop the echo of what they sent themselves by its origin.         *)
(* (publish_and_audit_outbox, which also enqueues a webhook, has no        *)
(* caller.)                                                                *)
(***************************************************************************)
EXTENDS Naturals, Sequences, Functions

CONSTANTS
    AuthEvs,       \* events, all with the same user as their actor
    BlockedEvs,    \* the LOGIN_BLOCKED ones among them
    Instances,     \* auth servers sharing the database and the Redis channel
    Erasures       \* calls of hard_delete_user for that user

ASSUME EventsAssumption == BlockedEvs \subseteq AuthEvs

VARIABLES
    evStep,        \* event -> "new" | "audit" | "publish" | "done"
    evAt,          \* event -> the instance that raised it (its origin)
    auditActors,   \* events whose audit_logs row has the user as actor_id, and a detail
    auditTargets,  \* events whose row has the user as target_id, and an address
    pubQueue,      \* instance -> events in the publisher task's channel
    subQueue,      \* instance -> Redis messages not yet taken by its subscriber
    streamed,      \* history: instance -> event -> times sent to its broadcast
    erasing,       \* erasure -> the next statement of hard_delete_user
    userDeleted,   \* users.deleted_at is set
    oldTraces      \* history: erasure -> events audited when it began

authEventVars == <<evStep, evAt, auditActors, auditTargets, pubQueue, subQueue,
                   streamed, erasing, userDeleted, oldTraces>>
trailVars == <<evStep, evAt, auditActors, auditTargets>>
busVars == <<pubQueue, subQueue, streamed>>
eraseVars == <<erasing, userDeleted, oldTraces>>

AuthEventTypeOK ==
    /\ evStep \in [AuthEvs -> {"new", "audit", "publish", "done"}]
    /\ evAt \in [AuthEvs -> Instances]
    /\ auditActors \subseteq AuthEvs /\ auditTargets \subseteq BlockedEvs
    /\ pubQueue \in [Instances -> Seq(AuthEvs)]
    /\ subQueue \in [Instances -> Seq(AuthEvs)]
    /\ streamed \in [Instances -> [AuthEvs -> Nat]]
    /\ erasing \in [Erasures -> {"idle", "audit", "outbox", "flows", "user", "ok", "failed"}]
    /\ userDeleted \in BOOLEAN
    /\ oldTraces \in [Erasures -> SUBSET AuthEvs]

AuthEventInit ==
    /\ evStep = [e \in AuthEvs |-> "new"]
    /\ evAt \in [AuthEvs -> Instances]
    /\ auditActors = {} /\ auditTargets = {}
    /\ pubQueue = [i \in Instances |-> <<>>]
    /\ subQueue = [i \in Instances |-> <<>>]
    /\ streamed = [i \in Instances |-> [e \in AuthEvs |-> 0]]
    /\ erasing = [x \in Erasures |-> "idle"] /\ userDeleted = FALSE
    /\ oldTraces = [x \in Erasures |-> {}]

----------------------------------------------------------------------------
(* AuditStore::insert. The row of a refused login names the user a second   *)
(* time, as its target, with the address of the client. A failure is logged *)
(* and the event goes on.                                                   *)
AuditInsert(e, ok) ==
    /\ auditActors' = auditActors \union (IF ok THEN {e} ELSE {})
    /\ auditTargets' = auditTargets \union (IF ok THEN {e} \intersect BlockedEvs ELSE {})

(* A handler raises the event with publish_and_audit. *)
RaiseEvent(e) ==
    /\ evStep[e] = "new"
    /\ evStep' = [evStep EXCEPT ![e] = "audit"]
    /\ UNCHANGED <<evAt, auditActors, auditTargets, busVars, eraseVars>>

WriteAudit(e, ok) ==
    /\ evStep[e] = "audit"
    /\ evStep' = [evStep EXCEPT ![e] = "publish"]
    /\ AuditInsert(e, ok)
    /\ UNCHANGED <<evAt, busVars, eraseVars>>

PublishLocal(i, e) == streamed' = [streamed EXCEPT ![i][e] = @ + 1]

(* publish: stamped with its origin, into the publisher's channel, and to   *)
(* the local broadcast.                                                     *)
PublishEvent(e) ==
    /\ evStep[e] = "publish"
    /\ evStep' = [evStep EXCEPT ![e] = "done"]
    /\ pubQueue' = [pubQueue EXCEPT ![evAt[e]] = Append(@, e)]
    /\ PublishLocal(evAt[e], e)
    /\ UNCHANGED <<evAt, auditActors, auditTargets, subQueue, eraseVars>>

(* The publisher task: PUBLISH reaches every subscriber, or fails and the   *)
(* event is lost to the other instances.                                    *)
RedisPublish(i, ok) ==
    /\ pubQueue[i] # <<>>
    /\ pubQueue' = [pubQueue EXCEPT ![i] = Tail(@)]
    /\ subQueue' = IF ok THEN [j \in Instances |-> Append(subQueue[j], Head(pubQueue[i]))]
                         ELSE subQueue
    /\ UNCHANGED <<trailVars, streamed, eraseVars>>

(* Mutant: a message from Redis is published like a new event. *)
RelayPublish(i, e) ==
    /\ PublishLocal(i, e)
    /\ pubQueue' = [pubQueue EXCEPT ![i] = Append(@, e)]

(* What the subscriber does with another instance's event. *)
Relay(i, e) == PublishLocal(i, e) /\ UNCHANGED pubQueue

(* The subscriber task: its own echo is skipped. *)
RedisReceive(i) ==
    /\ subQueue[i] # <<>>
    /\ subQueue' = [subQueue EXCEPT ![i] = Tail(@)]
    /\ LET e == Head(subQueue[i])
       IN  IF evAt[e] = i THEN UNCHANGED <<pubQueue, streamed>> ELSE Relay(i, e)
    /\ UNCHANGED <<trailVars, eraseVars>>

----------------------------------------------------------------------------
(* hard_delete_user runs its statements one by one, each on its own. *)
EraseStatement(x, stmt, next) ==
    /\ erasing[x] = stmt
    /\ erasing' = [erasing EXCEPT ![x] = next]
    /\ UNCHANGED <<evStep, evAt, auditTargets, busVars, oldTraces>>

EraseBegin(x) ==
    /\ erasing[x] \in {"idle", "failed"}
    /\ erasing' = [erasing EXCEPT ![x] = "audit"]
    /\ oldTraces' = [oldTraces EXCEPT ![x] = {e \in AuthEvs : evStep[e] \in {"publish", "done"}}]
    /\ UNCHANGED <<trailVars, busVars, userDeleted>>

(* actor_id and detail become NULL where the user is the actor; target_id   *)
(* and the address stay.                                                    *)
AnonymizeAudit(x) ==
    /\ EraseStatement(x, "audit", "outbox")
    /\ auditActors' = {} /\ UNCHANGED userDeleted

(* Pending webhooks that name the user, of which no handler enqueues one,   *)
DeleteOutboxByUser(x) ==
    /\ EraseStatement(x, "outbox", "flows")
    /\ UNCHANGED <<auditActors, userDeleted>>

(* the transitions of the flows of the user's sessions,                     *)
DeleteFlowTransitions(x) ==
    /\ EraseStatement(x, "flows", "user")
    /\ UNCHANGED <<auditActors, userDeleted>>

(* and deleted_at of the user, whose row is kept.                           *)
SoftDeleteUser(x) ==
    /\ EraseStatement(x, "user", "ok")
    /\ userDeleted' = TRUE /\ UNCHANGED auditActors

(* Mutant: a failed anonymization is logged and passed over. *)
EraseFailsOver(x) ==
    /\ \/ EraseStatement(x, "audit", "outbox")
       \/ \E stmt \in {"outbox", "flows", "user"} : EraseStatement(x, stmt, "failed")
    /\ UNCHANGED <<auditActors, userDeleted>>

(* A statement fails: 500, with the earlier ones done; the administrator    *)
(* may call again, from the first statement.                                *)
EraseFails(x) ==
    /\ \E stmt \in {"audit", "outbox", "flows", "user"} : EraseStatement(x, stmt, "failed")
    /\ UNCHANGED <<auditActors, userDeleted>>

HardDeleteUser(x) ==
    \/ EraseBegin(x) \/ AnonymizeAudit(x) \/ DeleteOutboxByUser(x)
    \/ DeleteFlowTransitions(x) \/ SoftDeleteUser(x) \/ EraseFails(x)

AuthEventNext ==
    \/ \E e \in AuthEvs : \/ RaiseEvent(e) \/ PublishEvent(e)
                          \/ \E ok \in BOOLEAN : WriteAudit(e, ok)
    \/ \E i \in Instances : \/ RedisReceive(i)
                            \/ \E ok \in BOOLEAN : RedisPublish(i, ok)
    \/ \E x \in Erasures : HardDeleteUser(x)

----------------------------------------------------------------------------
(* Whatever the order in which instances publish, echo and relay, no        *)
(* instance's stream carries an event twice, and its own instance's stream  *)
(* carries it exactly once when its handler is done ("used by the Redis     *)
(* subscriber to avoid a loop").                                            *)
StreamedOnce ==
    \A i \in Instances, e \in AuthEvs :
        /\ streamed[i][e] <= 1
        /\ evAt[e] = i /\ evStep[e] = "done" => streamed[i][e] = 1

(* When hard_delete_user answers ok, after any number of failed calls, the  *)
(* user is deleted and no audit row from before the call that succeeded has *)
(* the user as its actor or keeps its detail ("anonymize actor_id +         *)
(* detail"). The target_id and the address of a refused login stay, and an  *)
(* event raised meanwhile may write its row behind the statement that       *)
(* passed.                                                                  *)
ErasureReachesOldTraces ==
    \A x \in Erasures :
        erasing[x] = "ok" => userDeleted /\ oldTraces[x] \intersect auditActors = {}

(***************************************************************************)
(* Every subscriber sees an event once, and erasure reaches the actors a   *)
(* failed attempt has left.                                                *)
(***************************************************************************)
EventsSound == StreamedOnce /\ ErasureReachesOldTraces
=============================================================================
