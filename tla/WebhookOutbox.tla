---------------------------- MODULE WebhookOutbox ----------------------------
(***************************************************************************)
(* Webhook delivery: events are enqueued beside the audit log, a worker in *)
(* every server claims the ones that are due, posts each to the webhooks   *)
(* that subscribe to it and marks it (auth-server/src/outbox_worker.rs,    *)
(* handlers/webhook.rs, outbox_flush in handlers/admin.rs and              *)
(* publish_and_audit_outbox in auth_events.rs, over OutboxStore and        *)
(* WebhookStore in auth-core/src/store/pg.rs).                             *)
(*                                                                         *)
(* claim_pending takes no lock: two workers may hold the same event.  The  *)
(* backoff only delays a claim, so a due event is one that is not          *)
(* published.  A panic ends a worker and nothing starts it again while its *)
(* server runs; a server that is restarted is a worker that has not        *)
(* claimed yet.                                                            *)
(***************************************************************************)
EXTENDS Naturals, Sequences, FiniteSets

CONSTANTS
  Events,        \* outbox_events that can be enqueued
  Hooks,         \* webhook_subscriptions of the tenant
  Switched,      \* the subscriptions an administrator switches off and on
  Workers,       \* servers, each with one worker
  MaxAttempts,   \* attempts before an event is given up: 5
  MaxPanics      \* bound: deliveries that end a worker and batches a statement ends

ASSUME OutboxAssumption ==
  /\ IsFiniteSet(Events)
  /\ MaxAttempts \in Nat \ {0} /\ MaxPanics \in Nat /\ Switched \subseteq Hooks

VARIABLES
  event,      \* outbox_events: state and attempt_count
  hookOn,     \* the subscriptions that are active
  batch,      \* what each worker is doing
  panics,     \* deliveries that ended a worker and batches cut short so far
  posts,      \* history: how often an event was posted to a hook
  accepted,   \* history: the pairs of event and hook that succeeded
  excused,    \* history: events that outbox_flush published or that a hook changed under
  shared      \* history: events that two workers held at once

webhookVars == <<event, hookOn, batch, panics, posts, accepted, excused, shared>>

NoEvent == [state |-> "none", attempt |-> 0]
Asleep == [at |-> "asleep"]
Dead == [at |-> "dead"]

(* A post after which no property changes any more is not counted. *)
PostLimit == MaxAttempts + MaxPanics + 1

WebhookTypeOK ==
  /\ event \in [Events -> [state : {"none", "pending", "published"}, attempt : 0 .. MaxAttempts]]
  /\ hookOn \subseteq Hooks
  /\ posts \in [Events \X Hooks -> 0 .. PostLimit]

WebhookInit ==
  /\ event = [e \in Events |-> NoEvent]
  /\ hookOn = Hooks
  /\ batch = [w \in Workers |-> Asleep]
  /\ panics = 0
  /\ posts = [p \in Events \X Hooks |-> 0]
  /\ accepted = {} /\ excused = {} /\ shared = {}

(* publish_and_audit_outbox: the audit row, then enqueue; a failure of     *)
(* either is logged, and the event is simply not there.                    *)
Enqueue(e) ==
  /\ event[e] = NoEvent
  /\ event' = [event EXCEPT ![e].state = "pending"]
  /\ UNCHANGED <<hookOn, batch, panics, posts, accepted, excused, shared>>

(* Mutant: an event that was tried is not due again. *)
DueOnce == {e \in Events : event[e].state = "pending" /\ event[e].attempt = 0}

Due == {e \in Events : event[e].state = "pending"}

Holds(w, e) ==
  batch[w] \notin {Asleep, Dead} /\ \E i \in DOMAIN batch[w].todo : batch[w].todo[i] = e

(* claim_pending: a SELECT, in the order of creation. *)
Claim(w) ==
  /\ batch[w] = Asleep /\ Due # {}
  /\ \E order \in [1 .. Cardinality(Due) -> Due] :
       /\ \A i, j \in DOMAIN order : order[i] = order[j] => i = j
       /\ batch' = [batch EXCEPT ![w] =
            [at |-> "event", todo |-> order, seen |-> [e \in Due |-> event[e].attempt],
             hooks |-> {}, allOk |-> TRUE]]
  /\ shared' = shared \cup {e \in Due : \E other \in Workers \ {w} : Holds(other, e)}
  /\ UNCHANGED <<event, hookOn, panics, posts, accepted, excused>>

Current(w) == Head(batch[w].todo)

(* list_by_tenant and the filter on is_active and the event type. *)
ReadHooks(w) ==
  /\ batch[w].at = "event"
  /\ batch' = [batch EXCEPT ![w].at = "deliver", ![w].hooks = hookOn, ![w].allOk = TRUE]
  /\ UNCHANGED <<event, hookOn, panics, posts, accepted, excused, shared>>

(* deliver: one POST.  A 2xx is a success, anything else a failure.  The   *)
(* delivery record that follows changes nothing the worker reads.          *)
Deliver(w, h, ok) ==
  LET pair == <<Current(w), h>> IN
  /\ batch[w].at = "deliver" /\ h \in batch[w].hooks
  /\ batch' = [batch EXCEPT ![w].hooks = @ \ {h}, ![w].allOk = @ /\ ok]
  /\ posts' = [posts EXCEPT ![pair] = IF @ < PostLimit THEN @ + 1 ELSE @]
  /\ accepted' = IF ok THEN accepted \cup {pair} ELSE accepted
  /\ UNCHANGED <<event, hookOn, panics, excused, shared>>

(* The body of a failed answer is cut at byte 200: inside a character that *)
(* panics, and the spawned task is gone.                                   *)
DeliverPanics(w, h) ==
  LET pair == <<Current(w), h>> IN
  /\ batch[w].at = "deliver" /\ h \in batch[w].hooks
  /\ panics < MaxPanics /\ panics' = panics + 1
  /\ batch' = [batch EXCEPT ![w] = Dead]
  /\ posts' = [posts EXCEPT ![pair] = IF @ < PostLimit THEN @ + 1 ELSE @]
  /\ UNCHANGED <<event, hookOn, accepted, excused, shared>>

Next1(w) ==
  IF Len(batch[w].todo) = 1 THEN Asleep
  ELSE [batch[w] EXCEPT !.at = "event", !.todo = Tail(@)]

(* mark_published: whatever the event's state is by now. *)
Publish(w) ==
  /\ event' = [event EXCEPT ![Current(w)].state = "published"]
  /\ batch' = [batch EXCEPT ![w] = Next1(w)]

(* Mutant: the attempt is not counted. *)
RetryUncounted(w, attempt) ==
  /\ event' = [event EXCEPT ![Current(w)].attempt = attempt - 1]
  /\ batch' = [batch EXCEPT ![w] = Next1(w)]

(* mark_retry *)
Retry(w, attempt) ==
  /\ event' = [event EXCEPT ![Current(w)].attempt = attempt]
  /\ batch' = [batch EXCEPT ![w] = Next1(w)]

(* Mutant: one success is enough. *)
SettlesOnAny(w) == batch[w].allOk \/ \E h \in Hooks : <<Current(w), h>> \in accepted

AllDelivered(w) == batch[w].allOk

(* After the last hook: published, given up, or retried with the count     *)
(* that the claim read.                                                    *)
Settle(w) ==
  LET attempt == batch[w].seen[Current(w)] + 1 IN
  /\ batch[w].at = "deliver" /\ batch[w].hooks = {}
  /\ IF AllDelivered(w) \/ attempt >= MaxAttempts THEN Publish(w) ELSE Retry(w, attempt)
  /\ UNCHANGED <<hookOn, panics, posts, accepted, excused, shared>>

(* A statement fails: the rest of the batch is left for the next poll. *)
BatchFails(w) ==
  /\ batch[w].at \in {"event", "deliver"} /\ batch[w].hooks = {}
  /\ panics < MaxPanics /\ panics' = panics + 1
  /\ batch' = [batch EXCEPT ![w] = Asleep]
  /\ UNCHANGED <<event, hookOn, posts, accepted, excused, shared>>

(* outbox_flush: the pending events are marked published, undelivered. *)
OutboxFlush ==
  /\ Due # {}
  /\ event' = [e \in Events |-> IF e \in Due THEN [event[e] EXCEPT !.state = "published"] ELSE event[e]]
  /\ excused' = excused \cup Due
  /\ UNCHANGED <<hookOn, batch, panics, posts, accepted, shared>>

(* patch_webhook and delete_webhook switch a subscription off or on. *)
SwitchHook(h) ==
  /\ hookOn' = IF h \in hookOn THEN hookOn \ {h} ELSE hookOn \cup {h}
  /\ excused' = excused \cup {e \in Events : event[e].state # "published"}
  /\ UNCHANGED <<event, batch, panics, posts, accepted, shared>>

WorkerStep(w) ==
  \/ Claim(w) \/ ReadHooks(w) \/ Settle(w)
  \/ \E h \in Hooks, ok \in BOOLEAN : Deliver(w, h, ok)

WebhookNext ==
  \/ \E e \in Events : Enqueue(e)
  \/ \E w \in Workers : WorkerStep(w) \/ BatchFails(w)
  \/ \E w \in Workers, h \in Hooks : DeliverPanics(w, h)
  \/ \E h \in Switched : SwitchHook(h)
  \/ OutboxFlush

-------------------------------------------------------------------------------
(* Properties. *)

(***************************************************************************)
(* A hook that keeps failing is not called for ever: an event is posted to *)
(* it MaxAttempts times, and once more for every worker that dies, or      *)
(* batch that fails, before the attempt is counted.  When two workers hold the event the one    *)
(* that is slower writes back an older count.                              *)
(***************************************************************************)
PostsBounded ==
  \A e \in Events \ shared, h \in Hooks : posts[<<e, h>>] <= MaxAttempts + panics

(***************************************************************************)
(* A published event reached every active hook or was tried MaxAttempts    *)
(* times, unless it was flushed or the subscriptions changed meanwhile.    *)
(***************************************************************************)
PublishedWasTried ==
  \A e \in Events :
    event[e].state = "published" /\ e \notin excused =>
      \A h \in Hooks : <<e, h>> \in accepted \/ posts[<<e, h>>] >= MaxAttempts

(***************************************************************************)
(* An event is delivered or given up as long as one worker is left, though *)
(* hooks fail, batches are cut short and workers die.  An answer that      *)
(* panics the worker panics every worker in turn, since the attempt is not *)
(* counted: when the last one is gone the events stay pending.             *)
(***************************************************************************)
EventsSettle ==
  \A e \in Events :
    []<>(event[e].state # "pending") \/ <>[](\A w \in Workers : batch[w] = Dead)

(***************************************************************************)
(* An event costs a bounded number of posts and is published only after    *)
(* each of its hooks was tried, whatever crashes and which hook fails.     *)
(***************************************************************************)
OutboxSound == PostsBounded /\ PublishedWasTried
=============================================================================
