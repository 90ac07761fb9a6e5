-------------------------- MODULE NotificationOutbox --------------------------
(***************************************************************************)
(* The notification outbox: jobs are rows of notification_jobs, and every  *)
(* auth-server process runs a worker that claims due jobs in batches,      *)
(* sends them and records the outcome                                      *)
(* (auth-server/src/notification_worker.rs and NotificationJobStore in     *)
(* auth-core/src/store/pg.rs).                                             *)
(*                                                                         *)
(* claim_pending is a plain SELECT: it locks nothing, so two workers can   *)
(* hold the same job, each with the attempt count it read.  Statements     *)
(* whose errors the worker ignores may fail, and a worker may die and be   *)
(* started again; MaxFaults bounds how often that happens.                 *)
(***************************************************************************)
EXTENDS Naturals, Sequences, FiniteSets

CONSTANTS
  Workers,        \* the processes that run a notification worker
  MaxAttempts,    \* MAX_ATTEMPTS
  BatchLimit,     \* the LIMIT of claim_pending
  MaxFaults       \* bound: failed statements and crashes of workers

ASSUME OutboxAssumption ==
  /\ IsFiniteSet(Workers)
  /\ MaxAttempts \in Nat \ {0} /\ BatchLimit \in Nat \ {0}
  /\ MaxFaults \in Nat

VARIABLES
  jobs,     \* notification_jobs, in the order of created_at
  worker,   \* each worker's claimed jobs, and whether it sends or records
  sends,    \* history: how often each job was handed to the provider with success
  faults    \* the faults so far

outbox == <<jobs, worker, sends, faults>>

(* correlation_id is the name of the thing the mail is for, or NoCorrelation. *)
NoCorrelation == "none"
Asleep == [at |-> "send", batch |-> <<>>]

OutboxTypeOK ==
  /\ \A j \in DOMAIN jobs :
       /\ jobs[j].status \in {"pending", "sent", "failed"}
       /\ jobs[j].attempts \in 0 .. MaxAttempts - 1
       /\ jobs[j].due \in BOOLEAN
  /\ worker \in [Workers -> [at : {"send", "mark"},
                             batch : Seq([job : Nat, attempts : 0 .. MaxAttempts - 1])]]
  /\ sends \in Seq(Nat) /\ Len(sends) = Len(jobs)
  /\ faults \in 0 .. MaxFaults

OutboxInit ==
  /\ jobs = <<>> /\ sends = <<>>
  /\ worker = [w \in Workers |-> Asleep]
  /\ faults = 0

(* enqueue: idempotent on the correlation id. *)
Enqueue(link, correlation) ==
  IF correlation # NoCorrelation
       /\ \E j \in DOMAIN jobs : jobs[j].correlation = correlation
  THEN UNCHANGED <<jobs, sends>>
  ELSE /\ jobs' = Append(jobs, [link |-> link, correlation |-> correlation,
                                status |-> "pending", attempts |-> 0, due |-> TRUE])
       /\ sends' = Append(sends, 0)

-------------------------------------------------------------------------------
(* The worker.                                                             *)

(* Mutant: the status is not part of the WHERE clause. *)
AnyClaimable(j) == jobs[j].due

(* status = 'pending' AND next_attempt_at <= now() *)
Claimable(j) == jobs[j].status = "pending" /\ jobs[j].due

(* The claimable jobs in the order of their age, up to BatchLimit of them: *)
(* none that is left out is older than one of the batch.                   *)
Oldest(batch) ==
  /\ \A i \in DOMAIN batch : Claimable(batch[i])
  /\ \A i, k \in DOMAIN batch : i < k => batch[i] < batch[k]
  /\ \A j \in DOMAIN jobs : Claimable(j) /\ (\A i \in DOMAIN batch : batch[i] # j) =>
       Len(batch) = BatchLimit /\ \A i \in DOMAIN batch : batch[i] < j

(* claim_pending at the start of poll_once, with the rows as they are now. *)
ClaimPending(w) ==
  /\ worker[w].batch = <<>>
  /\ \E n \in 1 .. BatchLimit : \E batch \in [1 .. n -> DOMAIN jobs] :
       /\ Oldest(batch)
       /\ worker' = [worker EXCEPT ![w].batch =
            [i \in 1 .. n |-> [job |-> batch[i], attempts |-> jobs[batch[i]].attempts]]]
  /\ UNCHANGED <<jobs, sends, faults>>

Current(w) == Head(worker[w].batch)
Advance(w) ==
  worker' = [worker EXCEPT ![w] = [at |-> "send", batch |-> Tail(@.batch)]]

(* The provider takes the message. *)
Send(w) ==
  /\ worker[w].batch # <<>> /\ worker[w].at = "send"
  /\ sends' = [sends EXCEPT ![Current(w).job] = @ + 1]
  /\ worker' = [worker EXCEPT ![w].at = "mark"]
  /\ UNCHANGED <<jobs, faults>>

(* mark_sent; an error is only logged. *)
MarkSent(w) ==
  /\ worker[w].batch # <<>> /\ worker[w].at = "mark"
  /\ jobs' = [jobs EXCEPT ![Current(w).job].status = "sent"]
  /\ Advance(w)
  /\ UNCHANGED <<sends, faults>>

(* Mutant: the attempts of a retry are not counted. *)
RetryUncounted(w) ==
  jobs' = [jobs EXCEPT ![Current(w).job].due = FALSE]

(* mark_retry: the attempt count the worker claimed, plus one, and a       *)
(* backoff.                                                                *)
MarkRetry(w) ==
  jobs' = [jobs EXCEPT ![Current(w).job].attempts = Current(w).attempts + 1,
                      ![Current(w).job].due = FALSE]

(* mark_failed *)
MarkFailed(w) ==
  jobs' = [jobs EXCEPT ![Current(w).job].status = "failed"]

(* Mutant: one attempt too many. *)
SendFailsOnceMore(w, retryable) ==
  /\ worker[w].batch # <<>> /\ worker[w].at = "send"
  /\ IF retryable /\ Current(w).attempts < MaxAttempts
     THEN MarkRetry(w) ELSE MarkFailed(w)
  /\ Advance(w)
  /\ UNCHANGED <<sends, faults>>

(* The provider fails; only a retryable error is tried again, and only     *)
(* MaxAttempts times.                                                      *)
SendFails(w, retryable) ==
  /\ worker[w].batch # <<>> /\ worker[w].at = "send"
  /\ IF retryable /\ Current(w).attempts + 1 < MaxAttempts
     THEN MarkRetry(w) ELSE MarkFailed(w)
  /\ Advance(w)
  /\ UNCHANGED <<sends, faults>>

(* mark_sent, mark_retry or mark_failed fails and is ignored. *)
MarkLost(w) ==
  /\ worker[w].batch # <<>>
  /\ faults < MaxFaults
  /\ faults' = faults + 1
  /\ Advance(w)
  /\ UNCHANGED <<jobs, sends>>

(* The process dies with what it had claimed, and is started again. *)
Crash(w) ==
  /\ worker[w] # Asleep
  /\ faults < MaxFaults
  /\ faults' = faults + 1
  /\ worker' = [worker EXCEPT ![w] = Asleep]
  /\ UNCHANGED <<jobs, sends>>

(* next_attempt_at of a job is reached. *)
BackoffOver(j) ==
  /\ jobs[j].status = "pending" /\ ~jobs[j].due
  /\ jobs' = [jobs EXCEPT ![j].due = TRUE]
  /\ UNCHANGED <<worker, sends, faults>>

Work(w) ==
  \/ ClaimPending(w) \/ Send(w) \/ MarkSent(w)
  \/ \E retryable \in BOOLEAN : SendFails(w, retryable)

Deliver ==
  \/ \E w \in Workers : Work(w) \/ MarkLost(w) \/ Crash(w)
  \/ \E j \in DOMAIN jobs : BackoffOver(j)


-------------------------------------------------------------------------------
(* Properties.                                                             *)

(***************************************************************************)
(* A recipient gets a message at most once per worker, and once more for   *)
(* each fault: workers that hold the same job do not multiply it further,  *)
(* whatever they read, and a recorded message is not sent again.           *)
(***************************************************************************)
DuplicatesBounded ==
  \A j \in DOMAIN sends : sends[j] <= Cardinality(Workers) + faults
=============================================================================
