-------------------------- MODULE RegistrationProofs --------------------------
(***************************************************************************)
(* What registration and its mails promise, for any number of flows, calls *)
(* and workers, any batch and any number of attempts and faults.           *)
(***************************************************************************)
EXTENDS Registration, FiniteSetTheorems, TLAPS

JobRecord ==
  [link : Nat, correlation : Flows \cup {NoCorrelation}, status : {"pending", "sent", "failed"},
   attempts : 0 .. MaxAttempts - 1, due : BOOLEAN]
ClaimRecord == [job : Nat, attempts : 0 .. MaxAttempts - 1]
WorkerRecord == [at : {"send", "mark"}, batch : Seq(ClaimRecord)]

(* The outbox: jobs are rows of the table, a worker holds jobs that exist, *)
(* each once, and one that holds none does not record an outcome.          *)
OutboxInv ==
  /\ jobs \in Seq(JobRecord) /\ worker \in [Workers -> WorkerRecord]
  /\ sends \in Seq(Nat) /\ Len(sends) = Len(jobs)
  /\ faults \in 0 .. MaxFaults
  /\ \A w \in Workers : \A i \in DOMAIN worker[w].batch : worker[w].batch[i].job \in DOMAIN jobs
  /\ \A w \in Workers : \A i, k \in DOMAIN worker[w].batch :
       worker[w].batch[i].job = worker[w].batch[k].job => i = k
  /\ \A w \in Workers : worker[w].batch = <<>> => worker[w].at = "send"

(* The types of the other variables; a mail names a token that exists.     *)
TypeInv ==
  /\ OutboxInv
  /\ flows \in [Flows -> FlowRecord] /\ tokens \in Seq(TokenRecord) /\ call \in [Calls -> CallState]
  /\ \A j \in DOMAIN jobs : jobs[j].link \in DOMAIN tokens
  /\ \A k \in Calls : call[k].at = "enqueue" => call[k].token \in DOMAIN tokens

-----------------------------------------------------------------------------
(* What a call carries. *)
LEMMA CallCarries ==
  ASSUME call \in [Calls -> CallState], NEW k \in Calls
  PROVE  /\ call[k].at \in {"issue", "find", "complete", "update"} => call[k].flow \in Flows
         /\ call[k].at = "update" => call[k].version \in Nat
         /\ call[k].at = "enqueue" => call[k].token \in Nat /\ call[k].correlation \in Flows \cup {NoCorrelation}
         /\ call[k] = Idle <=> call[k].at = "idle"
  <1>1. call[k] \in CallState
    OBVIOUS
  <1>2. CASE call[k] \in {Idle} \cup [at : {"invalidate", "reissue"}]
    BY <1>2 DEF Idle
  <1>3. CASE call[k] \in [at : {"issue", "find", "complete"}, flow : Flows]
    BY <1>3 DEF Idle
  <1>4. CASE call[k] \in [at : {"update"}, flow : Flows, version : Nat]
    BY <1>4 DEF Idle
  <1>5. CASE call[k] \in [at : {"enqueue"}, token : Nat, correlation : Flows \cup {NoCorrelation}]
    BY <1>5 DEF Idle
  <1> QED
    BY <1>1, <1>2, <1>3, <1>4, <1>5 DEF CallState

(* Goto moves one call. *)
LEMMA GotoMoves ==
  ASSUME call \in [Calls -> CallState], NEW k \in Calls, NEW s \in CallState, MoveCall(k, s)
  PROVE  /\ call' \in [Calls -> CallState] /\ call'[k] = s
         /\ \A m \in Calls : m # k => call'[m] = call[m]
  BY DEF MoveCall

(* The states that Goto is given. *)
LEMMA CallStates ==
  /\ Idle \in CallState
  /\ [at |-> "invalidate"] \in CallState /\ [at |-> "reissue"] \in CallState
  /\ \A f \in Flows : /\ [at |-> "issue", flow |-> f] \in CallState
                      /\ [at |-> "find", flow |-> f] \in CallState
                      /\ [at |-> "complete", flow |-> f] \in CallState
                      /\ \A v \in Nat : [at |-> "update", flow |-> f, version |-> v] \in CallState
  /\ \A i \in Nat : \A c \in Flows \cup {NoCorrelation} :
       [at |-> "enqueue", token |-> i, correlation |-> c] \in CallState
  BY DEF CallState

(* A row of auth_flows with a field changed. *)
LEMMA FlowChanges ==
  ASSUME flows \in [Flows -> FlowRecord], NEW f \in Flows, NEW r \in FlowRecord,
         flows' = [flows EXCEPT ![f] = r]
  PROVE  flows' \in [Flows -> FlowRecord] /\ flows'[f] = r /\ \A g \in Flows : g # f => flows'[g] = flows[g]
  OBVIOUS

(* What the handlers do to flows, tokens and calls.  Every step of a call  *)
(* is one of these.                                                        *)
Quiet == UNCHANGED <<flows, tokens>>
Grows(f) == tokens' = Append(tokens, [flow |-> f, used |-> FALSE]) /\ UNCHANGED flows

(* What a token that is inserted at the end leaves of the others. *)
LEMMA TokenAdded ==
  ASSUME tokens \in Seq(TokenRecord), NEW f \in Flows \cup {NoFlow}, Grows(f)
  PROVE  /\ tokens' \in Seq(TokenRecord) /\ Len(tokens) \in Nat
         /\ DOMAIN tokens = 1 .. Len(tokens) /\ DOMAIN tokens' = 1 .. (Len(tokens) + 1)
         /\ \A i \in DOMAIN tokens : i \in DOMAIN tokens' /\ tokens'[i] = tokens[i]
         /\ \A i \in DOMAIN tokens' : i \in DOMAIN tokens \/ i = Len(tokens) + 1
         /\ tokens'[Len(tokens) + 1].flow = f /\ ~tokens'[Len(tokens) + 1].used
  <1> DEFINE t == [flow |-> f, used |-> FALSE]
  <1>1. t \in TokenRecord /\ t.flow = f /\ ~t.used
    BY DEF TokenRecord
  <1>2. tokens' = Append(tokens, t)
    BY DEF Grows
  <1> HIDE DEF t
  <1> QED
    BY <1>1, <1>2

(* One token, or all of them, marked. *)
LEMMA TokensMarked ==
  ASSUME tokens \in Seq(TokenRecord), NEW M \in SUBSET DOMAIN tokens,
         tokens' = [i \in DOMAIN tokens |-> IF i \in M THEN [tokens[i] EXCEPT !.used = TRUE] ELSE tokens[i]]
  PROVE  /\ tokens' \in Seq(TokenRecord) /\ DOMAIN tokens' = DOMAIN tokens
         /\ \A i \in DOMAIN tokens : /\ tokens'[i].flow = tokens[i].flow
                                     /\ tokens'[i].used <=> tokens[i].used \/ i \in M
  <1>1. \A i \in DOMAIN tokens : tokens[i] \in TokenRecord
    OBVIOUS
  <1>2. \A r \in TokenRecord : /\ [r EXCEPT !.used = TRUE] \in TokenRecord
                               /\ [r EXCEPT !.used = TRUE].flow = r.flow /\ [r EXCEPT !.used = TRUE].used
    BY DEF TokenRecord
  <1>3. Len(tokens) \in Nat /\ DOMAIN tokens = 1 .. Len(tokens)
    OBVIOUS
  <1>4. \A i \in DOMAIN tokens : tokens'[i] \in TokenRecord
    BY <1>1, <1>2
  <1>5. tokens' \in [1 .. Len(tokens) -> TokenRecord]
    BY <1>3, <1>4
  <1>6. tokens' \in Seq(TokenRecord)
    BY <1>3, <1>5
  <1> QED
    BY <1>1, <1>2, <1>6

-----------------------------------------------------------------------------
(* The outbox.                                                             *)

(* A row of notification_jobs, or a worker, changes. *)
LEMMA JobChanges ==
  ASSUME jobs \in Seq(JobRecord), NEW j \in DOMAIN jobs, NEW r \in JobRecord,
         jobs' = [jobs EXCEPT ![j] = r]
  PROVE  /\ jobs' \in Seq(JobRecord) /\ DOMAIN jobs' = DOMAIN jobs /\ Len(jobs') = Len(jobs)
         /\ jobs'[j] = r /\ \A m \in DOMAIN jobs : m # j => jobs'[m] = jobs[m]
  OBVIOUS

(* What an assignment to one worker leaves of the others. *)
LEMMA WorkerChanges ==
  ASSUME worker \in [Workers -> WorkerRecord], NEW w \in Workers, NEW r \in WorkerRecord,
         worker' = [worker EXCEPT ![w] = r]
  PROVE  /\ worker' \in [Workers -> WorkerRecord] /\ worker'[w] = r
         /\ \A v \in Workers : v # w => worker'[v] = worker[v]
  OBVIOUS

(* What a worker holds. *)
LEMMA WorkerHolds ==
  ASSUME OutboxInv, NEW w \in Workers
  PROVE  /\ worker[w] \in WorkerRecord /\ worker[w].at \in {"send", "mark"}
         /\ worker[w].batch \in Seq(ClaimRecord)
         /\ Len(worker[w].batch) \in Nat /\ DOMAIN worker[w].batch = 1 .. Len(worker[w].batch)
         /\ worker[w].batch # <<>> =>
              /\ 1 \in DOMAIN worker[w].batch
              /\ Current(w) = worker[w].batch[1] /\ Current(w) \in ClaimRecord
              /\ Current(w).job \in DOMAIN jobs /\ Current(w).job \in Nat
              /\ Current(w).attempts \in 0 .. MaxAttempts - 1
  <1>1. worker[w] \in WorkerRecord
    BY DEF OutboxInv
  <1>2. worker[w].at \in {"send", "mark"} /\ worker[w].batch \in Seq(ClaimRecord)
    BY <1>1 DEF WorkerRecord
  <1>3. Len(worker[w].batch) \in Nat /\ DOMAIN worker[w].batch = 1 .. Len(worker[w].batch)
    BY <1>2
  <1>4. ASSUME worker[w].batch # <<>>
        PROVE  /\ 1 \in DOMAIN worker[w].batch
               /\ Current(w) = worker[w].batch[1] /\ Current(w) \in ClaimRecord
    BY <1>2, <1>3, <1>4 DEF Current
  <1>5. ASSUME worker[w].batch # <<>>
        PROVE  /\ Current(w).job \in DOMAIN jobs /\ Current(w).job \in Nat
               /\ Current(w).attempts \in 0 .. MaxAttempts - 1
    BY <1>4, <1>5 DEF OutboxInv, ClaimRecord
  <1> QED
    BY <1>1, <1>2, <1>3, <1>4, <1>5

(* A job that worker w has yet to send, and one that it sent and has yet   *)
(* to record.                                                              *)
ToSend(w, j) ==
  \E i \in DOMAIN worker[w].batch : worker[w].batch[i].job = j /\ (worker[w].at = "mark" => i # 1)
Recording(w, j) ==
  worker[w].at = "mark" /\ worker[w].batch # <<>> /\ Current(w).job = j

(* The rest of a batch. *)
LEMMA AdvanceMoves ==
  ASSUME OutboxInv, NEW w \in Workers, worker[w].batch # <<>>, Advance(w)
  PROVE  /\ worker' \in [Workers -> WorkerRecord]
         /\ \A v \in Workers : v # w => worker'[v] = worker[v]
         /\ worker'[w].at = "send"
         /\ \A i \in DOMAIN worker'[w].batch :
              i \in Nat /\ i + 1 \in DOMAIN worker[w].batch /\ i + 1 # 1
                /\ worker'[w].batch[i] = worker[w].batch[i + 1]
         /\ \A j : ToSend(w, j)' => ToSend(w, j) /\ j # Current(w).job
         /\ \A j : ~Recording(w, j)'
  <1> DEFINE b == worker[w].batch
             r == [at |-> "send", batch |-> Tail(b)]
  <1>1. b \in Seq(ClaimRecord) /\ b # <<>> /\ Current(w) = b[1] /\ 1 \in DOMAIN b
    BY WorkerHolds
  <1>2. Tail(b) \in Seq(ClaimRecord)
    BY <1>1
  <1>3. \A i \in DOMAIN Tail(b) : i \in Nat /\ i + 1 \in DOMAIN b /\ i + 1 # 1 /\ Tail(b)[i] = b[i + 1]
    BY <1>1
  <1>4. r \in WorkerRecord /\ r.at = "send" /\ r.batch = Tail(b)
    BY <1>2 DEF WorkerRecord
  <1>5. worker' = [worker EXCEPT ![w] = r]
    BY DEF Advance
  <1>6. worker \in [Workers -> WorkerRecord]
    BY DEF OutboxInv
  <1> HIDE DEF r
  <1>7. /\ worker' \in [Workers -> WorkerRecord] /\ worker'[w] = r
        /\ \A v \in Workers : v # w => worker'[v] = worker[v]
    BY <1>4, <1>5, <1>6, WorkerChanges
  <1>8. \A i, k \in DOMAIN b : b[i].job = b[k].job => i = k
    BY DEF OutboxInv
  <1>9. ASSUME NEW j, ToSend(w, j)'
        PROVE  ToSend(w, j) /\ j # Current(w).job
    <2>1. PICK i \in DOMAIN Tail(b) : Tail(b)[i].job = j
      BY <1>4, <1>7, <1>9 DEF ToSend
    <2>2. i + 1 \in DOMAIN b /\ i + 1 # 1 /\ b[i + 1].job = j
      BY <1>3, <2>1
    <2> QED
      BY <2>2, <1>1, <1>8 DEF ToSend
  <1>10. \A j : ~Recording(w, j)'
    BY <1>4, <1>7 DEF Recording
  <1> QED
    BY <1>3, <1>4, <1>7, <1>9, <1>10

(* The outbox stays well formed when a worker's batch and the jobs do. *)
LEMMA OutboxFrame ==
  ASSUME OutboxInv, NEW w \in Workers,
         jobs' \in Seq(JobRecord), DOMAIN jobs' = DOMAIN jobs, Len(jobs') = Len(jobs),
         sends' \in Seq(Nat), Len(sends') = Len(sends), faults' \in 0 .. MaxFaults,
         worker' \in [Workers -> WorkerRecord], \A v \in Workers : v # w => worker'[v] = worker[v],
         \A i \in DOMAIN worker'[w].batch : worker'[w].batch[i].job \in DOMAIN jobs,
         \A i, k \in DOMAIN worker'[w].batch : worker'[w].batch[i].job = worker'[w].batch[k].job => i = k,
         worker'[w].batch = <<>> => worker'[w].at = "send"
  PROVE  OutboxInv'
  <1>1. ASSUME NEW v \in Workers
        PROVE  /\ \A i \in DOMAIN worker'[v].batch : worker'[v].batch[i].job \in DOMAIN jobs'
               /\ \A i, k \in DOMAIN worker'[v].batch :
                    worker'[v].batch[i].job = worker'[v].batch[k].job => i = k
               /\ worker'[v].batch = <<>> => worker'[v].at = "send"
    <2>1. CASE v = w
      BY <2>1
    <2>2. CASE v # w
      <3>1. worker'[v] = worker[v]
        BY <2>2
      <3> QED
        BY <3>1 DEF OutboxInv
    <2> QED
      BY <2>1, <2>2
  <1>2. Len(sends') = Len(jobs')
    BY DEF OutboxInv
  <1>3. \A v \in Workers : \A i \in DOMAIN worker'[v].batch : worker'[v].batch[i].job \in DOMAIN jobs'
    BY <1>1
  <1>4. \A v \in Workers : \A i, k \in DOMAIN worker'[v].batch :
          worker'[v].batch[i].job = worker'[v].batch[k].job => i = k
    BY <1>1
  <1>5. \A v \in Workers : worker'[v].batch = <<>> => worker'[v].at = "send"
    BY <1>1
  <1> QED
    BY <1>2, <1>3, <1>4, <1>5 DEF OutboxInv, WorkerRecord, JobRecord, ClaimRecord

(* A worker that is done with the first job of its batch keeps the shape   *)
(* of the outbox.                                                          *)
LEMMA AdvanceFrame ==
  ASSUME OutboxInv, NEW w \in Workers, worker[w].batch # <<>>, Advance(w),
         jobs' \in Seq(JobRecord), DOMAIN jobs' = DOMAIN jobs, Len(jobs') = Len(jobs),
         UNCHANGED sends, faults' \in 0 .. MaxFaults
  PROVE  OutboxInv'
  <1>1. /\ worker' \in [Workers -> WorkerRecord]
        /\ \A v \in Workers : v # w => worker'[v] = worker[v]
        /\ worker'[w].at = "send"
        /\ \A i \in DOMAIN worker'[w].batch :
             i \in Nat /\ i + 1 \in DOMAIN worker[w].batch /\ worker'[w].batch[i] = worker[w].batch[i + 1]
    BY AdvanceMoves
  <1>2. \A i \in DOMAIN worker'[w].batch : worker'[w].batch[i].job \in DOMAIN jobs
    BY <1>1 DEF OutboxInv
  <1>3. \A i, k \in DOMAIN worker'[w].batch : worker'[w].batch[i].job = worker'[w].batch[k].job => i = k
    <2> SUFFICES ASSUME NEW i \in DOMAIN worker'[w].batch, NEW k \in DOMAIN worker'[w].batch,
                        worker'[w].batch[i].job = worker'[w].batch[k].job
                 PROVE  i = k
      OBVIOUS
    <2>1. worker[w].batch[i + 1].job = worker[w].batch[k + 1].job
      BY <1>1
    <2>2. i + 1 = k + 1
      BY <1>1, <2>1 DEF OutboxInv
    <2> QED
      BY <1>1, <2>2
  <1>4. sends' \in Seq(Nat) /\ Len(sends') = Len(sends)
    BY DEF OutboxInv
  <1> QED
    BY <1>1, <1>2, <1>3, <1>4, OutboxFrame

-----------------------------------------------------------------------------
(* How often a job is sent.  While it is pending, every send is either a   *)
(* fault or still to be recorded by the worker that made it; afterwards    *)
(* nobody claims it any more, and only those that hold it unsent are left. *)
Recorders(j) == {w \in Workers : Recording(w, j)}
Senders(j) == {w \in Workers : ToSend(w, j)}
SendBound(j) ==
  /\ jobs[j].status = "pending" => sends[j] <= faults + Cardinality(Recorders(j))
  /\ jobs[j].status # "pending" => sends[j] + Cardinality(Senders(j)) <= Cardinality(Workers) + faults
SendInv == \A j \in DOMAIN jobs : SendBound(j)

(* Recorders and senders are finite, and no worker is both. *)
LEMMA HoldersCounted ==
  ASSUME OutboxInv, NEW j
  PROVE  /\ IsFiniteSet(Recorders(j)) /\ IsFiniteSet(Senders(j))
         /\ Cardinality(Recorders(j)) \in Nat /\ Cardinality(Senders(j)) \in Nat
         /\ Cardinality(Workers) \in Nat
         /\ Cardinality(Recorders(j)) + Cardinality(Senders(j)) <= Cardinality(Workers)
  <1>1. IsFiniteSet(Workers)
    BY OutboxAssumption
  <1>2. Recorders(j) \subseteq Workers /\ Senders(j) \subseteq Workers
    BY DEF Recorders, Senders
  <1>3. IsFiniteSet(Recorders(j)) /\ IsFiniteSet(Senders(j))
    BY <1>1, <1>2, FS_Subset
  <1>4. Recorders(j) \cap Senders(j) = {}
    <2> SUFFICES ASSUME NEW w \in Workers, Recording(w, j), ToSend(w, j)
                 PROVE  FALSE
      BY DEF Recorders, Senders
    <2>1. PICK i \in DOMAIN worker[w].batch : worker[w].batch[i].job = j /\ i # 1
      BY DEF Recording, ToSend
    <2>2. 1 \in DOMAIN worker[w].batch /\ worker[w].batch[1].job = j
      BY WorkerHolds DEF Recording
    <2> QED
      BY <2>1, <2>2 DEF OutboxInv
  <1>5. Cardinality(Recorders(j) \cup Senders(j)) =
          Cardinality(Recorders(j)) + Cardinality(Senders(j)) - Cardinality(Recorders(j) \cap Senders(j))
    BY <1>3, FS_Union
  <1>6. Cardinality(Recorders(j) \cap Senders(j)) = 0
    BY <1>4, FS_EmptySet
  <1>7. Cardinality(Recorders(j) \cup Senders(j)) <= Cardinality(Workers)
    BY <1>1, <1>2, FS_Subset
  <1>8. Cardinality(Recorders(j)) \in Nat /\ Cardinality(Senders(j)) \in Nat /\ Cardinality(Workers) \in Nat
    BY <1>1, <1>3, FS_CardinalityType
  <1> QED
    BY <1>3, <1>5, <1>6, <1>7, <1>8

(* Fewer senders, and at most one recorder less with every fault. *)
LEMMA HoldersFewer ==
  ASSUME OutboxInv, NEW j, NEW w \in Workers,
         \A v \in Workers : v # w => worker'[v] = worker[v]
  PROVE  /\ (ToSend(w, j)' => ToSend(w, j)) => Cardinality(Senders(j)') <= Cardinality(Senders(j))
         /\ (ToSend(w, j)' /\ ~ToSend(w, j)) => Cardinality(Senders(j)') = Cardinality(Senders(j)) + 1
         /\ (ToSend(w, j) /\ ~ToSend(w, j)') => Cardinality(Senders(j)') = Cardinality(Senders(j)) - 1
         /\ (Recording(w, j)' <=> Recording(w, j)) => Recorders(j)' = Recorders(j)
         /\ (Recording(w, j)' /\ ~Recording(w, j)) => Cardinality(Recorders(j)') = Cardinality(Recorders(j)) + 1
         /\ (Recording(w, j) /\ ~Recording(w, j)') => Cardinality(Recorders(j)') = Cardinality(Recorders(j)) - 1
         /\ Cardinality(Senders(j)') \in Nat /\ Cardinality(Recorders(j)') \in Nat
  <1>1. \A v \in Workers : v # w => (ToSend(v, j)' <=> ToSend(v, j)) /\ (Recording(v, j)' <=> Recording(v, j))
    BY DEF ToSend, Recording, Current
  <1>2. Senders(j)' \subseteq Workers /\ Recorders(j)' \subseteq Workers
    BY DEF Senders, Recorders
  <1>3. IsFiniteSet(Senders(j)) /\ IsFiniteSet(Recorders(j))
    BY HoldersCounted
  <1>4. IsFiniteSet(Senders(j)') /\ IsFiniteSet(Recorders(j)')
    BY <1>2, OutboxAssumption, FS_Subset
  <1>5. ASSUME ToSend(w, j)' => ToSend(w, j)
        PROVE  Cardinality(Senders(j)') <= Cardinality(Senders(j))
    <2>1. Senders(j)' \subseteq Senders(j)
      BY <1>1, <1>5 DEF Senders
    <2> QED
      BY <1>3, <2>1, FS_Subset
  <1>6. ASSUME ToSend(w, j)', ~ToSend(w, j)
        PROVE  Cardinality(Senders(j)') = Cardinality(Senders(j)) + 1
    <2>1. Senders(j)' = Senders(j) \cup {w} /\ w \notin Senders(j)
      BY <1>1, <1>6 DEF Senders
    <2> QED
      BY <1>3, <2>1, FS_AddElement
  <1>7. ASSUME ToSend(w, j), ~ToSend(w, j)'
        PROVE  Cardinality(Senders(j)') = Cardinality(Senders(j)) - 1
    <2>1. Senders(j)' = Senders(j) \ {w} /\ w \in Senders(j)
      BY <1>1, <1>7 DEF Senders
    <2> QED
      BY <1>3, <2>1, FS_RemoveElement
  <1>8. ASSUME Recording(w, j)' <=> Recording(w, j)
        PROVE  Recorders(j)' = Recorders(j)
    BY <1>1, <1>8 DEF Recorders
  <1>9. ASSUME Recording(w, j)', ~Recording(w, j)
        PROVE  Cardinality(Recorders(j)') = Cardinality(Recorders(j)) + 1
    <2>1. Recorders(j)' = Recorders(j) \cup {w} /\ w \notin Recorders(j)
      BY <1>1, <1>9 DEF Recorders
    <2> QED
      BY <1>3, <2>1, FS_AddElement
  <1>10. ASSUME Recording(w, j), ~Recording(w, j)'
         PROVE  Cardinality(Recorders(j)') = Cardinality(Recorders(j)) - 1
    <2>1. Recorders(j)' = Recorders(j) \ {w} /\ w \in Recorders(j)
      BY <1>1, <1>10 DEF Recorders
    <2> QED
      BY <1>3, <2>1, FS_RemoveElement
  <1>11. Cardinality(Senders(j)') \in Nat /\ Cardinality(Recorders(j)') \in Nat
    BY <1>4, FS_CardinalityType
  <1> QED
    BY <1>5, <1>6, <1>7, <1>8, <1>9, <1>10, <1>11

(* A worker leaves its current job: a fault, or an outcome of that job is  *)
(* recorded.                                                               *)
LEMMA LeavesBound ==
  ASSUME OutboxInv, SendInv, NEW w \in Workers, NEW j \in DOMAIN jobs,
         \A v \in Workers : v # w => worker'[v] = worker[v],
         ToSend(w, j)' => ToSend(w, j), ~Recording(w, j)',
         UNCHANGED sends, faults' \in Nat, faults <= faults',
         jobs[j].status # "pending" => jobs'[j].status # "pending",
         Recording(w, j) => faults' = faults + 1 \/ jobs'[j].status # "pending"
  PROVE  SendBound(j)'
  <1>1. /\ sends[j] \in Nat /\ faults \in Nat
        /\ SendBound(j)
    BY DEF OutboxInv, SendInv
  <1>2. /\ Cardinality(Recorders(j)) \in Nat /\ Cardinality(Senders(j)) \in Nat
        /\ Cardinality(Workers) \in Nat
        /\ Cardinality(Recorders(j)) + Cardinality(Senders(j)) <= Cardinality(Workers)
    BY HoldersCounted
  <1>3. /\ Cardinality(Senders(j)') <= Cardinality(Senders(j))
        /\ Cardinality(Senders(j)') \in Nat /\ Cardinality(Recorders(j)') \in Nat
        /\ Recording(w, j) => Cardinality(Recorders(j)') = Cardinality(Recorders(j)) - 1
        /\ ~Recording(w, j) => Cardinality(Recorders(j)') = Cardinality(Recorders(j))
    BY HoldersFewer
  <1>4. CASE jobs[j].status # "pending"
    BY <1>1, <1>2, <1>3, <1>4 DEF SendBound
  <1>5. CASE jobs[j].status = "pending" /\ jobs'[j].status = "pending"
    BY <1>1, <1>2, <1>3, <1>5 DEF SendBound
  <1>6. CASE jobs[j].status = "pending" /\ jobs'[j].status # "pending"
    BY <1>1, <1>2, <1>3, <1>6 DEF SendBound
  <1> QED
    BY <1>4, <1>5, <1>6

(* A claim: jobs that are pending now, each once. *)
LEMMA ClaimKeeps ==
  ASSUME OutboxInv, SendInv, NEW w \in Workers, ClaimPending(w)
  PROVE  OutboxInv' /\ SendInv'
  <1>0. PICK n \in 1 .. BatchLimit : \E batch \in [1 .. n -> DOMAIN jobs] :
          /\ Oldest(batch)
          /\ worker' = [worker EXCEPT ![w].batch =
               [i \in 1 .. n |-> [job |-> batch[i], attempts |-> jobs[batch[i]].attempts]]]
    BY DEF ClaimPending
  <1>1. PICK batch \in [1 .. n -> DOMAIN jobs] :
          /\ Oldest(batch)
          /\ worker' = [worker EXCEPT ![w].batch =
               [i \in 1 .. n |-> [job |-> batch[i], attempts |-> jobs[batch[i]].attempts]]]
    BY <1>0
  <1> DEFINE c == [i \in 1 .. n |-> [job |-> batch[i], attempts |-> jobs[batch[i]].attempts]]
             r == [worker[w] EXCEPT !.batch = c]
  <1>2. BatchLimit \in Nat /\ n \in Nat /\ n >= 1
    BY OutboxAssumption
  <1>3. worker[w].batch = <<>> /\ worker[w].at = "send" /\ worker[w] \in WorkerRecord
    BY WorkerHolds DEF ClaimPending, OutboxInv
  <1>4. \A i \in 1 .. n : batch[i] \in DOMAIN jobs /\ batch[i] \in Nat /\ Claimable(batch[i])
    <2>1. DOMAIN jobs \subseteq Nat
      BY DEF OutboxInv
    <2> QED
      BY <1>1, <2>1 DEF Oldest
  <1>5. \A i, k \in 1 .. n : batch[i] = batch[k] => i = k
    BY <1>1, <1>2, <1>4 DEF Oldest
  <1>6. \A i \in 1 .. n : c[i] \in ClaimRecord /\ c[i].job = batch[i]
    <2> TAKE i \in 1 .. n
    <2>1. jobs[batch[i]] \in JobRecord
      BY <1>4 DEF OutboxInv
    <2>2. jobs[batch[i]].attempts \in 0 .. MaxAttempts - 1
      BY <2>1 DEF JobRecord
    <2> QED
      BY <1>4, <2>2 DEF ClaimRecord
  <1>7. c \in Seq(ClaimRecord) /\ DOMAIN c = 1 .. n
    <2>1. c \in [1 .. n -> ClaimRecord]
      BY <1>6
    <2> QED
      BY <2>1, <1>2
  <1>8. c # <<>>
    BY <1>2, <1>7
  <1>9. worker' = [worker EXCEPT ![w] = r]
    BY <1>1
  <1> HIDE DEF c
  <1>10. r \in WorkerRecord /\ r.at = "send" /\ r.batch = c
    BY <1>3, <1>7 DEF WorkerRecord
  <1> HIDE DEF r
  <1>11. /\ worker' \in [Workers -> WorkerRecord] /\ worker'[w] = r
         /\ \A v \in Workers : v # w => worker'[v] = worker[v]
    BY <1>9, <1>10, WorkerChanges DEF OutboxInv
  <1>12. UNCHANGED <<jobs, sends, faults>>
    BY DEF ClaimPending
  <1>13. OutboxInv'
    <2>1. \A i \in DOMAIN worker'[w].batch : worker'[w].batch[i].job \in DOMAIN jobs
      BY <1>4, <1>6, <1>7, <1>10, <1>11
    <2>2. \A i, k \in DOMAIN worker'[w].batch : worker'[w].batch[i].job = worker'[w].batch[k].job => i = k
      BY <1>5, <1>6, <1>7, <1>10, <1>11
    <2>3. worker'[w].batch = <<>> => worker'[w].at = "send"
      BY <1>10, <1>11
    <2>4. /\ jobs' \in Seq(JobRecord) /\ DOMAIN jobs' = DOMAIN jobs /\ Len(jobs') = Len(jobs)
          /\ sends' \in Seq(Nat) /\ Len(sends') = Len(sends) /\ faults' \in 0 .. MaxFaults
      BY <1>12 DEF OutboxInv
    <2> QED
      BY <1>11, <2>1, <2>2, <2>3, <2>4, OutboxFrame
  <1>14. ASSUME NEW j \in DOMAIN jobs
         PROVE  SendBound(j)'
    <2>1. ~Recording(w, j) /\ ~Recording(w, j)'
      BY <1>3, <1>10, <1>11 DEF Recording
    <2>2. Recorders(j)' = Recorders(j)
      BY <1>11, <2>1, HoldersFewer
    <2>3. jobs[j].status # "pending" => ~ToSend(w, j)'
      <3> SUFFICES ASSUME jobs[j].status # "pending", ToSend(w, j)'
                   PROVE  FALSE
        OBVIOUS
      <3>1. PICK i \in DOMAIN c : c[i].job = j
        BY <1>10, <1>11 DEF ToSend
      <3>2. Claimable(j)
        BY <3>1, <1>4, <1>6, <1>7
      <3> QED
        BY <3>2 DEF Claimable
    <2>4. /\ jobs[j].status # "pending" => Cardinality(Senders(j)') <= Cardinality(Senders(j))
          /\ Cardinality(Senders(j)') \in Nat
      BY <1>11, <2>3, HoldersFewer
    <2>5. SendBound(j) /\ sends[j] \in Nat /\ faults \in Nat
      BY DEF SendInv, OutboxInv
    <2>6. Cardinality(Senders(j)) \in Nat /\ Cardinality(Workers) \in Nat
      BY HoldersCounted
    <2> QED
      BY <1>12, <2>2, <2>4, <2>5, <2>6 DEF SendBound
  <1> QED
    BY <1>12, <1>13, <1>14 DEF SendInv

(* A send: one more, and its worker has to record it. *)
LEMMA SendKeeps ==
  ASSUME OutboxInv, SendInv, NEW w \in Workers, Send(w)
  PROVE  OutboxInv' /\ SendInv'
  <1> DEFINE j0 == Current(w).job
             b == worker[w].batch
             r == [worker[w] EXCEPT !.at = "mark"]
  <1>1. /\ worker[w] \in WorkerRecord /\ b \in Seq(ClaimRecord) /\ b # <<>> /\ worker[w].at = "send"
        /\ 1 \in DOMAIN b /\ Current(w) = b[1] /\ j0 \in DOMAIN jobs
    BY WorkerHolds DEF Send
  <1>2. r \in WorkerRecord /\ r.at = "mark" /\ r.batch = b
    BY <1>1 DEF WorkerRecord
  <1>3. worker' = [worker EXCEPT ![w] = r]
    BY DEF Send
  <1> HIDE DEF r
  <1>4. /\ worker' \in [Workers -> WorkerRecord] /\ worker'[w] = r
        /\ \A v \in Workers : v # w => worker'[v] = worker[v]
    BY <1>2, <1>3, WorkerChanges DEF OutboxInv
  <1>5. UNCHANGED <<jobs, faults>> /\ sends' = [sends EXCEPT ![j0] = @ + 1]
    BY DEF Send
  <1>6. DOMAIN sends = DOMAIN jobs /\ sends \in Seq(Nat)
    BY DEF OutboxInv
  <1>7. /\ sends' \in Seq(Nat) /\ Len(sends') = Len(sends)
        /\ sends'[j0] = sends[j0] + 1 /\ \A j \in DOMAIN jobs : j # j0 => sends'[j] = sends[j]
    <2> HIDE DEF j0
    <2> QED
      BY <1>1, <1>5, <1>6
  <1>8. OutboxInv'
    <2>1. \A i \in DOMAIN worker'[w].batch : worker'[w].batch[i].job \in DOMAIN jobs
      BY <1>2, <1>4 DEF OutboxInv
    <2>2. \A i, k \in DOMAIN worker'[w].batch : worker'[w].batch[i].job = worker'[w].batch[k].job => i = k
      BY <1>2, <1>4 DEF OutboxInv
    <2>3. worker'[w].batch = <<>> => worker'[w].at = "send"
      BY <1>1, <1>2, <1>4
    <2>4. /\ jobs' \in Seq(JobRecord) /\ DOMAIN jobs' = DOMAIN jobs /\ Len(jobs') = Len(jobs)
          /\ faults' \in 0 .. MaxFaults
      BY <1>5 DEF OutboxInv
    <2> QED
      BY <1>4, <1>7, <2>1, <2>2, <2>3, <2>4, OutboxFrame
  <1>9. ASSUME NEW j \in DOMAIN jobs
        PROVE  SendBound(j)'
    <2>1. SendBound(j) /\ sends[j] \in Nat /\ faults \in Nat
      BY <1>6 DEF SendInv, OutboxInv
    <2>2. /\ Cardinality(Senders(j)) \in Nat /\ Cardinality(Workers) \in Nat
          /\ Cardinality(Recorders(j)) \in Nat
      BY HoldersCounted
    <2>3. \A i, k \in DOMAIN b : b[i].job = b[k].job => i = k
      BY DEF OutboxInv
    <2>4. ~Recording(w, j) /\ (Recording(w, j)' <=> j = j0)
      BY <1>1, <1>2, <1>4 DEF Recording, Current
    <2>5. CASE j = j0
      <3>1. ToSend(w, j)
        BY <1>1, <2>5 DEF ToSend
      <3>2. ~ToSend(w, j)'
        BY <1>1, <1>2, <1>4, <2>3, <2>5 DEF ToSend
      <3>3. /\ Cardinality(Senders(j)') = Cardinality(Senders(j)) - 1
            /\ Cardinality(Recorders(j)') = Cardinality(Recorders(j)) + 1
            /\ Cardinality(Senders(j)') \in Nat
        BY <1>4, <2>4, <2>5, <3>1, <3>2, HoldersFewer
      <3>4. sends'[j] = sends[j] + 1
        BY <1>7, <2>5
      <3> QED
        BY <1>5, <2>1, <2>2, <3>3, <3>4 DEF SendBound
    <2>6. CASE j # j0
      <3>1. ToSend(w, j)' => ToSend(w, j)
        BY <1>1, <1>2, <1>4 DEF ToSend
      <3>2. /\ Cardinality(Senders(j)') <= Cardinality(Senders(j))
            /\ Recorders(j)' = Recorders(j) /\ Cardinality(Senders(j)') \in Nat
        BY <1>4, <2>4, <2>6, <3>1, HoldersFewer
      <3>3. sends'[j] = sends[j]
        BY <1>7, <2>6
      <3> QED
        BY <1>5, <2>1, <2>2, <3>2, <3>3 DEF SendBound
    <2> QED
      BY <2>5, <2>6
  <1> QED
    BY <1>5, <1>8, <1>9 DEF SendInv

(* The outcome of a job is recorded, and the worker goes on to the next. *)
LEMMA OutcomeKeeps ==
  ASSUME OutboxInv, SendInv, NEW w \in Workers, worker[w].batch # <<>>, Advance(w),
         NEW r \in JobRecord, jobs' = [jobs EXCEPT ![Current(w).job] = r],
         jobs[Current(w).job].status # "pending" => r.status # "pending",
         worker[w].at = "mark" => r.status # "pending",
         UNCHANGED <<sends, faults>>
  PROVE  OutboxInv' /\ SendInv'
  <1> DEFINE j0 == Current(w).job
  <1>1. j0 \in DOMAIN jobs
    BY WorkerHolds
  <1>2. /\ jobs' \in Seq(JobRecord) /\ DOMAIN jobs' = DOMAIN jobs /\ Len(jobs') = Len(jobs)
        /\ jobs'[j0] = r /\ \A m \in DOMAIN jobs : m # j0 => jobs'[m] = jobs[m]
    BY <1>1, JobChanges DEF OutboxInv
  <1>3. faults' \in 0 .. MaxFaults /\ faults \in Nat
    BY DEF OutboxInv
  <1>4. OutboxInv'
    BY <1>2, <1>3, AdvanceFrame
  <1>5. ASSUME NEW j \in DOMAIN jobs
        PROVE  SendBound(j)'
    <2>1. /\ \A v \in Workers : v # w => worker'[v] = worker[v]
          /\ ToSend(w, j)' => ToSend(w, j)
          /\ ~Recording(w, j)'
      BY AdvanceMoves
    <2>2. Recording(w, j) => jobs'[j].status # "pending"
      BY <1>2 DEF Recording
    <2>3. jobs[j].status # "pending" => jobs'[j].status # "pending"
      BY <1>2
    <2> QED
      BY <1>3, <2>1, <2>2, <2>3, LeavesBound
  <1> QED
    BY <1>2, <1>4, <1>5 DEF SendInv

(* Recording that a mail was sent or failed (mark_sent, mark_retry,        *)
(* mark_failed) keeps both invariants.                                     *)
LEMMA RecordKeeps ==
  ASSUME OutboxInv, SendInv, NEW w \in Workers,
         MarkSent(w) \/ \E retryable \in BOOLEAN : SendFails(w, retryable)
  PROVE  OutboxInv' /\ SendInv'
  <1> DEFINE j0 == Current(w).job
             q == jobs[j0]
  <1>1. worker[w].batch # <<>> /\ Advance(w) /\ UNCHANGED <<sends, faults>>
    BY DEF MarkSent, SendFails
  <1>2. j0 \in DOMAIN jobs /\ Current(w).attempts \in 0 .. MaxAttempts - 1 /\ MaxAttempts \in Nat
    BY <1>1, WorkerHolds, OutboxAssumption
  <1>3. q \in JobRecord
    BY <1>2 DEF OutboxInv
  <1>4. jobs \in Seq(JobRecord)
    BY DEF OutboxInv
  <1>5. CASE MarkSent(w)
    <2> DEFINE r == [q EXCEPT !.status = "sent"]
    <2>1. r \in JobRecord /\ r.status # "pending"
      BY <1>3 DEF JobRecord
    <2>2. jobs' = [jobs EXCEPT ![j0] = r]
      BY <1>5 DEF MarkSent
    <2> HIDE DEF r
    <2> QED
      BY <1>1, <2>1, <2>2, OutcomeKeeps
  <1>6. ASSUME NEW retryable \in BOOLEAN, SendFails(w, retryable)
        PROVE  OutboxInv' /\ SendInv'
    <2>1. CASE retryable /\ Current(w).attempts + 1 < MaxAttempts
      <3> DEFINE r == [q EXCEPT !.attempts = Current(w).attempts + 1, !.due = FALSE]
      <3>1. Current(w).attempts + 1 \in 0 .. MaxAttempts - 1
        BY <1>2, <2>1
      <3>2. r \in JobRecord /\ r.status = q.status
        BY <1>3, <3>1 DEF JobRecord
      <3>3. jobs' = [jobs EXCEPT ![j0] = r]
        BY <1>6, <2>1, <1>2, <1>4 DEF SendFails, MarkRetry
      <3>4. worker[w].at = "send"
        BY <1>6 DEF SendFails
      <3> HIDE DEF r
      <3> QED
        BY <1>1, <3>2, <3>3, <3>4, OutcomeKeeps
    <2>2. CASE ~(retryable /\ Current(w).attempts + 1 < MaxAttempts)
      <3> DEFINE r == [q EXCEPT !.status = "failed"]
      <3>1. r \in JobRecord /\ r.status # "pending"
        BY <1>3 DEF JobRecord
      <3>2. jobs' = [jobs EXCEPT ![j0] = r]
        BY <1>6, <2>2 DEF SendFails, MarkFailed
      <3> HIDE DEF r
      <3> QED
        BY <1>1, <3>1, <3>2, OutcomeKeeps
    <2> QED
      BY <2>1, <2>2
  <1> QED
    BY <1>5, <1>6

(* A fault. *)
LEMMA FaultKeeps ==
  ASSUME OutboxInv, SendInv, NEW w \in Workers, MarkLost(w) \/ Crash(w)
  PROVE  OutboxInv' /\ SendInv'
  <1>1. UNCHANGED <<jobs, sends>> /\ faults' = faults + 1 /\ faults < MaxFaults
    BY DEF MarkLost, Crash
  <1>2. faults \in Nat /\ faults' \in 0 .. MaxFaults /\ faults' \in Nat /\ faults <= faults'
    BY <1>1, OutboxAssumption DEF OutboxInv
  <1>3. ASSUME \A v \in Workers : v # w => worker'[v] = worker[v],
               \A j : (ToSend(w, j)' => ToSend(w, j)) /\ ~Recording(w, j)'
        PROVE  SendInv'
    <2>1. ASSUME NEW j \in DOMAIN jobs
          PROVE  SendBound(j)'
      BY <1>1, <1>2, <1>3, LeavesBound
    <2> QED
      BY <1>1, <2>1 DEF SendInv
  <1>4. CASE MarkLost(w)
    <2>1. worker[w].batch # <<>> /\ Advance(w)
      BY <1>4 DEF MarkLost
    <2>2. jobs' \in Seq(JobRecord) /\ DOMAIN jobs' = DOMAIN jobs /\ Len(jobs') = Len(jobs)
      BY <1>1 DEF OutboxInv
    <2>3. OutboxInv'
      BY <1>1, <1>2, <2>1, <2>2, AdvanceFrame
    <2> QED
      BY <1>3, <2>1, <2>3, AdvanceMoves
  <1>5. CASE Crash(w)
    <2>1. Asleep \in WorkerRecord /\ Asleep.at = "send" /\ Asleep.batch = <<>>
      BY DEF Asleep, WorkerRecord
    <2>2. worker' = [worker EXCEPT ![w] = Asleep]
      BY <1>5 DEF Crash
    <2>3. /\ worker' \in [Workers -> WorkerRecord] /\ worker'[w] = Asleep
          /\ \A v \in Workers : v # w => worker'[v] = worker[v]
      BY <2>1, <2>2, WorkerChanges DEF OutboxInv
    <2>4. DOMAIN worker'[w].batch = {}
      BY <2>1, <2>3
    <2>5. OutboxInv'
      <3>1. /\ jobs' \in Seq(JobRecord) /\ DOMAIN jobs' = DOMAIN jobs /\ Len(jobs') = Len(jobs)
            /\ sends' \in Seq(Nat) /\ Len(sends') = Len(sends)
        BY <1>1 DEF OutboxInv
      <3> QED
        BY <1>2, <2>1, <2>3, <2>4, <3>1, OutboxFrame
    <2>6. \A j : ~ToSend(w, j)' /\ ~Recording(w, j)'
      BY <2>1, <2>3, <2>4 DEF ToSend, Recording
    <2> QED
      BY <1>3, <2>3, <2>5, <2>6
  <1> QED
    BY <1>4, <1>5

(* Nothing about the workers changes, and no job's status does. *)
LEMMA SendFrame ==
  ASSUME OutboxInv, SendInv, UNCHANGED <<worker, faults>>,
         NEW j \in DOMAIN jobs, jobs'[j].status = jobs[j].status, sends'[j] = sends[j]
  PROVE  SendBound(j)'
  <1>1. SendBound(j)
    BY DEF SendInv
  <1>2. Recorders(j)' = Recorders(j) /\ Senders(j)' = Senders(j)
    BY DEF Recorders, Senders, Recording, ToSend, Current
  <1> QED
    BY <1>1, <1>2 DEF SendBound

(* The end of a backoff keeps both invariants. *)
LEMMA BackoffKeeps ==
  ASSUME OutboxInv, SendInv, NEW j \in DOMAIN jobs, BackoffOver(j)
  PROVE  OutboxInv' /\ SendInv'
  <1> DEFINE r == [jobs[j] EXCEPT !.due = TRUE]
  <1>1. jobs[j] \in JobRecord /\ jobs \in Seq(JobRecord)
    BY DEF OutboxInv
  <1>2. r \in JobRecord /\ r.status = jobs[j].status
    BY <1>1 DEF JobRecord
  <1>3. jobs' = [jobs EXCEPT ![j] = r]
    BY DEF BackoffOver
  <1> HIDE DEF r
  <1>4. /\ jobs' \in Seq(JobRecord) /\ DOMAIN jobs' = DOMAIN jobs /\ Len(jobs') = Len(jobs)
        /\ jobs'[j] = r /\ \A m \in DOMAIN jobs : m # j => jobs'[m] = jobs[m]
    BY <1>1, <1>2, <1>3, JobChanges
  <1>5. UNCHANGED <<worker, sends, faults>>
    BY DEF BackoffOver
  <1>6. OutboxInv'
    BY <1>4, <1>5 DEF OutboxInv, WorkerRecord, ClaimRecord, JobRecord
  <1>7. \A m \in DOMAIN jobs : jobs'[m].status = jobs[m].status
    BY <1>2, <1>4
  <1> QED
    BY <1>4, <1>5, <1>6, <1>7, SendFrame DEF SendInv

(* A new job has been sent zero times. *)
LEMMA EnqueueKeeps ==
  ASSUME OutboxInv, SendInv, NEW t \in Nat, NEW c \in Flows \cup {NoCorrelation}, Enqueue(t, c),
         UNCHANGED <<worker, faults>>
  PROVE  OutboxInv' /\ SendInv'
  <1> DEFINE r == [link |-> t, correlation |-> c, status |-> "pending", attempts |-> 0, due |-> TRUE]
  <1>1. CASE UNCHANGED <<jobs, sends>>
    <2>1. OutboxInv'
      BY <1>1 DEF OutboxInv, WorkerRecord, ClaimRecord, JobRecord
    <2> QED
      BY <1>1, <2>1, SendFrame DEF SendInv
  <1>2. CASE jobs' = Append(jobs, r) /\ sends' = Append(sends, 0)
    <2>1. MaxAttempts \in Nat \ {0}
      BY OutboxAssumption
    <2>2. r \in JobRecord /\ r.status = "pending"
      BY <2>1 DEF JobRecord
    <2>3. jobs \in Seq(JobRecord) /\ sends \in Seq(Nat) /\ Len(sends) = Len(jobs)
      BY DEF OutboxInv
    <2> HIDE DEF r
    <2>4. /\ jobs' \in Seq(JobRecord) /\ sends' \in Seq(Nat) /\ Len(sends') = Len(jobs')
          /\ \A m \in DOMAIN jobs : m \in DOMAIN jobs' /\ jobs'[m] = jobs[m] /\ sends'[m] = sends[m]
          /\ \A m \in DOMAIN jobs' : m \in DOMAIN jobs \/ m = Len(jobs) + 1
          /\ jobs'[Len(jobs) + 1] = r /\ sends'[Len(jobs) + 1] = 0
      BY <1>2, <2>2, <2>3
    <2>5. OutboxInv'
      <3>1. \A w \in Workers : \A i \in DOMAIN worker[w].batch : worker[w].batch[i].job \in DOMAIN jobs'
        BY <2>4 DEF OutboxInv
      <3> QED
        BY <2>4, <3>1 DEF OutboxInv, WorkerRecord, ClaimRecord, JobRecord
    <2>6. ASSUME NEW m \in DOMAIN jobs'
          PROVE  SendBound(m)'
      <3>1. CASE m \in DOMAIN jobs
        BY <2>4, <3>1, SendFrame
      <3>2. CASE m = Len(jobs) + 1
        <4>1. jobs'[m].status = "pending" /\ sends'[m] = 0
          BY <2>2, <2>4, <3>2
        <4>2. Cardinality(Recorders(m)') \in Nat
          <5>1. Recorders(m)' \subseteq Workers
            BY DEF Recorders
          <5> QED
            BY <5>1, OutboxAssumption, FS_Subset, FS_CardinalityType
        <4>3. faults' \in Nat
          BY DEF OutboxInv
        <4> QED
          BY <4>1, <4>2, <4>3 DEF SendBound
      <3> QED
        BY <2>4, <3>1, <3>2
    <2> QED
      BY <2>5, <2>6 DEF SendInv
  <1> QED
    BY <1>1, <1>2 DEF Enqueue

(* Every step of the workers keeps the invariants of the outbox. *)
LEMMA DeliverKeeps ==
  ASSUME OutboxInv, SendInv, Deliver
  PROVE  OutboxInv' /\ SendInv'
  <1>1. CASE \E w \in Workers : Work(w) \/ MarkLost(w) \/ Crash(w)
    BY <1>1, ClaimKeeps, SendKeeps, RecordKeeps, FaultKeeps DEF Work
  <1>2. CASE \E j \in DOMAIN jobs : BackoffOver(j)
    BY <1>2, BackoffKeeps
  <1> QED
    BY <1>1, <1>2 DEF Deliver

(* The bound itself. *)
LEMMA SendInvGives ==
  ASSUME OutboxInv, SendInv
  PROVE  DuplicatesBounded
  <1> SUFFICES ASSUME NEW j \in DOMAIN sends
               PROVE  sends[j] <= Cardinality(Workers) + faults
    BY DEF DuplicatesBounded
  <1>1. j \in DOMAIN jobs /\ sends[j] \in Nat /\ faults \in Nat
    BY DEF OutboxInv
  <1>2. /\ Cardinality(Recorders(j)) \in Nat /\ Cardinality(Senders(j)) \in Nat
        /\ Cardinality(Workers) \in Nat
        /\ Cardinality(Recorders(j)) + Cardinality(Senders(j)) <= Cardinality(Workers)
    BY HoldersCounted
  <1>3. SendBound(j)
    BY <1>1 DEF SendInv
  <1> QED
    BY <1>1, <1>2, <1>3 DEF SendBound

-----------------------------------------------------------------------------
(* One call at a time can complete a registration.                         *)

(* Call k can still issue the token of flow f, or move it on. *)
Drives(k, f) == call[k].at \in {"issue", "find", "update"} /\ call[k].flow = f
Issues(k, f) == call[k].at = "issue" /\ call[k].flow = f

(* A flow has one token at most and one driver at most: while its token is *)
(* unused there is none, and what it drives is not yet completed.          *)
OneDriver(f) ==
  /\ flows[f].version \in {0, 1}
  /\ \A k \in Calls : Drives(k, f) => flows[f].state # "absent" /\ flows[f].version = 0
  /\ \A k, m \in Calls : Drives(k, f) /\ Drives(m, f) => k = m
  /\ \A i \in DOMAIN tokens : tokens[i].flow = f =>
       /\ flows[f].state # "absent"
       /\ ~tokens[i].used => flows[f].version = 0 /\ \A k \in Calls : ~Drives(k, f)
  /\ \A i, m \in DOMAIN tokens : tokens[i].flow = f /\ tokens[m].flow = f => i = m
  /\ \A k \in Calls : Issues(k, f) => \A i \in DOMAIN tokens : tokens[i].flow # f

(* A flow keeps its one driver when neither it, its tokens nor the calls   *)
(* that hold it change.                                                    *)
LEMMA DriverFrame ==
  ASSUME NEW f \in Flows, OneDriver(f),
         flows'[f].state = flows[f].state, flows'[f].version = flows[f].version,
         \A i \in DOMAIN tokens' : \/ tokens'[i].flow # f
                                   \/ /\ i \in DOMAIN tokens /\ tokens'[i].flow = tokens[i].flow
                                      /\ ~tokens'[i].used => ~tokens[i].used,
         \A k \in Calls : (Drives(k, f)' => Drives(k, f)) /\ (Issues(k, f)' => Issues(k, f))
  PROVE  OneDriver(f)'
  BY DEF OneDriver

(* A call moves to a state that drives nothing. *)
LEMMA CallEnds ==
  ASSUME call \in [Calls -> CallState], NEW k \in Calls, NEW s \in CallState, MoveCall(k, s),
         s.at \notin {"issue", "find", "update"}, NEW f
  PROVE  /\ \A m \in Calls : (Drives(m, f)' => Drives(m, f)) /\ (Issues(m, f)' => Issues(m, f))
         /\ ~Drives(k, f)'
         /\ \A m \in Calls : m # k => (Drives(m, f)' <=> Drives(m, f)) /\ (Issues(m, f)' <=> Issues(m, f))
  <1>1. call'[k] = s /\ \A m \in Calls : m # k => call'[m] = call[m]
    BY GotoMoves
  <1> QED
    BY <1>1 DEF Drives, Issues

(* A token is issued for flow f, or for none. *)
LEMMA IssueKeeps ==
  ASSUME TypeInv, \A f \in Flows : OneDriver(f), NEW k \in Calls, NEW g \in Flows \cup {NoFlow},
         IssueToken(k, g), g \in Flows => Issues(k, g)
  PROVE  /\ \A f \in Flows : OneDriver(f)'
         /\ tokens' \in Seq(TokenRecord) /\ call' \in [Calls -> CallState]
         /\ DOMAIN tokens \subseteq DOMAIN tokens'
         /\ \A m \in Calls : call'[m].at = "enqueue" => call'[m].token \in DOMAIN tokens'
  <1> DEFINE n == Len(tokens) + 1
             s == [at |-> "enqueue", token |-> n, correlation |-> IF g = NoFlow THEN NoCorrelation ELSE g]
  <1>1. tokens \in Seq(TokenRecord) /\ call \in [Calls -> CallState] /\ Grows(g) /\ MoveCall(k, s)
    BY DEF TypeInv, IssueToken, Grows
  <1>2. /\ tokens' \in Seq(TokenRecord) /\ Len(tokens) \in Nat
        /\ DOMAIN tokens = 1 .. Len(tokens) /\ DOMAIN tokens' = 1 .. n
        /\ \A i \in DOMAIN tokens : i \in DOMAIN tokens' /\ tokens'[i] = tokens[i]
        /\ \A i \in DOMAIN tokens' : i \in DOMAIN tokens \/ i = n
        /\ tokens'[n].flow = g /\ ~tokens'[n].used
    BY <1>1, TokenAdded
  <1>3. s \in CallState /\ s.at = "enqueue" /\ s.token = n
    <2>1. n \in Nat /\ (IF g = NoFlow THEN NoCorrelation ELSE g) \in Flows \cup {NoCorrelation}
      BY <1>2
    <2> QED
      BY <2>1, CallStates
  <1> HIDE DEF s
  <1>4. /\ call' \in [Calls -> CallState] /\ call'[k] = s
        /\ \A m \in Calls : m # k => call'[m] = call[m]
    BY <1>1, <1>3, GotoMoves
  <1>5. \A m \in Calls : call'[m].at = "enqueue" => call'[m].token \in DOMAIN tokens'
    BY <1>2, <1>3, <1>4 DEF TypeInv
  <1>6. UNCHANGED flows
    BY DEF IssueToken
  <1>7. s.at \notin {"issue", "find", "update"}
    BY <1>3
  <1>8. ASSUME NEW f \in Flows
        PROVE  OneDriver(f)'
    <2>1. /\ \A m \in Calls : (Drives(m, f)' => Drives(m, f)) /\ (Issues(m, f)' => Issues(m, f))
          /\ ~Drives(k, f)'
      BY <1>1, <1>3, <1>7, CallEnds
    <2>2. OneDriver(f)
      OBVIOUS
    <2>3. CASE f # g
      BY <1>2, <1>6, <2>1, <2>2, <2>3, DriverFrame
    <2>4. CASE f = g
      <3>1. Issues(k, f) /\ Drives(k, f)
        BY <2>4 DEF Issues, Drives
      <3>2. \A m \in Calls : ~Drives(m, f)' /\ ~Issues(m, f)'
        BY <2>1, <2>2, <3>1 DEF OneDriver, Drives, Issues
      <3>3. \A i \in DOMAIN tokens : tokens[i].flow # f
        BY <2>2, <3>1 DEF OneDriver
      <3>4. flows'[f].state # "absent" /\ flows'[f].version = 0
        BY <1>6, <2>2, <3>1 DEF OneDriver
      <3>5. \A i \in DOMAIN tokens' : tokens'[i].flow = f => i = n
        BY <1>2, <3>3
      <3> QED
        BY <3>2, <3>4, <3>5 DEF OneDriver
    <2> QED
      BY <2>3, <2>4
  <1> QED
    BY <1>2, <1>4, <1>5, <1>8

(* A flow that start_registration creates has no token yet and no driver. *)
LEMMA StartFlowKeeps ==
  ASSUME TypeInv, \A f \in Flows : OneDriver(f), NEW k \in Calls, NEW g \in Flows, StartFlow(k, g)
  PROVE  /\ \A f \in Flows : OneDriver(f)'
         /\ flows' \in [Flows -> FlowRecord] /\ call' \in [Calls -> CallState]
         /\ \A m \in Calls : call'[m].at = "enqueue" => call'[m].token \in DOMAIN tokens'
  <1> DEFINE r == [flows[g] EXCEPT !.state = "EmailVerificationPending"]
             s == [at |-> "issue", flow |-> g]
  <1>1. /\ flows \in [Flows -> FlowRecord] /\ call \in [Calls -> CallState] /\ UNCHANGED tokens
        /\ flows[g] = Absent /\ MoveCall(k, s) /\ call[k] = Idle
    BY DEF TypeInv, StartFlow
  <1>2. r \in FlowRecord /\ r.state = "EmailVerificationPending" /\ r.version = 0
    <2>1. flows[g] \in FlowRecord
      BY <1>1
    <2>2. flows[g].version = 0
      BY <1>1 DEF Absent
    <2> QED
      BY <2>1, <2>2 DEF FlowRecord
  <1>3. flows' = [flows EXCEPT ![g] = r]
    BY DEF StartFlow
  <1> HIDE DEF r
  <1>4. flows' \in [Flows -> FlowRecord] /\ flows'[g] = r /\ \A f \in Flows : f # g => flows'[f] = flows[f]
    BY <1>1, <1>2, <1>3, FlowChanges
  <1>5. s \in CallState /\ s.at = "issue" /\ s.flow = g
    BY CallStates
  <1> HIDE DEF s
  <1>6. /\ call' \in [Calls -> CallState] /\ call'[k] = s
        /\ \A m \in Calls : m # k => call'[m] = call[m]
    BY <1>1, <1>5, GotoMoves
  <1>7. \A m \in Calls : call'[m].at = "enqueue" => call'[m].token \in DOMAIN tokens'
    BY <1>1, <1>5, <1>6 DEF TypeInv
  <1>8. ASSUME NEW f \in Flows
        PROVE  OneDriver(f)'
    <2>1. OneDriver(f)
      OBVIOUS
    <2>2. CASE f # g
      <3>1. \A m \in Calls : (Drives(m, f)' => Drives(m, f)) /\ (Issues(m, f)' => Issues(m, f))
        BY <1>5, <1>6, <2>2 DEF Drives, Issues
      <3> QED
        BY <1>1, <1>4, <2>1, <2>2, <3>1, DriverFrame
    <2>3. CASE f = g
      <3>1. flows[f].state = "absent"
        BY <1>1, <2>3 DEF Absent
      <3>2. /\ \A m \in Calls : ~Drives(m, f)
            /\ \A i \in DOMAIN tokens : tokens[i].flow # f
        BY <2>1, <3>1 DEF OneDriver
      <3>3. \A m \in Calls : Drives(m, f)' => m = k
        BY <1>6, <3>2 DEF Drives
      <3> QED
        BY <1>1, <1>2, <1>4, <2>3, <3>2, <3>3 DEF OneDriver
    <2> QED
      BY <2>2, <2>3
  <1> QED
    BY <1>4, <1>6, <1>7, <1>8

(* Consuming a token makes the call the driver of the flow in place of     *)
(* the token.                                                              *)
LEMMA ConsumeKeeps ==
  ASSUME TypeInv, \A f \in Flows : OneDriver(f), NEW k \in Calls, NEW i \in DOMAIN tokens, Consume(k, i)
  PROVE  /\ \A f \in Flows : OneDriver(f)'
         /\ tokens' \in Seq(TokenRecord) /\ call' \in [Calls -> CallState]
         /\ DOMAIN tokens' = DOMAIN tokens
         /\ \A m \in Calls : call'[m].at = "enqueue" => call'[m].token \in DOMAIN tokens'
  <1> DEFINE g == tokens[i].flow
  <1>1. /\ tokens \in Seq(TokenRecord) /\ call \in [Calls -> CallState] /\ UNCHANGED flows
        /\ ~tokens[i].used /\ tokens' = [tokens EXCEPT ![i].used = TRUE]
    BY DEF TypeInv, Consume
  <1>2. tokens' = [m \in DOMAIN tokens |-> IF m \in {i} THEN [tokens[m] EXCEPT !.used = TRUE] ELSE tokens[m]]
    BY <1>1
  <1>3. /\ tokens' \in Seq(TokenRecord) /\ DOMAIN tokens' = DOMAIN tokens
        /\ \A m \in DOMAIN tokens : /\ tokens'[m].flow = tokens[m].flow
                                    /\ tokens'[m].used <=> tokens[m].used \/ m \in {i}
    <2>1. {i} \in SUBSET DOMAIN tokens
      OBVIOUS
    <2> QED
      BY <1>1, <1>2, <2>1, TokensMarked
  <1>4. tokens[i] \in TokenRecord /\ g \in Flows \cup {NoFlow}
    <2>1. tokens[i] \in TokenRecord
      BY <1>1
    <2> QED
      BY <2>1 DEF TokenRecord
  <1>5. CASE g = NoFlow
    <2>1. UNCHANGED call
      BY <1>5 DEF Consume
    <2>2. ASSUME NEW f \in Flows
          PROVE  OneDriver(f)'
      <3>1. \A m \in Calls : (Drives(m, f)' => Drives(m, f)) /\ (Issues(m, f)' => Issues(m, f))
        BY <2>1 DEF Drives, Issues
      <3>2. OneDriver(f)
        OBVIOUS
      <3> QED
        BY <1>1, <1>3, <3>1, <3>2, DriverFrame
    <2> QED
      BY <1>1, <1>3, <2>1, <2>2 DEF TypeInv
  <1>6. CASE g \in Flows
    <2> DEFINE s == [at |-> "find", flow |-> g]
    <2>1. MoveCall(k, s)
      BY <1>6, RegistrationAssumption DEF Consume
    <2>2. s \in CallState /\ s.at = "find" /\ s.flow = g
      BY <1>6, CallStates
    <2> HIDE DEF s
    <2>3. /\ call' \in [Calls -> CallState] /\ call'[k] = s
          /\ \A m \in Calls : m # k => call'[m] = call[m]
      BY <1>1, <2>1, <2>2, GotoMoves
    <2>4. \A m \in Calls : call'[m].at = "enqueue" => call'[m].token \in DOMAIN tokens'
      BY <1>3, <2>2, <2>3 DEF TypeInv
    <2>5. ASSUME NEW f \in Flows
          PROVE  OneDriver(f)'
      <3>1. OneDriver(f)
        OBVIOUS
      <3>2. CASE f # g
        <4>1. \A m \in Calls : (Drives(m, f)' => Drives(m, f)) /\ (Issues(m, f)' => Issues(m, f))
          BY <2>2, <2>3, <3>2 DEF Drives, Issues
        <4> QED
          BY <1>1, <1>3, <3>1, <4>1, DriverFrame
      <3>3. CASE f = g
        <4>1. /\ flows[f].state # "absent" /\ flows[f].version = 0 /\ \A m \in Calls : ~Drives(m, f)
              /\ \A m \in DOMAIN tokens : tokens[m].flow = f => m = i
          BY <1>1, <3>1, <3>3 DEF OneDriver
        <4>2. \A m \in Calls : (Drives(m, f)' => m = k) /\ ~Issues(m, f)'
          BY <2>2, <2>3, <4>1 DEF Drives, Issues
        <4> QED
          BY <1>1, <1>3, <4>1, <4>2 DEF OneDriver
      <3> QED
        BY <3>2, <3>3
    <2> QED
      BY <1>3, <2>3, <2>4, <2>5
  <1> QED
    BY <1>4, <1>5, <1>6

(* update_state moves the flow of the call that drives it, and of no       *)
(* other.                                                                  *)
LEMMA UpdateKeeps ==
  ASSUME TypeInv, \A f \in Flows : OneDriver(f), NEW k \in Calls, UpdateState(k)
  PROVE  /\ \A f \in Flows : OneDriver(f)'
         /\ flows' \in [Flows -> FlowRecord] /\ call' \in [Calls -> CallState]
         /\ \A m \in Calls : call'[m].at = "enqueue" => call'[m].token \in DOMAIN tokens'
  <1> DEFINE g == call[k].flow
             s == [at |-> "complete", flow |-> g]
             r == [flows[g] EXCEPT !.state = "Completed", !.version = flows[g].version + 1]
  <1>1. /\ flows \in [Flows -> FlowRecord] /\ call \in [Calls -> CallState] /\ UNCHANGED tokens
        /\ call[k].at = "update"
    BY DEF TypeInv, UpdateState, At
  <1>2. g \in Flows
    BY <1>1, CallCarries
  <1>3. CASE flows[g].version = call[k].version
    <2>1. flows[g] \in FlowRecord
      BY <1>1, <1>2
    <2>2. r \in FlowRecord /\ r.state = "Completed" /\ r.version = flows[g].version + 1
      <3>1. flows[g].version + 1 \in Nat
        BY <2>1 DEF FlowRecord
      <3> QED
        BY <2>1, <3>1 DEF FlowRecord
    <2>3. flows' = [flows EXCEPT ![g] = r]
      BY <1>1, <1>2, <1>3 DEF UpdateState
    <2>4. MoveCall(k, s)
      BY <1>3 DEF UpdateState
    <2> HIDE DEF r
    <2>5. /\ flows' \in [Flows -> FlowRecord] /\ flows'[g] = r
          /\ \A f \in Flows : f # g => flows'[f] = flows[f]
      BY <1>1, <1>2, <2>2, <2>3, FlowChanges
    <2>6. s \in CallState /\ s.at = "complete" /\ s.at \notin {"issue", "find", "update"}
      BY <1>2, CallStates
    <2> HIDE DEF s
    <2>7. /\ call' \in [Calls -> CallState] /\ call'[k] = s
          /\ \A m \in Calls : m # k => call'[m] = call[m]
      BY <1>1, <2>4, <2>6, GotoMoves
    <2>8. \A m \in Calls : call'[m].at = "enqueue" => call'[m].token \in DOMAIN tokens'
      BY <1>1, <2>6, <2>7 DEF TypeInv
    <2>9. ASSUME NEW f \in Flows
          PROVE  OneDriver(f)'
      <3>1. /\ \A m \in Calls : (Drives(m, f)' => Drives(m, f)) /\ (Issues(m, f)' => Issues(m, f))
            /\ ~Drives(k, f)'
        BY <1>1, <2>4, <2>6, CallEnds
      <3>2. OneDriver(f)
        OBVIOUS
      <3>3. CASE f # g
        BY <1>1, <2>5, <3>1, <3>2, <3>3, DriverFrame
      <3>4. CASE f = g
        <4>1. Drives(k, f)
          BY <1>1, <3>4 DEF Drives
        <4>2. flows[f].version = 0 /\ \A m \in Calls : ~Drives(m, f)' /\ ~Issues(m, f)'
          BY <3>1, <3>2, <4>1 DEF OneDriver, Drives, Issues
        <4>3. \A i \in DOMAIN tokens : tokens[i].flow = f => tokens[i].used
          BY <3>2, <4>1 DEF OneDriver
        <4>4. flows'[f].version = 1 /\ flows'[f].state # "absent"
          BY <2>2, <2>5, <3>4, <4>2
        <4>5. \A i, m \in DOMAIN tokens : tokens[i].flow = f /\ tokens[m].flow = f => i = m
          BY <3>2 DEF OneDriver
        <4> QED
          BY <1>1, <4>2, <4>3, <4>4, <4>5 DEF OneDriver
      <3> QED
        BY <3>3, <3>4
    <2> QED
      BY <2>5, <2>7, <2>8, <2>9
  <1>4. CASE flows[g].version # call[k].version
    <2>1. MoveCall(k, Idle) /\ UNCHANGED flows
      BY <1>4 DEF UpdateState
    <2>2. Idle \in CallState /\ Idle.at = "idle"
      BY CallStates DEF Idle
    <2>3. /\ call' \in [Calls -> CallState] /\ call'[k] = Idle
          /\ \A m \in Calls : m # k => call'[m] = call[m]
      BY <1>1, <2>1, <2>2, GotoMoves
    <2>4. \A m \in Calls : call'[m].at = "enqueue" => call'[m].token \in DOMAIN tokens'
      BY <1>1, <2>2, <2>3 DEF TypeInv
    <2>5. ASSUME NEW f \in Flows
          PROVE  OneDriver(f)'
      <3>1. \A m \in Calls : (Drives(m, f)' => Drives(m, f)) /\ (Issues(m, f)' => Issues(m, f))
        BY <1>1, <2>1, <2>2, CallEnds
      <3>2. OneDriver(f)
        OBVIOUS
      <3> QED
        BY <1>1, <2>1, <3>1, <3>2, DriverFrame
    <2> QED
      BY <1>1, <2>1, <2>3, <2>4, <2>5
  <1> QED
    BY <1>3, <1>4

(* A step that leaves the tokens' flows alone and drives nothing new. *)
LEMMA OtherKeeps ==
  ASSUME TypeInv, \A f \in Flows : OneDriver(f), NEW k \in Calls, NEW s \in CallState, MoveCall(k, s),
         s.at # "enqueue",
         s.at \notin {"issue", "find", "update"} \/ (s.at = "update" /\ At(k, "find") /\ s.flow = call[k].flow),
         \A f \in Flows : flows'[f].state = flows[f].state /\ flows'[f].version = flows[f].version,
         DOMAIN tokens' = DOMAIN tokens,
         \A i \in DOMAIN tokens : tokens'[i].flow = tokens[i].flow /\ (~tokens'[i].used => ~tokens[i].used)
  PROVE  /\ \A f \in Flows : OneDriver(f)'
         /\ call' \in [Calls -> CallState]
         /\ \A m \in Calls : call'[m].at = "enqueue" => call'[m].token \in DOMAIN tokens'
  <1>1. /\ call' \in [Calls -> CallState] /\ call'[k] = s
        /\ \A m \in Calls : m # k => call'[m] = call[m]
    BY GotoMoves DEF TypeInv
  <1>2. \A m \in Calls : call'[m].at = "enqueue" => call'[m].token \in DOMAIN tokens'
    BY <1>1 DEF TypeInv
  <1>3. ASSUME NEW f \in Flows
        PROVE  OneDriver(f)'
    <2>1. \A m \in Calls : (Drives(m, f)' => Drives(m, f)) /\ (Issues(m, f)' => Issues(m, f))
      BY <1>1 DEF Drives, Issues, At
    <2>2. OneDriver(f)
      OBVIOUS
    <2> QED
      BY <2>1, <2>2, DriverFrame
  <1> QED
    BY <1>1, <1>2, <1>3

(* The inductive invariant. *)
RegistrationInv == TypeInv /\ SendInv /\ \A f \in Flows : OneDriver(f)

(* Steps that leave the outbox alone keep its invariants. *)
LEMMA OutboxUnchanged ==
  ASSUME OutboxInv, SendInv, UNCHANGED outbox
  PROVE  OutboxInv' /\ SendInv'
  <1>1. UNCHANGED <<jobs, worker, sends, faults>>
    BY DEF outbox
  <1>2. OutboxInv'
    BY <1>1 DEF OutboxInv, WorkerRecord, ClaimRecord, JobRecord
  <1> QED
    BY <1>1, <1>2, SendFrame DEF SendInv

(* What the calls have to show when they leave the outbox alone. *)
LEMMA RegistrationFrame ==
  ASSUME RegistrationInv, UNCHANGED outbox,
         \A f \in Flows : OneDriver(f)',
         flows' \in [Flows -> FlowRecord], tokens' \in Seq(TokenRecord), call' \in [Calls -> CallState],
         DOMAIN tokens \subseteq DOMAIN tokens',
         \A m \in Calls : call'[m].at = "enqueue" => call'[m].token \in DOMAIN tokens'
  PROVE  RegistrationInv'
  <1>1. OutboxInv' /\ SendInv'
    BY OutboxUnchanged DEF RegistrationInv, TypeInv
  <1>2. \A j \in DOMAIN jobs' : jobs'[j].link \in DOMAIN tokens'
    BY DEF RegistrationInv, TypeInv, outbox
  <1>3. TypeInv'
    BY <1>1, <1>2 DEF TypeInv, FlowRecord, TokenRecord, CallState, Idle
  <1> QED
    BY <1>1, <1>3 DEF RegistrationInv

(* Every statement of the three handlers keeps the invariant. *)
LEMMA HandleKeeps ==
  ASSUME RegistrationInv, NEW k \in Calls, HandleCall(k)
  PROVE  RegistrationInv'
  <1> USE DEF RegistrationInv
  <1>1. /\ flows \in [Flows -> FlowRecord] /\ tokens \in Seq(TokenRecord) /\ call \in [Calls -> CallState]
    BY DEF TypeInv
  <1>2. \A m \in Calls : call[m].at = "enqueue" => call[m].token \in DOMAIN tokens
    BY DEF TypeInv
  <1>3. ASSUME NEW f \in Flows, StartFlow(k, f)
        PROVE  RegistrationInv'
    <2>1. UNCHANGED <<tokens, outbox>>
      BY <1>3 DEF StartFlow
    <2> QED
      BY <1>1, <1>3, <2>1, StartFlowKeeps, RegistrationFrame
  <1>4. CASE StartToken(k)
    <2>1. call[k].flow \in Flows /\ Issues(k, call[k].flow)
      BY <1>1, <1>4, CallCarries DEF StartToken, At, Issues
    <2>2. IssueToken(k, call[k].flow) /\ UNCHANGED <<flows, outbox>>
      BY <1>4 DEF StartToken, IssueToken
    <2> QED
      BY <1>1, <2>1, <2>2, IssueKeeps, RegistrationFrame
  <1>5. CASE Reissue(k)
    <2>1. IssueToken(k, NoFlow) /\ UNCHANGED <<flows, outbox>>
      BY <1>5 DEF Reissue, IssueToken
    <2> QED
      BY <1>1, <2>1, RegistrationAssumption, IssueKeeps, RegistrationFrame
  <1>6. ASSUME NEW i \in DOMAIN tokens, Consume(k, i)
        PROVE  RegistrationInv'
    <2>1. UNCHANGED <<flows, outbox>>
      BY <1>6 DEF Consume
    <2> QED
      BY <1>1, <1>6, <2>1, ConsumeKeeps, RegistrationFrame
  <1>7. CASE UpdateState(k)
    <2>1. UNCHANGED <<tokens, outbox>>
      BY <1>7 DEF UpdateState
    <2> QED
      BY <1>1, <1>7, <2>1, UpdateKeeps, RegistrationFrame
  <1>8. CASE FindFlow(k)
    <2> DEFINE g == call[k].flow
               s == [at |-> "update", flow |-> g, version |-> flows[g].version]
    <2>1. g \in Flows /\ At(k, "find") /\ UNCHANGED <<flows, tokens, outbox>> /\ MoveCall(k, s)
      BY <1>1, <1>8, CallCarries DEF FindFlow, At, registration
    <2>2. flows[g].version \in Nat
      BY <1>1, <2>1 DEF FlowRecord
    <2>3. s \in CallState /\ s.at = "update" /\ s.flow = g
      BY <2>1, <2>2, CallStates
    <2> HIDE DEF s
    <2> QED
      BY <1>1, <2>1, <2>3, OtherKeeps, RegistrationFrame
  <1>9. CASE Complete(k)
    <2> DEFINE g == call[k].flow
               r == [flows[g] EXCEPT !.completed = TRUE]
    <2>1. g \in Flows /\ UNCHANGED <<tokens, outbox>> /\ MoveCall(k, Idle)
      BY <1>1, <1>9, CallCarries DEF Complete, At
    <2>2. flows[g] \in FlowRecord
      BY <1>1, <2>1
    <2>3. r \in FlowRecord /\ r.state = flows[g].state /\ r.version = flows[g].version
      BY <2>2 DEF FlowRecord
    <2>4. flows' = [flows EXCEPT ![g] = r]
      BY <1>9 DEF Complete
    <2> HIDE DEF r
    <2>5. /\ flows' \in [Flows -> FlowRecord]
          /\ \A f \in Flows : flows'[f].state = flows[f].state /\ flows'[f].version = flows[f].version
      BY <1>1, <2>1, <2>3, <2>4, FlowChanges
    <2>6. Idle \in CallState /\ Idle.at = "idle"
      BY CallStates DEF Idle
    <2> QED
      BY <1>1, <2>1, <2>5, <2>6, OtherKeeps, RegistrationFrame
  <1>10. CASE MarkResent(k)
    <2> DEFINE s == [at |-> "invalidate"]
    <2>1. UNCHANGED <<flows, tokens, outbox>> /\ MoveCall(k, s)
      BY <1>10 DEF MarkResent, registration
    <2>2. s \in CallState /\ s.at = "invalidate"
      BY CallStates
    <2> HIDE DEF s
    <2> QED
      BY <1>1, <2>1, <2>2, OtherKeeps, RegistrationFrame
  <1>11. CASE Invalidate(k)
    <2> DEFINE s == [at |-> "reissue"]
               M == DOMAIN tokens
    <2>1. UNCHANGED <<flows, outbox>> /\ MoveCall(k, s)
      BY <1>11 DEF Invalidate
    <2>2. s \in CallState /\ s.at = "reissue"
      BY CallStates
    <2>3. tokens' = [i \in DOMAIN tokens |-> IF i \in M THEN [tokens[i] EXCEPT !.used = TRUE] ELSE tokens[i]]
      BY <1>11 DEF Invalidate
    <2>4. M \in SUBSET DOMAIN tokens
      OBVIOUS
    <2> HIDE DEF s, M
    <2>5. /\ tokens' \in Seq(TokenRecord) /\ DOMAIN tokens' = DOMAIN tokens
          /\ \A i \in DOMAIN tokens : tokens'[i].flow = tokens[i].flow /\ (~tokens'[i].used => ~tokens[i].used)
      BY <1>1, <2>3, <2>4, TokensMarked
    <2> QED
      BY <1>1, <2>1, <2>2, <2>5, OtherKeeps, RegistrationFrame
  <1>12. CASE Drop(k)
    <2>1. UNCHANGED <<flows, tokens, outbox>> /\ MoveCall(k, Idle)
      BY <1>12 DEF Drop, registration
    <2>2. Idle \in CallState /\ Idle.at = "idle"
      BY CallStates DEF Idle
    <2> QED
      BY <1>1, <2>1, <2>2, OtherKeeps, RegistrationFrame
  <1>13. CASE EnqueueMail(k)
    <2> DEFINE t == call[k].token
               c == call[k].correlation
    <2>1. /\ call[k].at = "enqueue" /\ UNCHANGED <<flows, tokens, worker, faults>>
          /\ MoveCall(k, Idle) /\ Enqueue(t, c)
      BY <1>13 DEF EnqueueMail, registration, At
    <2>2. t \in Nat /\ c \in Flows \cup {NoCorrelation} /\ t \in DOMAIN tokens
      BY <1>1, <1>2, <2>1, CallCarries
    <2>3. OutboxInv /\ SendInv
      BY DEF TypeInv
    <2>4. Idle \in CallState /\ Idle.at = "idle"
      BY CallStates DEF Idle
    <2> HIDE DEF t, c
    <2>5. OutboxInv' /\ SendInv'
      BY <2>1, <2>2, <2>3, EnqueueKeeps
    <2>6. /\ \A f \in Flows : OneDriver(f)'
          /\ call' \in [Calls -> CallState]
          /\ \A m \in Calls : call'[m].at = "enqueue" => call'[m].token \in DOMAIN tokens'
      BY <2>1, <2>4, OtherKeeps
    <2>7. \A j \in DOMAIN jobs' : jobs'[j].link \in DOMAIN tokens'
      <3> DEFINE r == [link |-> t, correlation |-> c, status |-> "pending", attempts |-> 0, due |-> TRUE]
      <3>1. jobs' = jobs \/ jobs' = Append(jobs, r)
        BY <2>1 DEF Enqueue
      <3>2. r.link = t
        OBVIOUS
      <3>3. jobs \in Seq(JobRecord) /\ \A j \in DOMAIN jobs : jobs[j].link \in DOMAIN tokens
        BY DEF TypeInv, OutboxInv
      <3> HIDE DEF r
      <3>4. \A j \in DOMAIN jobs' : (j \in DOMAIN jobs /\ jobs'[j] = jobs[j]) \/ jobs'[j] = r
        BY <3>1, <3>3
      <3> QED
        BY <2>1, <2>2, <3>2, <3>3, <3>4
    <2>8. TypeInv'
      BY <1>1, <2>1, <2>5, <2>6, <2>7 DEF TypeInv, FlowRecord, TokenRecord, CallState, Idle
    <2> QED
      BY <2>5, <2>6, <2>8
  <1> QED
    BY <1>3, <1>4, <1>5, <1>6, <1>7, <1>8, <1>9, <1>10, <1>11, <1>12, <1>13 DEF HandleCall

(* The worker does not change what a job's mail says. *)
LEMMA LinksKept ==
  ASSUME OutboxInv, Deliver
  PROVE  DOMAIN jobs' = DOMAIN jobs /\ \A j \in DOMAIN jobs : jobs'[j].link = jobs[j].link
  <1>1. \A j \in DOMAIN jobs : jobs[j] \in JobRecord
    BY DEF OutboxInv
  <1>2. \A q \in JobRecord :
          /\ [q EXCEPT !.status = "sent"].link = q.link
          /\ [q EXCEPT !.status = "failed"].link = q.link
          /\ [q EXCEPT !.due = TRUE].link = q.link
          /\ \A n : [q EXCEPT !.attempts = n, !.due = FALSE].link = q.link
    BY DEF JobRecord
  <1>3. CASE UNCHANGED jobs
    BY <1>3
  <1>4. ASSUME NEW j \in DOMAIN jobs, NEW r, jobs' = [jobs EXCEPT ![j] = r], r.link = jobs[j].link
        PROVE  DOMAIN jobs' = DOMAIN jobs /\ \A m \in DOMAIN jobs : jobs'[m].link = jobs[m].link
    BY <1>4
  <1>5. ASSUME NEW w \in Workers, MarkSent(w)
        PROVE  DOMAIN jobs' = DOMAIN jobs /\ \A j \in DOMAIN jobs : jobs'[j].link = jobs[j].link
    <2> DEFINE j0 == Current(w).job
               r == [jobs[j0] EXCEPT !.status = "sent"]
    <2>1. j0 \in DOMAIN jobs
      BY <1>5, WorkerHolds DEF MarkSent
    <2>2. jobs' = [jobs EXCEPT ![j0] = r]
      BY <1>5 DEF MarkSent
    <2>3. r.link = jobs[j0].link
      BY <1>1, <1>2, <2>1
    <2> HIDE DEF r, j0
    <2> QED
      BY <1>4, <2>1, <2>2, <2>3
  <1>6. ASSUME NEW w \in Workers, NEW retryable \in BOOLEAN, SendFails(w, retryable)
        PROVE  DOMAIN jobs' = DOMAIN jobs /\ \A j \in DOMAIN jobs : jobs'[j].link = jobs[j].link
    <2> DEFINE j0 == Current(w).job
               r == [jobs[j0] EXCEPT !.status = "failed"]
               q == [jobs[j0] EXCEPT !.attempts = Current(w).attempts + 1, !.due = FALSE]
    <2>1. j0 \in DOMAIN jobs
      BY <1>6, WorkerHolds DEF SendFails
    <2>2. jobs' = [jobs EXCEPT ![j0] = r] \/ jobs' = [jobs EXCEPT ![j0] = q]
      BY <1>6, <2>1 DEF SendFails, MarkRetry, MarkFailed
    <2>3. r.link = jobs[j0].link /\ q.link = jobs[j0].link
      BY <1>1, <1>2, <2>1
    <2> HIDE DEF r, q, j0
    <2> QED
      BY <1>4, <2>1, <2>2, <2>3
  <1>7. ASSUME NEW j \in DOMAIN jobs, BackoffOver(j)
        PROVE  DOMAIN jobs' = DOMAIN jobs /\ \A m \in DOMAIN jobs : jobs'[m].link = jobs[m].link
    <2> DEFINE r == [jobs[j] EXCEPT !.due = TRUE]
    <2>1. jobs' = [jobs EXCEPT ![j] = r]
      BY <1>7 DEF BackoffOver
    <2>2. r.link = jobs[j].link
      BY <1>1, <1>2
    <2> HIDE DEF r
    <2> QED
      BY <1>4, <2>1, <2>2
  <1>8. ASSUME NEW w \in Workers, ClaimPending(w) \/ Send(w) \/ MarkLost(w) \/ Crash(w)
        PROVE  UNCHANGED jobs
    BY <1>8 DEF ClaimPending, Send, MarkLost, Crash
  <1> QED
    BY <1>3, <1>5, <1>6, <1>7, <1>8 DEF Deliver, Work

(* Every step of handlers and workers keeps the invariant. *)
LEMMA RegistrationStepInv ==
  ASSUME RegistrationInv, [RegistrationNext]_registrationVars
  PROVE  RegistrationInv'
  <1>1. CASE \E k \in Calls : HandleCall(k)
    BY <1>1, HandleKeeps
  <1>2. CASE Deliver /\ UNCHANGED <<registration, call>>
    <2>1. UNCHANGED <<flows, tokens, call>> /\ OutboxInv /\ SendInv
      BY <1>2 DEF registration, RegistrationInv, TypeInv
    <2>2. OutboxInv' /\ SendInv'
      BY <1>2, <2>1, DeliverKeeps
    <2>3. DOMAIN jobs' = DOMAIN jobs /\ \A j \in DOMAIN jobs : jobs'[j].link = jobs[j].link
      BY <1>2, <2>1, LinksKept
    <2>4. TypeInv'
      BY <2>1, <2>2, <2>3 DEF RegistrationInv, TypeInv, FlowRecord, TokenRecord, CallState, Idle
    <2>5. \A f \in Flows : OneDriver(f)'
      <3> TAKE f \in Flows
      <3>1. \A m \in Calls : (Drives(m, f)' => Drives(m, f)) /\ (Issues(m, f)' => Issues(m, f))
        BY <2>1 DEF Drives, Issues
      <3>2. OneDriver(f)
        BY DEF RegistrationInv
      <3> QED
        BY <2>1, <3>1, <3>2, DriverFrame
    <2> QED
      BY <2>2, <2>4, <2>5 DEF RegistrationInv
  <1>3. CASE UNCHANGED registrationVars
    <2>1. UNCHANGED <<flows, tokens, call, outbox>>
      BY <1>3 DEF registrationVars, registration
    <2>2. \A f \in Flows : OneDriver(f)'
      <3> TAKE f \in Flows
      <3>1. \A m \in Calls : (Drives(m, f)' => Drives(m, f)) /\ (Issues(m, f)' => Issues(m, f))
        BY <2>1 DEF Drives, Issues
      <3>2. OneDriver(f)
        BY DEF RegistrationInv
      <3> QED
        BY <2>1, <3>1, <3>2, DriverFrame
    <2> QED
      BY <2>1, <2>2, RegistrationFrame DEF RegistrationInv, TypeInv
  <1> QED
    BY <1>1, <1>2, <1>3 DEF RegistrationNext

(* The tables start empty. *)
LEMMA RegistrationInitInv ==
  ASSUME RegistrationInit
  PROVE  RegistrationInv
  <1>1. /\ jobs = <<>> /\ sends = <<>> /\ worker = [w \in Workers |-> Asleep] /\ faults = 0
        /\ flows = [f \in Flows |-> Absent] /\ tokens = <<>> /\ call = [k \in Calls |-> Idle]
    BY DEF RegistrationInit, OutboxInit
  <1>2. Asleep \in WorkerRecord /\ Asleep.at = "send" /\ Asleep.batch = <<>> /\ DOMAIN Asleep.batch = {}
    BY DEF Asleep, WorkerRecord
  <1>3. Absent \in FlowRecord /\ Absent.version = 0
    BY DEF Absent, FlowRecord
  <1>4. Idle \in CallState /\ Idle.at = "idle"
    BY CallStates DEF Idle
  <1>5. faults \in 0 .. MaxFaults
    BY <1>1, OutboxAssumption
  <1>6. DOMAIN jobs = {} /\ DOMAIN tokens = {}
    BY <1>1
  <1>7. OutboxInv
    BY <1>1, <1>2, <1>5, <1>6 DEF OutboxInv
  <1>8. TypeInv
    BY <1>1, <1>3, <1>4, <1>6, <1>7 DEF TypeInv
  <1>9. \A f \in Flows : OneDriver(f)
    BY <1>1, <1>3, <1>4, <1>6 DEF OneDriver, Drives, Issues
  <1> QED
    BY <1>6, <1>8, <1>9 DEF RegistrationInv, SendInv

(* The inductive invariant holds at all times. *)
LEMMA RegistrationInvKept == RegistrationSpec => []RegistrationInv
  BY RegistrationInitInv, RegistrationStepInv, PTL DEF RegistrationSpec

(***************************************************************************)
(* The outbox, flows, tokens and calls keep their shapes in every          *)
(* reachable state, and every mail names a token that was issued.          *)
(***************************************************************************)
THEOREM RegistrationTypes == RegistrationSpec => []RegistrationTypeOK
  <1>1. RegistrationInv => RegistrationTypeOK
    <2> SUFFICES ASSUME RegistrationInv PROVE RegistrationTypeOK
      OBVIOUS
    <2>1. \A j \in DOMAIN jobs : jobs[j] \in JobRecord
      BY DEF RegistrationInv, TypeInv, OutboxInv
    <2>2. \A j \in DOMAIN jobs : /\ jobs[j].status \in {"pending", "sent", "failed"}
                                 /\ jobs[j].attempts \in 0 .. MaxAttempts - 1
                                 /\ jobs[j].due \in BOOLEAN
      BY <2>1 DEF JobRecord
    <2>3. OutboxTypeOK
      BY <2>2 DEF RegistrationInv, TypeInv, OutboxInv, OutboxTypeOK, WorkerRecord, ClaimRecord
    <2> QED
      BY <2>3 DEF RegistrationInv, TypeInv, RegistrationTypeOK
  <1> QED
    BY <1>1, RegistrationInvKept, PTL

(***************************************************************************)
(* However many calls open the links of a flow at once, and however often  *)
(* claim_pending hands a job to two workers, a worker dies or an outcome   *)
(* is lost: a flow is completed once, and its mail is sent at most once    *)
(* for each worker and for each fault.                                     *)
(***************************************************************************)
THEOREM RegistrationKept == RegistrationSpec => []RegistrationSound
  <1>1. RegistrationInv => CompletedOnce
    BY DEF RegistrationInv, CompletedOnce, OneDriver
  <1>2. RegistrationInv => DuplicatesBounded
    BY SendInvGives DEF RegistrationInv, TypeInv
  <1>3. RegistrationInv => RegistrationSound
    BY <1>1, <1>2 DEF RegistrationSound
  <1> QED
    BY <1>3, RegistrationInvKept, PTL
=============================================================================
