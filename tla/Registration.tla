----------------------------- MODULE Registration -----------------------------
(***************************************************************************)
(* Passwordless registration of one e-mail address: the registration flow, *)
(* the verification tokens and the mails that carry them                   *)
(* (auth-core/src/runtime.rs, auth-server/src/handlers/registration.rs and *)
(* the stores of auth-core/src/store/pg.rs).  Every statement selects by   *)
(* one address, one token or one flow, so addresses do not interact.       *)
(*                                                                         *)
(* Calls are concurrent; one SQL statement is one step, and a call can end *)
(* between two of them (Drop).  Requests that change nothing are no steps. *)
(* Time is left out: an expired token is one that no call consumes any     *)
(* more, and between any two steps the resend interval may have passed.    *)
(***************************************************************************)
EXTENDS NotificationOutbox

CONSTANTS
  Flows,          \* registration flows that can be started for the address
  Calls,          \* concurrent handler calls
  NoFlow,         \* the flow of a resent token
  MaxTokens       \* bound: tokens that are ever issued

ASSUME RegistrationAssumption == NoFlow \notin Flows /\ NoCorrelation \notin Flows

VARIABLES
  flows,       \* auth_flows
  tokens,      \* email_verification_tokens, in the order of created_at
  call         \* where each handler call is, and what it carries

registration == <<flows, tokens>>
registrationVars == <<registration, call, outbox>>

Absent == [state |-> "absent", version |-> 0, completed |-> FALSE]
Idle == [at |-> "idle"]

FlowRecord ==
  [state : {"absent", "EmailVerificationPending", "Completed"}, version : Nat,
   completed : BOOLEAN]
TokenRecord == [flow : Flows \cup {NoFlow}, used : BOOLEAN]
CallState ==
  {Idle}
    \cup [at : {"invalidate", "reissue"}]
    \cup [at : {"issue", "find", "complete"}, flow : Flows]
    \cup [at : {"update"}, flow : Flows, version : Nat]
    \cup [at : {"enqueue"}, token : Nat, correlation : Flows \cup {NoCorrelation}]

(* Every variable has the shape the code's types give it, and a mail names *)
(* a token that exists.                                                    *)
RegistrationTypeOK ==
  /\ OutboxTypeOK
  /\ flows \in [Flows -> FlowRecord]
  /\ tokens \in Seq(TokenRecord)
  /\ call \in [Calls -> CallState]
  /\ \A j \in DOMAIN jobs : jobs[j].link \in DOMAIN tokens

RegistrationInit ==
  /\ OutboxInit
  /\ flows = [f \in Flows |-> Absent]
  /\ tokens = <<>>
  /\ call = [k \in Calls |-> Idle]

At(k, position) == call[k].at = position
MoveCall(k, state) == call' = [call EXCEPT ![k] = state]

-------------------------------------------------------------------------------
(* start_registration *)

(* create: the flow waits for the verification. *)
StartFlow(k, f) ==
  /\ call[k] = Idle
  /\ flows[f] = Absent
  /\ flows' = [flows EXCEPT ![f].state = "EmailVerificationPending"]
  /\ MoveCall(k, [at |-> "issue", flow |-> f])
  /\ UNCHANGED <<tokens, outbox>>

(* issue *)
IssueToken(k, f) ==
  /\ Len(tokens) < MaxTokens
  /\ tokens' = Append(tokens, [flow |-> f, used |-> FALSE])
  /\ MoveCall(k, [at |-> "enqueue", token |-> Len(tokens) + 1,
              correlation |-> IF f = NoFlow THEN NoCorrelation ELSE f])
  /\ UNCHANGED <<flows, outbox>>

StartToken(k) == At(k, "issue") /\ IssueToken(k, call[k].flow)

(* enqueue: the mail with the link, for start and for resend. *)
EnqueueMail(k) ==
  /\ At(k, "enqueue")
  /\ Enqueue(call[k].token, call[k].correlation)
  /\ MoveCall(k, Idle)
  /\ UNCHANGED <<registration, worker, faults>>

-------------------------------------------------------------------------------
(* verify_email *)

(* The link was delivered. *)
Mailed(i) == \E j \in DOMAIN jobs : jobs[j].link = i /\ sends[j] > 0


(* Mutant: the token is looked up and not marked. *)
ConsumeUnmarked(k, i) ==
  /\ call[k] = Idle
  /\ Mailed(i) /\ ~tokens[i].used
  /\ IF tokens[i].flow = NoFlow THEN UNCHANGED call
     ELSE MoveCall(k, [at |-> "find", flow |-> tokens[i].flow])
  /\ UNCHANGED <<registration, outbox>>

(* consume: one UPDATE marks the token and returns its row; a token of a   *)
(* resend names no flow and ends the call.                                 *)
Consume(k, i) ==
  /\ call[k] = Idle
  /\ Mailed(i) /\ ~tokens[i].used
  /\ tokens' = [tokens EXCEPT ![i].used = TRUE]
  /\ IF tokens[i].flow = NoFlow THEN UNCHANGED call
     ELSE MoveCall(k, [at |-> "find", flow |-> tokens[i].flow])
  /\ UNCHANGED <<flows, outbox>>

(* find: the version the update will insist on. *)
FindFlow(k) ==
  /\ At(k, "find")
  /\ MoveCall(k, [at |-> "update", flow |-> call[k].flow,
              version |-> flows[call[k].flow].version])
  /\ UNCHANGED <<registration, outbox>>

(* update_state: optimistic lock on the version; a conflict ends the call. *)
UpdateState(k) ==
  /\ At(k, "update")
  /\ LET f == call[k].flow
     IN IF flows[f].version = call[k].version
        THEN /\ flows' = [flows EXCEPT ![f].state = "Completed", ![f].version = @ + 1]
             /\ MoveCall(k, [at |-> "complete", flow |-> f])
        ELSE MoveCall(k, Idle) /\ UNCHANGED flows
  /\ UNCHANGED <<tokens, outbox>>

(* complete: exit state and completed_at. *)
Complete(k) ==
  /\ At(k, "complete")
  /\ flows' = [flows EXCEPT ![call[k].flow].completed = TRUE]
  /\ MoveCall(k, Idle)
  /\ UNCHANGED <<tokens, outbox>>

-------------------------------------------------------------------------------
(* resend_verification *)

(* try_mark_resent: there is an unused token, the newest one counts, and   *)
(* the interval since it was sent has passed.                              *)
MarkResent(k) ==
  /\ call[k] = Idle
  /\ \E i \in DOMAIN tokens : ~tokens[i].used
  /\ MoveCall(k, [at |-> "invalidate"])
  /\ UNCHANGED <<registration, outbox>>

(* invalidate_pending *)
Invalidate(k) ==
  /\ At(k, "invalidate")
  /\ tokens' = [i \in DOMAIN tokens |-> [tokens[i] EXCEPT !.used = TRUE]]
  /\ MoveCall(k, [at |-> "reissue"])
  /\ UNCHANGED <<flows, outbox>>

Reissue(k) == At(k, "reissue") /\ IssueToken(k, NoFlow)

-------------------------------------------------------------------------------
(* Failures, and the system.                                               *)

(* A call ends between two of its statements. *)
Drop(k) ==
  /\ call[k] # Idle
  /\ MoveCall(k, Idle)
  /\ UNCHANGED <<registration, outbox>>

HandleCall(k) ==
  \/ \E f \in Flows : StartFlow(k, f)
  \/ StartToken(k) \/ EnqueueMail(k)
  \/ \E i \in DOMAIN tokens : Consume(k, i)
  \/ FindFlow(k) \/ UpdateState(k) \/ Complete(k)
  \/ MarkResent(k) \/ Invalidate(k) \/ Reissue(k)
  \/ Drop(k)

RegistrationNext ==
  \/ \E k \in Calls : HandleCall(k)
  \/ Deliver /\ UNCHANGED <<registration, call>>

RegistrationSpec == RegistrationInit /\ [][RegistrationNext]_registrationVars
RegistrationFairSpec ==
  /\ RegistrationSpec
  /\ \A w \in Workers : WF_registrationVars(Work(w) /\ UNCHANGED <<registration, call>>)
  /\ WF_registrationVars((\E j \in DOMAIN jobs : BackoffOver(j)) /\ UNCHANGED <<registration, call>>)

-------------------------------------------------------------------------------
(* Properties.                                                             *)

(***************************************************************************)
(* A registration is completed at most once, although a mail can arrive    *)
(* several times and its link be opened by several calls at once.          *)
(***************************************************************************)
CompletedOnce == \A f \in Flows : flows[f].version <= 1

(***************************************************************************)
(* Every mail is sent or given up in the end: no failing provider, crash,  *)
(* lost record or older job keeps one pending for ever.                    *)
(***************************************************************************)
EventuallySettled ==
  \A n \in 1 .. MaxTokens :
    (n \in DOMAIN jobs) ~> (n \in DOMAIN jobs /\ jobs[n].status # "pending")

(***************************************************************************)
(* runtime.rs: only an invalid, expired or already used token is refused,  *)
(* so a live token that reached the mailbox completes a registration.      *)
(***************************************************************************)
LiveTokenAccepted ==
  [][\A k \in Calls, i \in DOMAIN tokens : Consume(k, i) => At(k, "find")']_registrationVars

(***************************************************************************)
(* However often a visitor retries and the worker crashes, a registration  *)
(* is completed once and its mail sent a bounded number of times.          *)
(***************************************************************************)
RegistrationSound == CompletedOnce /\ DuplicatesBounded
=============================================================================
