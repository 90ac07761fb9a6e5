------------------------------ MODULE MCServing ------------------------------
(***************************************************************************)
(* What serves a visitor, on small instances: the path of a request        *)
(* through the gateway, and a registration with its mails.  The two share  *)
(* no state, so a behaviour exercises one of them, picked at the start,    *)
(* and the other stays where it began.                                     *)
(*                                                                         *)
(* Registration has three areas, each with one thing less of the others,   *)
(* because progress is checked on all of them together: two calls and two  *)
(* workers on one mail; two workers on two mails, with one call at a time; *)
(* and two calls and two mails with one worker.                            *)
(***************************************************************************)
EXTENDS Forwarding, Registration, TLC

CONSTANTS b1, b2, w1, k1

VARIABLE area   \* the part this behaviour is about

MailAreas == {"one mail", "one call", "one worker"}
Areas == {"forwarding"} \cup MailAreas

-----------------------------------------------------------------------------
(* Values of the constants. *)

MCHosts == {"app"}

Plain(bs) == [backends |-> bs, weights |-> <<>>, bypass |-> NoBackend]
Table(rt) == [h \in MCHosts |-> rt]

(* Round-robin over two backends, with a bypass override; a weighted draw  *)
(* with a zero weight; a host that is not routed.                          *)
MCTables ==
  {Table([Plain(<<b1, b2>>) EXCEPT !.bypass = b1]),
   Table([Plain(<<b2, b1>>) EXCEPT !.weights = <<1, 0>>]),
   Table(NoRoute)}

(* One backend, never reloaded. *)
OneTable == {Table(Plain(<<b1>>))}

RequestSymmetry == Permutations(Requests)

-----------------------------------------------------------------------------
ServingInit ==
  /\ area \in Areas
  /\ Init /\ (area = "forwarding" \/ (routing = Table(NoRoute) /\ idem = [r \in Requests |-> FALSE]))
  /\ RegistrationInit

In(a, A) == area = a /\ A /\ UNCHANGED area

MailStep ==
  \/ In("one mail", RegistrationNext /\ Len(tokens') < 2)
  \/ In("one call", RegistrationNext /\ \A k \in Calls : k = k1 \/ call'[k] = Idle)
  \/ In("one worker", RegistrationNext /\ \A w \in Workers : w = w1 \/ UNCHANGED worker[w])

ServingNext ==
  \/ In("forwarding", Next) /\ UNCHANGED registrationVars
  \/ MailStep /\ UNCHANGED vars

(* The fairness of Forwarding and of Registration, each in its own area. *)
RequestFairness ==
  /\ WF_vars(In("forwarding", Tick))
  /\ \A r \in Requests :
       WF_vars(In("forwarding", NoRouteTarget(r) \/ Choose(r) \/ ShortCircuit(r) \/ Admit(r) \/ TimeOut(r)))
MailFairness ==
  /\ \A w \in Workers :
       WF_outbox(/\ area \in MailAreas /\ (area = "one worker" => w = w1)
                 /\ Work(w) /\ UNCHANGED <<area, registration, call>>)
  /\ WF_outbox(/\ area \in MailAreas
               /\ (\E j \in DOMAIN jobs : BackoffOver(j)) /\ UNCHANGED <<area, registration, call>>)

ServingSpec ==
  /\ ServingInit
  /\ [][ServingNext]_<<area, vars, registrationVars>>
  /\ RequestFairness /\ MailFairness

(* Behaviours about requests only. *)
ForwardingOnlySpec == area = "forwarding" /\ ServingSpec
=============================================================================
