--------------------------- MODULE FlowValidation ---------------------------
(***************************************************************************)
(* The check of flow tables at start-up (auth-core/src/flow/validate.rs):  *)
(* rule 6 walks the table with a stack and reports states whose processor  *)
(* may run without its data; rule 3 looks for a cycle among the edges that *)
(* no caller drives, colouring states white, gray and black; rule 1 is     *)
(* reachability.  The walks run on every small table: a sequence of        *)
(* successors per state, in the order of the edges.                        *)
(***************************************************************************)
EXTENDS Flows, Sequences

CONSTANTS
  States,      \* the states of a table
  InitialState,
  DataKeys,    \* what processors require and produce
  Tables       \* the tables: records of next, requires and produces

ASSUME TablesAssumption ==
  /\ IsFiniteSet(States) /\ InitialState \in States /\ IsFiniteSet(DataKeys)
  /\ \A t \in Tables :
       /\ t.next \in [States -> Seq(States)]
       /\ t.requires \in [States -> SUBSET DataKeys]
       /\ t.produces \in [States -> SUBSET DataKeys]

VARIABLES
  table,       \* the table that is checked
  walk,        \* rule 6: the stack of states and what was produced before them;
               \*   history: the trail of what was pushed on the way to each
  visited,     \* rule 6: what was last taken along to a state
  reported,    \* rule 6: the states with an error
  color,       \* rule 3
  frames,      \* rule 3: the stack of states and their next child
  path,        \* rule 3: the gray states in order
  cycle        \* rule 3: the result

walkVars == <<walk, visited, reported>>
cycleVars == <<color, frames, path, cycle>>
validationVars == <<table, walkVars, cycleVars>>

(* No cycle was found yet. *)
Running == <<>>

ValidationTypeOK ==
  /\ table \in Tables
  /\ visited \in [States -> {{}} \cup {{k} : k \in SUBSET DataKeys}]
  /\ reported \subseteq States
  /\ color \in [States -> {"white", "gray", "black"}]

Succ(s) == table.next[s]

(* The initial state's own products count as produced before it.          *)
Seed(t) == [state |-> InitialState, produced |-> t.produces[InitialState]]
ValidationInit ==
  /\ table \in Tables
  /\ walk = <<[state |-> InitialState, produced |-> Seed(table).produced, trail |-> <<>>]>>
  /\ visited = [s \in States |-> {}]
  /\ reported = {}
  /\ color = [s \in States |-> "white"]
  /\ frames = <<>> /\ path = <<>> /\ cycle = Running

Top == walk[Len(walk)]

(* Mutant: a state sees only what the processor before it produced. *)
OnlyOwn == table.produces[Top.state]

ProducedAfter == Top.produced \cup table.produces[Top.state]

(* Mutant: a state is walked again every time. *)
NeverAlready(seen, next, produced) == FALSE

(* A state is not walked again when at least as much came along before.   *)
Already(seen, next, produced) == \E before \in seen[next] : produced \subseteq before

(* A successor in the loop: it is pushed, and visited notes what it was    *)
(* pushed with.                                                            *)
Visit(done, n, produced, trail) ==
  IF Already(done.seen, n, produced) THEN done
  ELSE [seen |-> [done.seen EXCEPT ![n] = {produced}],
        pushed |-> Append(done.pushed, [state |-> n, produced |-> produced,
                                        trail |-> Append(trail, [state |-> n, produced |-> produced])])]

(* The loop over the successors: what it pushes, and visited after it.    *)
Propagate(nexts, produced, seen, trail) ==
  LET after[i \in 0 .. Len(nexts)] ==
        IF i = 0 THEN [seen |-> seen, pushed |-> <<>>]
        ELSE Visit(after[i - 1], nexts[i], produced, trail)
  IN after[Len(nexts)]

(* check_requires_produces: one turn of its loop. *)
CheckRequiresProduces ==
  /\ walk # <<>>
  /\ reported' = IF table.requires[Top.state] \subseteq Top.produced THEN reported
                 ELSE reported \cup {Top.state}
  /\ LET after == Propagate(Succ(Top.state), ProducedAfter, visited, Top.trail) IN
       /\ walk' = SubSeq(walk, 1, Len(walk) - 1) \o after.pushed
       /\ visited' = after.seen
  /\ UNCHANGED <<table, cycleVars>>

(* find_cycle: the states are taken in the order of a hash set. *)
CycleStart(s) ==
  /\ walk = <<>> /\ cycle = Running /\ frames = <<>> /\ color[s] = "white"
  /\ frames' = <<[state |-> s, child |-> 1]>>
  /\ path' = <<s>>
  /\ color' = [color EXCEPT ![s] = "gray"]
  /\ UNCHANGED <<table, walkVars, cycle>>

Frame == frames[Len(frames)]
Below == SubSeq(frames, 1, Len(frames) - 1)
Advanced == Append(Below, [Frame EXCEPT !.child = @ + 1])
Child == Succ(Frame.state)[Frame.child]
HasChild == Frame.child <= Len(Succ(Frame.state))

CycleDescend ==
  /\ cycle = Running /\ frames # <<>> /\ HasChild /\ color[Child] = "white"
  /\ frames' = Append(Advanced, [state |-> Child, child |-> 1])
  /\ path' = Append(path, Child)
  /\ color' = [color EXCEPT ![Child] = "gray"]
  /\ UNCHANGED <<table, walkVars, cycle>>

CycleSkip ==
  /\ cycle = Running /\ frames # <<>> /\ HasChild /\ color[Child] = "black"
  /\ frames' = Advanced
  /\ UNCHANGED <<table, walkVars, color, path, cycle>>

(* A back edge: the path from its target on is the cycle. *)
CycleFound ==
  /\ cycle = Running /\ frames # <<>> /\ HasChild /\ color[Child] = "gray"
  /\ LET from == {i \in DOMAIN path : path[i] = Child} IN
       cycle' = IF from = {} THEN <<Child>>
                ELSE SubSeq(path, CHOOSE i \in from : \A j \in from : i <= j, Len(path))
  /\ frames' = <<>>
  /\ UNCHANGED <<table, walkVars, color, path>>

(* Mutant: a finished state stays gray. *)
CycleFinishKeeping ==
  /\ cycle = Running /\ frames # <<>> /\ ~HasChild
  /\ frames' = Below
  /\ path' = SubSeq(path, 1, Len(path) - 1)
  /\ UNCHANGED <<table, walkVars, cycle, color>>

CycleFinish ==
  /\ cycle = Running /\ frames # <<>> /\ ~HasChild
  /\ color' = [color EXCEPT ![Frame.state] = "black"]
  /\ frames' = Below
  /\ path' = SubSeq(path, 1, Len(path) - 1)
  /\ UNCHANGED <<table, walkVars, cycle>>

ValidationNext ==
  \/ CheckRequiresProduces
  \/ \E s \in States : CycleStart(s)
  \/ CycleDescend \/ CycleSkip \/ CycleFound \/ CycleFinish

-----------------------------------------------------------------------------
(* Reference: the pairs of a state and what some path produced before it.  *)
Pairs == [state : States, produced : SUBSET DataKeys]
Onward(t, pairs) ==
  pairs \cup UNION
    {{[state |-> t.next[p.state][i], produced |-> p.produced \cup t.produces[p.state]] :
        i \in DOMAIN t.next[p.state]} : p \in pairs}
PathsTo(t) ==
  LET within[n \in 0 .. Cardinality(Pairs)] ==
        IF n = 0 THEN {Seed(t)} ELSE Onward(t, within[n - 1])
  IN within[Cardinality(Pairs)]

Lacking == {p.state : p \in {q \in PathsTo(table) : ~(table.requires[q.state] \subseteq q.produced)}}

(* Reference: there is a cycle when some states always lead to each other. *)
HasCycle ==
  \E S \in SUBSET States :
    S # {} /\ \A s \in S : \E i \in DOMAIN Succ(s) : Succ(s)[i] \in S

(* Rule 6 reports a state only when some path from the initial state       *)
(* really reaches it without its data.                                     *)
ReportsAreReal == reported \subseteq Lacking

(* Rule 6 ends on every table, cycles included: no way it takes through    *)
(* the table goes through a state twice with the same data, so none is     *)
(* longer than the number of pairs of a state and a set of data.           *)
WalkEnds ==
  \A i \in DOMAIN walk :
    LET trail == walk[i].trail IN
    /\ \A j, k \in DOMAIN trail : trail[j] = trail[k] => j = k
    /\ Len(trail) <= Cardinality(Pairs)

(* Every state of c leads to the next one, and the last to the first. *)
LeadsTo(s, t) == \E j \in DOMAIN Succ(s) : Succ(s)[j] = t
IsCycle(c) ==
  /\ \A i \in 1 .. Len(c) - 1 : LeadsTo(c[i], c[i + 1])
  /\ LeadsTo(c[Len(c)], c[1])

(* Rule 3 is exact: find_cycle ends without a cycle only when there is     *)
(* none, and what it returns is a cycle of the table.                      *)
CycleExact ==
  /\ walk = <<>> /\ cycle = Running /\ frames = <<>> /\ (\A s \in States : color[s] = "black")
       => ~HasCycle
  /\ cycle # Running => IsCycle(cycle)

(* What validate.rs promises of rule 6: the chain is consistent "along     *)
(* every path from `initial` to a terminal".                               *)
EveryPathChecked == walk = <<>> => Lacking \subseteq reported

-----------------------------------------------------------------------------
(***************************************************************************)
(* The start-up gate of the auth server (auth-server/src/main.rs): before  *)
(* it serves, every flow table of handlers/viz.rs goes through the rules,  *)
(* and one error ends the process.                                         *)
(*                                                                         *)
(* The tables are kept by hand.  The model starts from the ones in the     *)
(* source, lets a maintainer make up to MaxEdits changes to one of them    *)
(* (an edge less, an edge more, another end, another external edge), runs  *)
(* the gate on the result, and then walks the table of the server that     *)
(* came up.  States are named as in the enums of auth-core.  Rules 6 and 7 *)
(* have no input in these tables (processors and aliases are empty).       *)
(***************************************************************************)
CONSTANTS
  Edited,    \* the flows a maintainer may change
  MaxEdits   \* how often

VARIABLES
  tables,    \* the flow tables, by name
  edits,     \* changes made so far
  server,    \* "built", "exited" or "serving"
  tableWalk  \* a walk over one table: [flow, at, internal]

tableVars == <<tables, edits, server, tableWalk>>

-----------------------------------------------------------------------------
(* FlowView, with the external edges that flow_descriptors adds.            *)
Table(initial, terminals, edges, external) ==
  [states |-> {e[1] : e \in edges} \cup {e[3] : e \in edges},
   initial |-> initial, terminals |-> terminals, edges |-> edges, external |-> external]

OIDC == {
  <<"Init", "OidcInitProcessor", "Redirected">>,
  <<"Redirected", "OidcCallbackGuard", "CallbackReceived">>,
  <<"CallbackReceived", "OidcTokenExchangeProcessor", "TokenExchanged">>,
  <<"TokenExchanged", "UserResolveProcessor", "UserResolved">>,
  <<"UserResolved", "branch(no_mfa)", "Complete">>,
  <<"UserResolved", "branch(mfa_required)", "CompleteMfaPending">>,
  <<"Redirected", "guard_fail", "TerminalError">>,
  <<"CallbackReceived", "idp_error", "TerminalError">>}

PASSKEY == {
  <<"Init", "register_start", "RegChallenge">>,
  <<"RegChallenge", "attestation_ext", "AttestationReceived">>,
  <<"AttestationReceived", "verify_and_store", "Registered">>,
  <<"RegChallenge", "already_registered", "TerminalError">>,
  <<"AttestationReceived", "attestation_invalid", "TerminalError">>,
  <<"Init", "discover_start", "AuthChallenge">>,
  <<"AuthChallenge", "assertion_ext", "AssertionReceived">>,
  <<"AssertionReceived", "verify_user_handle", "UserResolved">>,
  <<"UserResolved", "sign_counter_check", "CounterChecked">>,
  <<"CounterChecked", "session_issue", "Complete">>,
  <<"CounterChecked", "signcount_regression", "CloneRejected">>,
  <<"AuthChallenge", "challenge_expired", "TerminalError">>,
  <<"AssertionReceived", "invalid_signature", "TerminalError">>}

MFA == {
  <<"ChallengeShown", "MfaCodeGuard", "Verified">>,
  <<"ChallengeShown", "3x_incorrect", "TerminalError">>,
  <<"ChallengeShown", "ttl", "Expired">>}

INVITE == {
  <<"ConsentShown", "EmailMatchGuard", "Accepted">>,
  <<"ConsentShown", "email_mismatch", "AccountSwitching">>,
  <<"AccountSwitching", "ResumeGuard", "Accepted">>,
  <<"Accepted", "InviteCompleteProcessor", "Complete">>,
  <<"ConsentShown", "invite_expired", "TerminalError">>,
  <<"AccountSwitching", "resume_timeout", "Expired">>}

DEVICE_GRANT == {
  <<"Pending", "device_approve", "Approved">>,
  <<"Pending", "device_deny", "Denied">>,
  <<"Pending", "ttl", "Expired">>,
  <<"Approved", "token_poll", "Completed">>}

Labelled(edges, labels) == {e \in edges : e[2] \in labels}

OIDC_EXTERNAL == Labelled(OIDC, {"OidcCallbackGuard"})
PASSKEY_EXTERNAL == Labelled(PASSKEY, {"attestation_ext", "assertion_ext"})
MFA_EXTERNAL == Labelled(MFA, {"MfaCodeGuard"})
INVITE_EXTERNAL == Labelled(INVITE, {"EmailMatchGuard", "ResumeGuard"})
REGISTRATION_EXTERNAL == Labelled(RegistrationView, {"RegVerifyEmailGuard", "RegMfaDoneGuard"})
EMAIL_VERIFICATION_EXTERNAL == Labelled(EmailVerificationView, {"EvMarkSentGuard", "EvVerifyTokenGuard"})
PASSWORD_RESET_EXTERNAL ==
  Labelled(PasswordResetView, {"PrMarkSentGuard", "PrVerifyResetTokenGuard", "PrChangePasswordGuard"})
MFA_SETUP_EXTERNAL == Labelled(MfaSetupView, {"MfaStartSetupGuard", "MfaConfirmCodeGuard"})
LOGIN_CHALLENGE_EXTERNAL == Labelled(LoginChallengeView, {"LcVerifyChallengeGuard"})
DEVICE_GRANT_EXTERNAL == Labelled(DEVICE_GRANT, {"device_approve"})

FlowDescriptors ==
  [oidc |-> Table("Init", {"Complete", "CompleteMfaPending", "TerminalError"}, OIDC, OIDC_EXTERNAL),
   passkey |-> Table("Init", {"Registered", "Complete", "TerminalError", "CloneRejected"},
                     PASSKEY, PASSKEY_EXTERNAL),
   mfa |-> Table("ChallengeShown", {"Verified", "TerminalError", "Expired"}, MFA, MFA_EXTERNAL),
   invite |-> Table("ConsentShown", {"Complete", "TerminalError", "Expired"}, INVITE, INVITE_EXTERNAL),
   registration |-> Table("Start", {"Completed", "Cancelled"}, RegistrationView, REGISTRATION_EXTERNAL),
   email_verification |-> Table("TokenIssued", {"Verified", "Cancelled"},
                                EmailVerificationView, EMAIL_VERIFICATION_EXTERNAL),
   password_reset |-> Table("Requested", {"Completed", "Cancelled"},
                            PasswordResetView, PASSWORD_RESET_EXTERNAL),
   mfa_setup |-> Table("NotConfigured", {"RecoveryCodesIssued", "Cancelled"},
                       MfaSetupView, MFA_SETUP_EXTERNAL),
   login_challenge |-> Table("PasswordAccepted", {"LoginGranted", "LoginDenied"},
                             LoginChallengeView, LOGIN_CHALLENGE_EXTERNAL),
   device_grant |-> Table("Pending", {"Completed", "Denied", "Expired"},
                          DEVICE_GRANT, DEVICE_GRANT_EXTERNAL)]

ASSUME EditedAssumption == Edited \subseteq DOMAIN FlowDescriptors

-----------------------------------------------------------------------------
(* validate *)

Closure(edges, from) ==
  LET reach[n \in 0..Cardinality(edges)] ==
        IF n = 0 THEN from
        ELSE LET seen == reach[n - 1] IN seen \cup {e[3] : e \in {d \in edges : d[1] \in seen}}
  IN reach[Cardinality(edges)]

BfsReachable(t) == Closure(t.edges, {t.initial})

(* The edges that the engine takes by itself. *)
Internal(t) == t.edges \ t.external

FindCycle(edges) == \E e \in edges : e[1] \in Closure(edges, {e[3]})

(* An edge from or to a state that is not declared ends the analysis. *)
Sane(t) ==
  /\ t.initial \in t.states
  /\ \A e \in t.edges : e[1] \in t.states /\ e[3] \in t.states

(* Mutant: only the edges that a caller drives are searched for cycles. *)
WellFormedAcyclicOutside(t) ==
  /\ Sane(t) /\ t.terminals \subseteq t.states
  /\ t.states \subseteq BfsReachable(t)
  /\ t.terminals = {} \/ t.terminals \cap BfsReachable(t) # {}
  /\ ~FindCycle(t.external)
  /\ \A s \in t.states : Cardinality({e \in t.external : e[1] = s}) <= 1
  /\ \A e \in t.edges : e[1] \notin t.terminals

WellFormed(t) ==
  /\ Sane(t) /\ t.terminals \subseteq t.states
  /\ t.states \subseteq BfsReachable(t)                                   \* 1
  /\ t.terminals = {} \/ t.terminals \cap BfsReachable(t) # {}            \* 2
  /\ ~FindCycle(Internal(t))                                              \* 3
  /\ \A s \in t.states : Cardinality({e \in t.external : e[1] = s}) <= 1  \* 4
  /\ \A e \in t.edges : e[1] \notin t.terminals                           \* 8

-----------------------------------------------------------------------------
NoWalk == [flow |-> "none", at |-> "none", internal |-> 0]

TablesInit ==
  /\ tables = FlowDescriptors
  /\ edits = 0
  /\ server = "built"
  /\ tableWalk = NoWalk

(* What one change to an edge or a state makes of a table: the list of     *)
(* states and the list of external edges are kept apart from the edges.    *)
Edits(t, e, s) ==
  {[t EXCEPT !.edges = @ \ {e}],
   [t EXCEPT !.edges = @ \ {e}, !.external = @ \ {e}],
   [t EXCEPT !.edges = @ \cup {<<e[1], "new", s>>}],
   [t EXCEPT !.edges = (@ \ {e}) \cup {<<e[1], e[2], s>>}],
   [t EXCEPT !.external = @ \cup {e}],
   [t EXCEPT !.terminals = @ \cup {s}],
   [t EXCEPT !.states = @ \ {s}]}

(* The table of a flow is changed before the server is built. *)
EditTable(f) ==
  /\ server = "built" /\ edits < MaxEdits
  /\ \E e \in tables[f].edges : \E s \in tables[f].states : \E new \in Edits(tables[f], e, s) :
       tables' = [tables EXCEPT ![f] = new]
  /\ edits' = edits + 1
  /\ UNCHANGED <<server, tableWalk>>

(* main: the gate, before anything is served.  No flow has aliases, so the *)
(* check of all flows together (rule 7) has nothing to refuse.             *)
StartServer ==
  /\ server = "built"
  /\ server' = IF \A f \in DOMAIN tables : WellFormed(tables[f]) THEN "serving" ELSE "exited"
  /\ UNCHANGED <<tables, edits, tableWalk>>

BeginWalk(f) ==
  /\ server = "serving" /\ tableWalk = NoWalk
  /\ tableWalk' = [flow |-> f, at |-> tables[f].initial, internal |-> 0]
  /\ UNCHANGED <<tables, edits, server>>

(* An edge of the table: an internal one is taken by the engine within the *)
(* same call, an external one starts a new call.                           *)
WalkEdge(e) ==
  /\ tableWalk # NoWalk /\ e \in tables[tableWalk.flow].edges /\ e[1] = tableWalk.at
  /\ tableWalk.internal <= Cardinality(tables[tableWalk.flow].states)
  /\ tableWalk' = [tableWalk EXCEPT !.at = e[3],
                          !.internal = IF e \in tables[tableWalk.flow].external THEN 0 ELSE @ + 1]
  /\ UNCHANGED <<tables, edits, server>>

TablesNext ==
  \/ StartServer
  \/ \E f \in Edited : EditTable(f) \/ BeginWalk(f)
  \/ \E e \in UNION {tables[f].edges : f \in Edited} : WalkEdge(e)

-----------------------------------------------------------------------------
(* The gate lets the tables of the source through, and no edit of one of   *)
(* them that reaches a server makes a call of the engine run for ever: the *)
(* number of steps without a caller stays below the number of states.      *)
ServedTablesStop ==
  /\ edits = 0 => server # "exited"
  /\ tableWalk # NoWalk => tableWalk.internal < Cardinality(tables[tableWalk.flow].states)
=============================================================================
