-------------------------------- MODULE Flows --------------------------------
(***************************************************************************)
(* The flow definitions that the programs hand to the tramli library: the  *)
(* request flow of the gateway (gateway/src/flow.rs, state.rs), the eleven *)
(* of the auth core (auth-core/src/flow/*.rs, token.rs), and the pictures  *)
(* of five of them that the auth server draws from tables kept by hand     *)
(* (auth-server/src/handlers/viz.rs).                                      *)
(*                                                                         *)
(* A definition is a set of steps.  The library is external: it runs auto  *)
(* and branch steps until an external step or an end is reached, sends an  *)
(* error to the error state, and leaves the flow where it is when a guard  *)
(* rejects what a caller brought.  A piece of flow data is absent, "made"  *)
(* by a processor, or brought from outside, "good" or "bad".               *)
(***************************************************************************)
EXTENDS Naturals, FiniteSets

VARIABLES
  flow,    \* the definition that runs
  at,      \* its current state
  data,    \* the flow context: the pieces of data it has, and their value
  chain,   \* auto and branch steps since the last call of the engine
  last     \* the last step taken

flowVars == <<flow, at, data, chain, last>>

-----------------------------------------------------------------------------
(* A processor needs data, fails on bad data, and makes data that is not   *)
(* there yet.                                                              *)
AutoStep(from, to, name, needs, refuses, makes) ==
  [kind |-> "auto", from |-> from, to |-> to, name |-> name,
   needs |-> needs, refuses |-> refuses, makes |-> makes, key |-> "", picks |-> {}]

(* A guard takes one piece of data from the caller; a strict one only when *)
(* it is good.  The caller may bring other data with it.                   *)
External(from, to, name, key, strict, others) ==
  [kind |-> "external", from |-> from, to |-> to, name |-> name,
   needs |-> {}, refuses |-> IF strict THEN {key} ELSE {}, makes |-> others, key |-> key, picks |-> {}]

(* A guard whose requires() names data that is there before the caller.    *)
Asking(s, needs) == [s EXCEPT !.needs = needs]

(* A branch reads one piece of data; "absent" stands for no data.          *)
Branch(from, to, name, needs, key, picks) ==
  [kind |-> "branch", from |-> from, to |-> to, name |-> name,
   needs |-> needs, refuses |-> {}, makes |-> {}, key |-> key, picks |-> picks]

Definition(initial, given, error, steps) ==
  [initial |-> initial, given |-> given, error |-> error, steps |-> steps]

-----------------------------------------------------------------------------
(* gateway/src/flow.rs.  What RequestValidator refuses is bad RequestData; *)
(* only the IP allowlist's refusal leads to Denied.  RoutingResolver may   *)
(* find no route, or one without a backend, for any request.               *)
ProxyFlow == Definition("Received", "RequestData", "BadGateway", {
  AutoStep("Received", "Validated", "RequestValidator", {"RequestData"}, {"RequestData"}, {}),
  AutoStep("Validated", "Routed", "RoutingResolver", {"RequestData"}, {}, {"RouteTarget"}),
  AutoStep("Validated", "BadGateway", "RoutingResolver", {"RequestData"}, {}, {}),
  External("Routed", "AuthChecked", "AuthGuard", "AuthData", FALSE, {}),
  Asking(External("AuthChecked", "Forwarded", "ForwardGuard", "BackendResponse", FALSE, {}),
         {"RouteTarget"}),
  AutoStep("Forwarded", "Completed", "CompletionProcessor", {"BackendResponse"}, {}, {})})

OidcFlow == Definition("Init", "OidcInitData", "TerminalError", {
  AutoStep("Init", "Redirected", "OidcInit", {"OidcInitData"}, {"OidcInitData"}, {}),
  External("Redirected", "CallbackReceived", "OidcCallbackGuard", "OidcCallbackData", FALSE,
           {"OidcTokenData", "OidcUserData"}),
  AutoStep("CallbackReceived", "TokenExchanged", "TokenExchange", {"OidcCallbackData"},
       {"OidcCallbackData", "OidcTokenData"}, {"OidcTokenData"}),
  AutoStep("TokenExchanged", "UserResolved", "UserResolve", {"OidcTokenData"},
       {"OidcUserData"}, {"OidcUserData"}),
  AutoStep("UserResolved", "RiskChecked", "RiskCheck", {"OidcUserData"}, {}, {"RiskCheckResult"}),
  Branch("RiskChecked", "Complete", "complete", {"RiskCheckResult"}, "RiskCheckResult", {"made"}),
  Branch("RiskChecked", "CompleteMfaPending", "mfa_pending", {"RiskCheckResult"},
         "RiskCheckResult", {"good"}),
  Branch("RiskChecked", "Blocked", "blocked", {"RiskCheckResult"}, "RiskCheckResult", {"bad"})})

PasskeyFlow == Definition("Init", "PasskeyInitData", "TerminalError", {
  AutoStep("Init", "ChallengeIssued", "PasskeyChallenge", {"PasskeyInitData"}, {}, {"PasskeyChallenge"}),
  External("ChallengeIssued", "AssertionReceived", "PasskeyAssertionGuard", "PasskeyAssertion",
           FALSE, {}),
  AutoStep("AssertionReceived", "UserResolved", "PasskeyVerify",
       {"PasskeyAssertion", "PasskeyChallenge"}, {}, {"PasskeyUser"}),
  AutoStep("UserResolved", "Complete", "PasskeyComplete", {"PasskeyUser"}, {"PasskeyUser"}, {})})

MfaFlow == Definition("ChallengeShown", "MfaChallenge", "TerminalError", {
  External("ChallengeShown", "Verified", "MfaCodeGuard", "MfaCode", TRUE, {})})

(* Mutant: the account is switched by asking for consent again. *)
InviteFlowLooping == Definition("ConsentShown", "InviteData", "TerminalError", {
  Branch("ConsentShown", "Accepted", "match", {"InviteData"}, "InviteData", {"good"}),
  Branch("ConsentShown", "ConsentShown", "switch", {"InviteData"}, "InviteData", {"bad", "absent"}),
  AutoStep("Accepted", "Complete", "InviteComplete", {"InviteData"}, {}, {"InviteResult"})})

(* EmailMatchBranch: the invitation's address is the user's. *)
InviteFlow == Definition("ConsentShown", "InviteData", "TerminalError", {
  Branch("ConsentShown", "Accepted", "match", {"InviteData"}, "InviteData", {"good"}),
  Branch("ConsentShown", "AccountSwitching", "switch", {"InviteData"}, "InviteData", {"bad", "absent"}),
  External("AccountSwitching", "Accepted", "InviteAcceptGuard", "InviteAcceptance", TRUE, {}),
  AutoStep("Accepted", "Complete", "InviteComplete", {"InviteData"}, {}, {"InviteResult"})})

(* MfaBranch takes the label of the caller's choice as it is: "good" asks  *)
(* for setup, no choice skips it, and a "bad" one says skip or a label     *)
(* that leads nowhere (RunUnknown).                                        *)
RegistrationFlow == Definition("Start", "RegistrationInit", "Cancelled", {
  AutoStep("Start", "EmailVerificationPending", "RegIssueVerification", {"RegistrationInit"}, {},
       {"VerificationIssued"}),
  External("EmailVerificationPending", "EmailVerified", "RegVerifyEmailGuard", "EmailVerifiedData",
           FALSE, {"MfaChoice"}),
  Branch("EmailVerified", "MfaSetupOptional", "branch(setup)", {}, "MfaChoice", {"good"}),
  Branch("EmailVerified", "Completed", "branch(skip)", {}, "MfaChoice", {"bad", "absent"}),
  External("MfaSetupOptional", "Completed", "RegMfaDoneGuard", "MfaSetupResult", FALSE, {})})

EmailVerificationFlow == Definition("TokenIssued", "EmailVerificationInit", "Cancelled", {
  AutoStep("TokenIssued", "SendRequested", "EvRequestSend", {"EmailVerificationInit"}, {}, {"SendRequest"}),
  External("SendRequested", "Sent", "EvMarkSentGuard", "SendOutcome", TRUE, {}),
  External("Sent", "Verified", "EvVerifyTokenGuard", "VerificationProof", TRUE, {})})

(* ResetMarkSentGuard takes any outcome, a failed one too. *)
PasswordResetFlow == Definition("Requested", "PasswordResetInit", "Cancelled", {
  AutoStep("Requested", "TokenIssued", "PrIssueResetToken", {"PasswordResetInit"}, {}, {"ResetTokenIssued"}),
  AutoStep("TokenIssued", "SendRequested", "PrRequestSend", {"ResetTokenIssued", "PasswordResetInit"}, {},
       {"ResetSendRequest"}),
  External("SendRequested", "Sent", "PrMarkSentGuard", "ResetSendOutcome", FALSE, {}),
  External("Sent", "TokenVerified", "PrVerifyResetTokenGuard", "ResetTokenProof", TRUE, {}),
  External("TokenVerified", "PasswordChanged", "PrChangePasswordGuard", "PasswordChangedData", TRUE, {}),
  AutoStep("PasswordChanged", "Completed", "PrComplete", {"PasswordChangedData"}, {}, {})})

MfaSetupFlow == Definition("NotConfigured", "MfaSetupInit", "Cancelled", {
  External("NotConfigured", "SetupStarted", "MfaStartSetupGuard", "SetupStart", FALSE, {}),
  AutoStep("SetupStarted", "SecretIssued", "MfaIssueSecret", {"MfaSetupInit"}, {}, {"TotpSecretIssued"}),
  AutoStep("SecretIssued", "ConfirmationPending", "MfaPresentSecret", {"TotpSecretIssued"}, {},
       {"SecretPresented"}),
  External("ConfirmationPending", "Enabled", "MfaConfirmCodeGuard", "ConfirmResult", TRUE, {}),
  AutoStep("Enabled", "RecoveryCodesIssued", "MfaIssueRecoveryCodes", {"ConfirmResult"}, {},
       {"RecoveryCodesResult"})})

(* MfaRequiredBranch: "good" initial data asks for a second factor.        *)
LoginChallengeFlow == Definition("PasswordAccepted", "LoginChallengeInit", "LoginDenied", {
  Branch("PasswordAccepted", "MfaRequired", "branch(mfa)", {"LoginChallengeInit"},
         "LoginChallengeInit", {"good"}),
  Branch("PasswordAccepted", "LoginGranted", "branch(grant)", {"LoginChallengeInit"},
         "LoginChallengeInit", {"bad", "absent"}),
  AutoStep("MfaRequired", "ChallengeSent", "LcSendChallenge", {"LoginChallengeInit"}, {},
       {"ChallengeSentData"}),
  External("ChallengeSent", "ChallengeVerified", "LcVerifyChallengeGuard", "ChallengeProof", TRUE, {}),
  AutoStep("ChallengeVerified", "LoginGranted", "LcGrant", {"ChallengeProof"}, {}, {})})

DeviceGrantFlow == Definition("Pending", "DeviceGrantInit", "Rejected", {
  External("Pending", "Approved", "DeviceDecisionGuard", "DeviceDecisionProof", TRUE, {}),
  AutoStep("Approved", "Completed", "DeviceIssueToken", {"DeviceDecisionProof"}, {}, {})})

(* Mutant: TokenIssuer forgets to put the tokens. *)
TokenFlowForgetful == Definition("Received", "TokenRequest", "Denied", {
  AutoStep("Received", "Validated", "TokenValidator", {"TokenRequest"}, {"TokenRequest"},
           {"TokenValidation"}),
  External("Validated", "Refreshed", "RefreshGuard", "TokenValidation", FALSE, {}),
  AutoStep("Refreshed", "Issued", "TokenIssuer", {"TokenValidation"}, {"TokenValidation"}, {}),
  AutoStep("Issued", "Completed", "TokenComplete", {"NewTokens"}, {}, {})})

(* TokenValidator makes the validation that RefreshGuard then asks for.    *)
TokenFlow == Definition("Received", "TokenRequest", "Denied", {
  AutoStep("Received", "Validated", "TokenValidator", {"TokenRequest"}, {"TokenRequest"},
           {"TokenValidation"}),
  External("Validated", "Refreshed", "RefreshGuard", "TokenValidation", FALSE, {}),
  AutoStep("Refreshed", "Issued", "TokenIssuer", {"TokenValidation"}, {"TokenValidation"}, {"NewTokens"}),
  AutoStep("Issued", "Completed", "TokenComplete", {"NewTokens"}, {}, {})})

Flow ==
  [proxy |-> ProxyFlow, oidc |-> OidcFlow, passkey |-> PasskeyFlow, mfa |-> MfaFlow,
   invite |-> InviteFlow, registration |-> RegistrationFlow,
   email_verification |-> EmailVerificationFlow, password_reset |-> PasswordResetFlow,
   mfa_setup |-> MfaSetupFlow, login_challenge |-> LoginChallengeFlow,
   device_grant |-> DeviceGrantFlow, token_refresh |-> TokenFlow]

-----------------------------------------------------------------------------
(* The tables of viz.rs that "mirror the tramli definitions": the edges    *)
(* as <<from, label, to>>, in the names of the enums.                      *)
RegistrationView == {
  <<"Start", "RegIssueVerification", "EmailVerificationPending">>,
  <<"EmailVerificationPending", "RegVerifyEmailGuard", "EmailVerified">>,
  <<"EmailVerified", "branch(setup)", "MfaSetupOptional">>,
  <<"EmailVerified", "branch(skip)", "Completed">>,
  <<"MfaSetupOptional", "RegMfaDoneGuard", "Completed">>,
  <<"EmailVerificationPending", "expire_or_cancel", "Cancelled">>}

EmailVerificationView == {
  <<"TokenIssued", "EvRequestSend", "SendRequested">>,
  <<"SendRequested", "EvMarkSentGuard", "Sent">>,
  <<"Sent", "EvVerifyTokenGuard", "Verified">>,
  <<"SendRequested", "send_failed", "Cancelled">>}

(* Mutant: the table was not updated when a state was added. *)
PasswordResetViewStale == {
  <<"Requested", "PrIssueResetToken", "TokenIssued">>,
  <<"TokenIssued", "PrRequestSend", "SendRequested">>,
  <<"SendRequested", "PrMarkSentGuard", "Sent">>,
  <<"Sent", "PrVerifyResetTokenGuard", "PasswordChanged">>,
  <<"PasswordChanged", "PrComplete", "Completed">>,
  <<"SendRequested", "expire", "Cancelled">>}

PasswordResetView == {
  <<"Requested", "PrIssueResetToken", "TokenIssued">>,
  <<"TokenIssued", "PrRequestSend", "SendRequested">>,
  <<"SendRequested", "PrMarkSentGuard", "Sent">>,
  <<"Sent", "PrVerifyResetTokenGuard", "TokenVerified">>,
  <<"TokenVerified", "PrChangePasswordGuard", "PasswordChanged">>,
  <<"PasswordChanged", "PrComplete", "Completed">>,
  <<"SendRequested", "expire", "Cancelled">>}

MfaSetupView == {
  <<"NotConfigured", "MfaStartSetupGuard", "SetupStarted">>,
  <<"SetupStarted", "MfaIssueSecret", "SecretIssued">>,
  <<"SecretIssued", "MfaPresentSecret", "ConfirmationPending">>,
  <<"ConfirmationPending", "MfaConfirmCodeGuard", "Enabled">>,
  <<"Enabled", "MfaIssueRecoveryCodes", "RecoveryCodesIssued">>,
  <<"ConfirmationPending", "cancel", "Cancelled">>}

LoginChallengeView == {
  <<"PasswordAccepted", "branch(mfa)", "MfaRequired">>,
  <<"PasswordAccepted", "branch(grant)", "LoginGranted">>,
  <<"MfaRequired", "LcSendChallenge", "ChallengeSent">>,
  <<"ChallengeSent", "LcVerifyChallengeGuard", "ChallengeVerified">>,
  <<"ChallengeVerified", "LcGrant", "LoginGranted">>,
  <<"ChallengeSent", "deny", "LoginDenied">>}

View ==
  [registration |-> RegistrationView, email_verification |-> EmailVerificationView,
   password_reset |-> PasswordResetView, mfa_setup |-> MfaSetupView,
   login_challenge |-> LoginChallengeView]

-----------------------------------------------------------------------------
StepsFrom(state) == {s \in Flow[flow].steps : s.from = state}
StatesOf(f) == {Flow[f].error} \cup UNION {{s.from, s.to} : s \in Flow[f].steps}
Value(key) == IF key \in DOMAIN data THEN data[key] ELSE "absent"
Edge(s) == <<s.from, s.name, s.to>>
NoEdge == <<"", "", "">>

Stopped == StepsFrom(at) = {} \/ \E s \in StepsFrom(at) : s.kind = "external"

(* The error state; an IP that the allowlist refuses goes to Denied.       *)
ErrorStates ==
  {Flow[flow].error} \cup (IF flow = "proxy" /\ at = "Received" THEN {"Denied"} ELSE {})

FlowTypeOK ==
  /\ flow \in DOMAIN Flow
  /\ at \in StatesOf(flow) \cup {"Denied"}
  /\ \A k \in DOMAIN data : data[k] \in {"good", "bad", "made"}

(* start_flow with the initially available data. *)
FlowInit ==
  /\ flow \in DOMAIN Flow
  /\ at = Flow[flow].initial
  /\ \E v \in {"good", "bad"} : data = [k \in {Flow[flow].given} |-> v]
  /\ chain = 0
  /\ last = NoEdge

(* One auto step: a processor that fails sends the flow to the error state. *)
RunAuto(s) ==
  LET failed == \E k \in s.refuses : Value(k) = "bad" IN
  /\ s.kind = "auto" /\ chain <= Cardinality(StatesOf(flow))
  /\ IF failed
     THEN at' \in ErrorStates /\ UNCHANGED <<data, last>>
     ELSE /\ at' = s.to
          /\ data' = [k \in DOMAIN data \cup s.makes |-> IF k \in DOMAIN data THEN data[k] ELSE "made"]
          /\ last' = Edge(s)
  /\ chain' = chain + 1
  /\ UNCHANGED flow

RunBranch(s) ==
  /\ s.kind = "branch" /\ chain <= Cardinality(StatesOf(flow))
  /\ Value(s.key) \in s.picks
  /\ at' = s.to /\ last' = Edge(s)
  /\ chain' = chain + 1
  /\ UNCHANGED <<flow, data>>

(* MfaBranch returns a label that no branch of the definition has, which   *)
(* is an error of the engine.                                              *)
RunUnknown(s) ==
  /\ s.kind = "branch" /\ s.key = "MfaChoice" /\ chain <= Cardinality(StatesOf(flow))
  /\ Value(s.key) = "bad"
  /\ at' = Flow[flow].error
  /\ chain' = chain + 1
  /\ UNCHANGED <<flow, data, last>>

(* Mutant: any answer of the caller passes. *)
AcceptsAny(s, context) == s.key \in DOMAIN context

Accepts(s, context) ==
  s.key \in DOMAIN context /\ \A k \in s.refuses : context[k] # "bad"

(* resume_and_execute: what the caller brings replaces what is there, and  *)
(* stays when the guard rejects it.                                        *)
Resume(s) ==
  /\ s.kind = "external"
  /\ \E keys \in SUBSET ({s.key} \cup s.makes) : \E brought \in [keys -> {"good", "bad"}] :
       /\ data' = [k \in DOMAIN data \cup keys |-> IF k \in keys THEN brought[k] ELSE data[k]]
       /\ IF Accepts(s, data') THEN at' = s.to /\ last' = Edge(s) ELSE UNCHANGED <<at, last>>
  /\ chain' = 0
  /\ UNCHANGED flow

FlowNext ==
  \E s \in StepsFrom(at) : RunAuto(s) \/ RunBranch(s) \/ RunUnknown(s) \/ Resume(s)

-----------------------------------------------------------------------------
(* A processor or a branch never runs before the data that its requires()  *)
(* names, on any path of any definition: produces() of the steps before it *)
(* and what guards take from callers cover it.                             *)
FlowDataReady ==
  \A s \in StepsFrom(at) : s.needs \subseteq DOMAIN data

(* What the caller must have proved before a flow succeeds. *)
Proof ==
  [email_verification |-> {"VerificationProof"}, mfa |-> {"MfaCode"},
   password_reset |-> {"ResetTokenProof", "PasswordChangedData"},
   mfa_setup |-> {"ConfirmResult"}, device_grant |-> {"DeviceDecisionProof"},
   login_challenge |-> IF Value("LoginChallengeInit") = "good" THEN {"ChallengeProof"} ELSE {},
   invite |-> IF Value("InviteData") = "good" THEN {} ELSE {"InviteAcceptance"}]

(* A flow ends well only with the proofs its guards ask for: no login      *)
(* challenge is granted, no reset completed, no device approved on a bad   *)
(* answer, whatever branch and order of calls led there.                   *)
ProofBeforeSuccess ==
  flow \in DOMAIN Proof /\ StepsFrom(at) = {} /\ at \notin ErrorStates =>
    \A k \in Proof[flow] : Value(k) = "good"

(* viz.rs draws the flows from tables kept by hand whose "edges mirror the *)
(* tramli definitions": every step that runs is drawn, with its label, and *)
(* every edge drawn is a step or leads to the error state.                 *)
DrawnAsBuilt ==
  flow \in DOMAIN View =>
    /\ last \in View[flow] \cup {NoEdge}
    /\ \A e \in View[flow] : e[3] = Flow[flow].error \/ \E s \in Flow[flow].steps : e = Edge(s)

(* One call of the engine takes each state at most once: no cycle of auto  *)
(* and branch steps keeps start_flow or resume_and_execute from returning. *)
EngineCallEnds == chain > 0 => chain <= Cardinality(StatesOf(flow))

(***************************************************************************)
(* A flow does what its definition promises: every step finds its data, no *)
(* success without its proofs, the picture is the flow, and a call of the  *)
(* engine ends.                                                            *)
(***************************************************************************)
FlowsSound == FlowDataReady /\ ProofBeforeSuccess /\ DrawnAsBuilt /\ EngineCallEnds
=============================================================================
