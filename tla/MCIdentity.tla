----------------------------- MODULE MCIdentity -----------------------------
(***************************************************************************)
(* The identity side of the auth server on small instances.  Concurrent    *)
(* calls of handlers interleave inside a part; the parts share no state    *)
(* that a property relates, so a behaviour exercises one area, picked at   *)
(* the start, and the others stay where they began.                        *)
(***************************************************************************)
EXTENDS Sessions, Memberships, Logins, Passkeys, AccountChooser, DeviceGrants, SigningKeys,
        FlowValidation, AuthEvents, Credentials, EndpointLimits, OAuthProvider

CONSTANTS s1, t1, e1, u1, ev1,
          h1, h2, k1, k2, c1, c2, fin1, fin2, f1, f2, o1, o2, key1, key2,
          ch1, ch2, r1, r2

VARIABLE area   \* the part this behaviour is about

Areas == {"sessions", "members", "logins", "passkeys", "chooser", "devices", "keys", "flows",
          "tables", "validation", "events", "credentials", "limits", "provider"}

-----------------------------------------------------------------------------
(* Values of the constants. *)

MCRoleIn == [t \in Tenants |-> IF t = t1 THEN "ADMIN" ELSE "MEMBER"]
MCLocalPart == [e \in Emails |-> IF e = e1 THEN "x" ELSE "y"]
MCFirstRole == [e \in Emails |-> IF e = e1 THEN "OWNER" ELSE "GUEST"]
MCOwnerOf == [k \in Credentials |-> u1]

(* Tables of four states: two branches that may join, loops, and a last    *)
(* state that needs what the others may have produced.                     *)
ShortSeqs(S) ==
  {<<>>} \cup {<<a>> : a \in S} \cup {<<p[1], p[2]>> : p \in {q \in S \X S : q[1] # q[2]}}
MCTables ==
  [next : {n \in [States -> ShortSeqs({2, 3, 4})] :
             /\ n[1] \in ShortSeqs({2, 3}) \ {<<>>}
             /\ n[4] \in {<<>>, <<2>>} /\ Len(n[3]) < 2},
   requires : {[s \in States |-> IF s = 4 THEN {"a", "b"} ELSE {}]},
   produces : {[s \in States |-> IF s = 2 THEN x ELSE IF s = 3 THEN y ELSE {}]
                 : x \in {{}, {"a"}}, y \in {{"a"}, {"b"}}}]

MCAskedHosts == {<<"ex">>, <<"app", "ex">>}
MCAsks(hosts, tokens, sessions, peers, claimed) ==
  [host : hosts, token : tokens, session : sessions, peer : peers, claims : claimed]
MCRequested ==
  MCAsks(MCAskedHosts, {"none", "temporary"}, {"none", "live"}, {"wan"}, {"none"})
  \cup MCAsks({<<"app", "ex">>}, Tokens, {"none", "live", "dead"}, {"wan"}, {"none"})
  \cup MCAsks({<<"app", "ex">>}, {"none", "foreign"}, {"none"}, {"lan", "wan", "trusted proxy"},
               {"none", "lan"})
MCHostPatterns == {[wild |-> TRUE, labels |-> <<"ex">>], [wild |-> FALSE, labels |-> <<"app", "ex">>]}
(* Interchangeable values.  A behaviour is about one area, so one swap may  *)
(* exchange values of several areas at once.                               *)
Swap(pairs) ==
  [v \in UNION {{p[1], p[2]} : p \in pairs} |->
     LET p == CHOOSE q \in pairs : v \in {q[1], q[2]} IN IF v = p[1] THEN p[2] ELSE p[1]]
IdentitySymmetry ==
  {Swap(pairs) : pairs \in
     {{<<h1, h2>>, <<k1, k2>>, <<c1, c2>>, <<r1, r2>>, <<fin1, fin2>>},
      {<<f1, f2>>, <<o1, o2>>, <<key1, key2>>, <<ch1, ch2>>}}}
-----------------------------------------------------------------------------
(* Where a part that the behaviour is not about stays. *)
Begin(a, start, still) == IF area = a THEN start ELSE still

StillSessions ==
  /\ SessionInit
  /\ given = {s1} /\ flagged = {} /\ session[s1].tenant = t1 /\ totp = "none" /\ passkey
StillMembers ==
  /\ MembershipInit
  /\ member = [m \in Members |-> IF m = Founder THEN [role |-> "OWNER", active |-> TRUE] ELSE NotMember]
StillLogins == LoginInit /\ identity = [s \in Subjects |-> NoOne]
StillFlow ==
  /\ flow = "mfa" /\ at = Flow["mfa"].initial /\ chain = 0 /\ last = NoEdge
  /\ data = [k \in {Flow["mfa"].given} |-> "good"]
StillTables == tables = <<>> /\ edits = 0 /\ server = "built" /\ tableWalk = NoWalk
StillValidation ==
  /\ table = [next |-> [s \in States |-> <<>>], requires |-> [s \in States |-> {}],
              produces |-> [s \in States |-> {}]]
  /\ walk = <<>> /\ visited = [s \in States |-> {}] /\ reported = {}
  /\ color = [s \in States |-> "white"] /\ frames = <<>> /\ path = <<>> /\ cycle = Running
StillEvents == AuthEventInit /\ evAt = [e \in AuthEvs |-> ev1]
StillLimits == LimitsInit /\ limiter = FromEnv({}, {})

IdentityInit ==
  /\ area \in Areas
  /\ Begin("sessions", SessionInit, StillSessions) /\ given = {s1}   \* by symmetry
  /\ Begin("members", MembershipInit, StillMembers)
  /\ Begin("logins", LoginInit, StillLogins)
  /\ PasskeyInit /\ ChooserInit /\ DeviceInit /\ KeyInit /\ CredentialInit /\ OAuthInit
  /\ Begin("tables", TablesInit, StillTables)
  /\ Begin("flows", FlowInit, StillFlow)
  /\ Begin("validation", ValidationInit, StillValidation)
  /\ Begin("events", AuthEventInit, StillEvents)
  /\ Begin("limits", LimitsInit, StillLimits)

(* Behaviours about flow definitions only. *)
ValidationOnlyInit == area = "validation" /\ IdentityInit

AreaStep ==
  \/ area = "sessions" /\ SessionNext
  \/ area = "members" /\ MembershipNext
  \/ area = "logins" /\ LoginNext
  \/ area = "passkeys" /\ PasskeyNext
  \/ area = "chooser" /\ ChooserNext
  \/ area = "devices" /\ DeviceNext
  \/ area = "keys" /\ KeyNext
  \/ area = "flows" /\ FlowNext
  \/ area = "tables" /\ TablesNext
  \/ area = "validation" /\ ValidationNext
  \/ area = "events" /\ AuthEventNext
  \/ area = "credentials" /\ CredentialNext
  \/ area = "limits" /\ LimitsNext
  \/ area = "provider" /\ OAuthNext

Keep(a, v) == IF area = a THEN TRUE ELSE UNCHANGED v

IdentityNext ==
  /\ UNCHANGED area
  /\ AreaStep
  /\ Keep("sessions", allSessionVars) /\ Keep("members", membershipVars)
  /\ Keep("logins", loginVars) /\ Keep("passkeys", passkeyVars)
  /\ Keep("chooser", chooserVars) /\ Keep("devices", deviceVars) /\ Keep("keys", keyVars)
  /\ Keep("flows", flowVars) /\ Keep("tables", tableVars) /\ Keep("validation", validationVars)
  /\ Keep("events", authEventVars) /\ Keep("credentials", credentialVars)
  /\ Keep("limits", limitVars) /\ Keep("provider", oauthVars)

identityVars == <<area, allSessionVars, membershipVars, loginVars, passkeyVars, chooserVars,
                  deviceVars, keyVars, flowVars, tableVars, validationVars, authEventVars,
                  credentialVars, limitVars, oauthVars>>
IdentitySpec == IdentityInit /\ [][IdentityNext]_identityVars

-----------------------------------------------------------------------------
(* Properties of several parts. *)

(***************************************************************************)
(* What is meant for one use has one: a login ticket, a passkey challenge  *)
(* and a counter value open one session, and the first decision on a       *)
(* device request stands, however many calls present it at once.  How many *)
(* tokens an approved request yields is DeviceCodeSingleUse, which the     *)
(* code does not keep.                                                     *)
(***************************************************************************)
SingleUse ==
  /\ TicketOpensOneSession /\ ChallengeOpensOneSession /\ CounterUsedOnce
  /\ FirstDecisionStands

(***************************************************************************)
(* Who a person is and where they belong: one account for a subject, one   *)
(* personal tenant, an owner in every tenant, the invited role, and the    *)
(* accounts a browser has signed in to.                                    *)
(***************************************************************************)
AccountsSound ==
  /\ OneUserPerSubject /\ OnePersonalTenant
  /\ OwnerKeptSerially /\ InvitationHonoured /\ AccountsRemembered

(***************************************************************************)
(* The checks of flow definitions find what they are for and end: what     *)
(* passes the gate stops, what the validator reports is real, and it       *)
(* reports a cycle exactly when there is one.                              *)
(***************************************************************************)
DefinitionsChecked == ServedTablesStop /\ ReportsAreReal /\ WalkEnds /\ CycleExact

(***************************************************************************)
(* What no step may do: revive a dead session, make a dead one the active  *)
(* account, move an identity to another user, or take a user's last one.   *)
(***************************************************************************)
NeverUndone == DeadStaysDead /\ PromotesLive /\ IdentityKeepsItsUser /\ LastIdentityKept
=============================================================================
