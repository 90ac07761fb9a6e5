--------------------------- MODULE RouteAdmission ---------------------------
(***************************************************************************)
(* Who may pass a route. Per-path rules are resolved and routes validated  *)
(* by gateway/src/config.rs; ProxyService::handle (proxy.rs) admits plain  *)
(* requests and handle_websocket (websocket.rs) upgrades, each with a copy *)
(* of its own of the same decision. A caller has a session on the auth     *)
(* server, with the role the server knows now, and a JWT, with the role it *)
(* was issued with. A path is its sequence of segments, a trailing slash   *)
(* an empty last one.                                                      *)
(***************************************************************************)
EXTENDS Policy, SequencesExt

CONSTANTS
    RulePaths,     \* request paths, sequences of segments
    RulePrefixes,  \* prefixes of rules
    MaxRules,      \* rules of a route at most
    RuleRoles,     \* roles a route or a rule asks for; one may be unknown
    CallerRoles    \* roles of callers

ASSUME RulePrefixesAssumption == RulePrefixes \subseteq Seq(STRING) /\ MaxRules \in Nat

VARIABLES
    ruling,        \* a resolution of rules: [rules, path, resolved]
    ask,           \* a route and a caller
    httpAnswer, wsAnswer

ruleVars == <<ruling>>
admissionVars == <<ask, httpAnswer, wsAnswer>>

NoRole == "none"

----------------------------------------------------------------------------
(* config.rs: resolve_auth_rule; proxy.rs: bypass_path_matches.            *)

SegmentMatch(path, prefix) ==
    \/ path = prefix
    \/ /\ Last(prefix) = "" /\ IsPrefix(Front(prefix), path) /\ Len(path) >= Len(prefix)
    \/ /\ Last(prefix) # "" /\ IsPrefix(prefix, path) /\ Len(path) > Len(prefix)

RuleMatches(rule, path) ==
    IF rule.exact THEN path = rule.prefix ELSE SegmentMatch(path, rule.prefix)

(* prefix.len(), with one-letter segments.                                  *)
PrefixLen(prefix) == 2 * Len(prefix) - (IF Last(prefix) = "" THEN 1 ELSE 0)

(* Mutant: the rules are tried in the order of the file. *)
AsListed(rules) == rules

(* The rules that sort_by_key puts before rule i: those with a longer       *)
(* prefix and, as the sort is stable, earlier ones with one as long.        *)
SortedBefore(rules, i) ==
    {j \in DOMAIN rules : \/ PrefixLen(rules[j].prefix) > PrefixLen(rules[i].prefix)
                          \/ PrefixLen(rules[j].prefix) = PrefixLen(rules[i].prefix) /\ j < i}

BySpecificity(rules) ==
    [k \in DOMAIN rules |->
        rules[CHOOSE i \in DOMAIN rules : Cardinality(SortedBefore(rules, i)) = k - 1]]

(* "OWNER" for an `auth` that is neither "public" nor a role.               *)
Resolve(auth) == IF auth = "typo" THEN "OWNER" ELSE auth

ResolveAuthRule(rules, path) ==
    LET sorted  == BySpecificity(rules)
        matches == {i \in DOMAIN sorted : RuleMatches(sorted[i], path)}
    IN  IF matches = {} THEN NoRole
        ELSE Resolve(sorted[CHOOSE i \in matches : \A j \in matches : i <= j].auth)

Rules == [prefix : RulePrefixes, exact : BOOLEAN, auth : {"public", "ADMIN", "typo"}]

RuleInit ==
    ruling \in {[rules |-> rs, path |-> p, resolved |-> "pending"] :
                rs \in UNION {[1..n -> Rules] : n \in 0..MaxRules}, p \in RulePaths}

ResolveRuling ==
    /\ ruling.resolved = "pending"
    /\ ruling' = [ruling EXCEPT !.resolved = ResolveAuthRule(ruling.rules, ruling.path)]

(* The most specific rule decides, wherever it stands in the file: nothing  *)
(* a shorter prefix says can override a longer one that matches, and a rule *)
(* with an unreadable `auth` never opens a path.                            *)
LongestPrefixDecides ==
    ruling.resolved # "pending" =>
        LET Hit == {i \in DOMAIN ruling.rules : RuleMatches(ruling.rules[i], ruling.path)}
        IN  \/ Hit = {} /\ ruling.resolved = NoRole
            \/ \E i \in Hit :
                /\ \A j \in Hit : PrefixLen(ruling.rules[j].prefix) <= PrefixLen(ruling.rules[i].prefix)
                /\ CASE ruling.rules[i].auth = "typo" -> ruling.resolved = "OWNER"
                     [] OTHER -> ruling.resolved = ruling.rules[i].auth

----------------------------------------------------------------------------
(* config.rs: validate_detailed, what it says of one route. `rule` is what  *)
(* the route's rules say of the request's path (NoRole: nothing).           *)

Routes == [public : BOOLEAN, softAuth : BOOLEAN, minRole : RuleRoles \union {NoRole},
           bypass : BOOLEAN,   \* the path matches an auth_bypass_path
           rule : {NoRole, "public"} \union RuleRoles]

(* Mutant: public and min_role are not held against each other. *)
ValidRouteLax(r) ==
    /\ r.minRole = NoRole \/ IsKnownRole(r.minRole)
    /\ ~(r.public /\ r.softAuth) /\ ~(r.softAuth /\ r.minRole # NoRole)
    /\ r.rule \in {NoRole, "public"} \/ IsKnownRole(r.rule)

ValidRoute(r) ==
    /\ r.minRole = NoRole \/ (IsKnownRole(r.minRole) /\ ~r.public)
    /\ ~(r.public /\ r.softAuth)
    /\ ~(r.softAuth /\ r.minRole # NoRole)
    /\ r.rule \in {NoRole, "public"} \/ IsKnownRole(r.rule)

----------------------------------------------------------------------------
(* auth.rs: one call of check_with_degraded_policy.                        *)

Callers == [session : {"none", "live", "revoked"}, role : CallerRoles, jwtRole : CallerRoles,
            up : BOOLEAN, degraded : BOOLEAN]

Authenticated(roles, local) == [is |-> "authenticated", roles |-> roles, local |-> local]
NotAuthenticated(why) == [is |-> why, roles |-> {}, local |-> FALSE]

CheckWithDegradedPolicy(c, minRole, allowFallback) ==
    IF c.up
    THEN CASE c.session # "live" -> NotAuthenticated("redirect")
           [] c.session = "live" /\ minRole # NoRole /\ ~EnforceMinRole({c.role}, minRole) ->
                NotAuthenticated("denied")
           [] OTHER -> Authenticated({c.role}, FALSE)
    ELSE IF allowFallback /\ c.degraded /\ c.session # "none"
         THEN Authenticated({c.jwtRole}, TRUE)
         ELSE NotAuthenticated("error")

----------------------------------------------------------------------------
(* The decision itself, for a path whose effective minimum role is minRole. *)

Forward(identity) == [status |-> "forward", roles |-> identity.roles, local |-> identity.local]
Answer(status) == [status |-> status, roles |-> {}, local |-> FALSE]
Anonymous == [is |-> "authenticated", roles |-> {}, local |-> FALSE]

(* Soft auth takes any failure for an anonymous caller.                     *)
Identify(r, c, skip, minRole) ==
    IF skip THEN Anonymous
    ELSE IF r.softAuth
         THEN LET a == CheckWithDegradedPolicy(c, minRole, TRUE)
              IN  IF a.is = "authenticated" THEN a ELSE Anonymous
         ELSE CheckWithDegradedPolicy(c, minRole, minRole = NoRole)

Refusal(why) == Answer(CASE why = "redirect" -> "302" [] why = "denied" -> "403" [] OTHER -> "502")

EnforceRole(r, identity, minRole) ==
    IF minRole # NoRole /\ ~r.bypass /\ ~EnforceMinRole(identity.roles, minRole)
    THEN Answer("403") ELSE Forward(identity)

(* Mutant: a rule's role does not count, the route's does. *)
RouteRoleOnly(r) == IF r.rule = "public" THEN NoRole ELSE r.minRole

(* handle: a matching rule replaces the route's role.                       *)
EffectiveRole(r) ==
    CASE r.rule = "public" -> NoRole [] r.rule = NoRole -> r.minRole [] OTHER -> r.rule

AdmitHttp(r, c) ==
    LET minRole  == EffectiveRole(r)
        identity == Identify(r, c, r.public \/ r.bypass \/ r.rule = "public", minRole)
    IN  IF identity.is # "authenticated" THEN Refusal(identity.is)
        ELSE IF r.public /\ minRole # NoRole THEN Answer("403")
        ELSE EnforceRole(r, identity, minRole)

(* Mutant: the upgrade of a bypassed path still asks for the role. *)
AdmitWsStrict(r, c) ==
    IF r.public /\ r.minRole # NoRole THEN Answer("403")
    ELSE LET identity == Identify(r, c, r.public \/ r.bypass, r.minRole)
         IN  IF identity.is # "authenticated" THEN Refusal(identity.is)
             ELSE EnforceRole([r EXCEPT !.bypass = FALSE], identity, r.minRole)

(* handle_websocket knows the route's own settings, not its auth_rules.     *)
AdmitWs(r, c) ==
    IF r.public /\ r.minRole # NoRole THEN Answer("403")
    ELSE LET identity == Identify(r, c, r.public \/ r.bypass, r.minRole)
         IN  IF identity.is # "authenticated" THEN Refusal(identity.is)
             ELSE EnforceRole(r, identity, r.minRole)

NoAnswer == Answer("pending")

AdmissionInit ==
    /\ ask \in [route : Routes, caller : Callers]
    /\ httpAnswer = NoAnswer /\ wsAnswer = NoAnswer

HandleHttp ==
    /\ httpAnswer = NoAnswer
    /\ httpAnswer' = AdmitHttp(ask.route, ask.caller)
    /\ UNCHANGED <<ask, wsAnswer>>

HandleWs ==
    /\ wsAnswer = NoAnswer /\ httpAnswer # NoAnswer
    /\ wsAnswer' = AdmitWs(ask.route, ask.caller)
    /\ UNCHANGED <<ask, httpAnswer>>

----------------------------------------------------------------------------
(* What the configuration says: a rule for the path before the route.       *)
Wanted(r) == IF r.rule = NoRole THEN r.minRole ELSE IF r.rule = "public" THEN NoRole ELSE r.rule
Opened(r) == r.bypass \/ (r.public /\ Wanted(r) = NoRole) \/ r.rule = "public"

(* A request that reaches the backend of a protected path comes from a live *)
(* session with the role the path asks for now. Degraded mode is the one    *)
(* exception, and only where no role is asked for; soft-auth paths let the  *)
(* anonymous pass, and are left out here together with rules on them.       *)
ProtectedPathsAskedServer ==
    httpAnswer.status = "forward" /\ ~Opened(ask.route) /\ ~ask.route.softAuth =>
        \/ /\ ask.caller.up /\ ask.caller.session = "live"
           /\ Wanted(ask.route) # NoRole =>
                EnforceMinRole({ask.caller.role}, Wanted(ask.route))
        \/ ~ask.caller.up /\ ask.caller.degraded /\ Wanted(ask.route) = NoRole

(* The two copies of the decision agree wherever no per-path rule matches   *)
(* (the WebSocket copy does not look at rules).                             *)
UpgradeAsRequest ==
    wsAnswer # NoAnswer /\ ask.route.rule = NoRole => wsAnswer = httpAnswer

(* Validation keeps out the settings that contradict each other: a route it *)
(* accepts serves a live OWNER on every path. One contradiction is left to  *)
(* it: a role rule on a public route, which refuses everybody.              *)
ValidRouteServesOwner ==
    /\ ValidRoute(ask.route) /\ httpAnswer # NoAnswer
    /\ ask.caller.up /\ ask.caller.session = "live" /\ ask.caller.role = "OWNER"
    /\ ~(ask.route.public /\ ask.route.rule \in RuleRoles)
    => httpAnswer.status = "forward"

(***************************************************************************)
(* Who passes a route: the most specific rule decides, what is protected   *)
(* is asked of the auth server, by HTTP and by WebSocket alike as far as   *)
(* the code does, and a valid route serves somebody.                       *)
(***************************************************************************)
AdmissionSound ==
    LongestPrefixDecides /\ ProtectedPathsAskedServer /\ UpgradeAsRequest /\ ValidRouteServesOwner
=============================================================================
