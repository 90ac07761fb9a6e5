INIT StoreOnlyInit
NEXT GatewayNext
CONSTANTS
  \* HotConfig
  a1 = a1
  a2 = a2
  s1 = s1
  Keys <- MCKeys
  Vals <- MCVals
  Hosts <- MCHosts
  Absent = Absent
  Null = Null
  ValidConfigs <- MCValid
  BaseDocs <- OneBase
  Patches <- OnePatch
  Admins = {a1}
  Sources = {s1}
  Announcements <- MCAnnouncements
  ChannelCap = 1
  \* RouteAdmission, Listener
  RulePaths <- MCRulePaths
  RulePrefixes <- MCRulePrefixes
  MaxRules = 2
  RuleRoles = {"ADMIN", "BOGUS"}
  CallerRoles = {"OWNER", "MEMBER"}
  PathChars = {"%", "2", "5", "e", "."}
  MaxPath = 6
  \* ResponseShaping
  CorsPolicies <- MCCorsPolicies
  CallerOrigins <- MCCallerOrigins
  BackendExtras <- MCBackendExtras
  \* Plugins
  Payers = {u1}
  PluginCalls = {r1, r2}
  Chains <- MCChains
  MaxPerWindow = 1
  UserWindow = 2
  BillingTtl = 1
  FetchTimeout = 1
  CacheLimit = 1
  PluginClock = 3
  MaxPlan = 1
  MaxCalls = 3
  \* GatewayConfig, IdentityAssertion
  Configurations <- MCConfigurations
  AssertionUsers = {"u1", "u2"}
  LastKey = 3
  MaxSkew = 1
  AssertionHorizon = 8
INVARIANT HotMatchesStore
