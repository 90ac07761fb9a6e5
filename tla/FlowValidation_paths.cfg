INIT ValidationOnlyInit
NEXT IdentityNext
CONSTANTS
  \* Sessions
  s1 = s1
  t1 = t1
  h1 = h1
  h2 = h2
  k1 = k1
  k2 = k2
  c1 = c1
  c2 = c2
  srv1 = srv1
  srv2 = srv2
  fin1 = fin1
  fin2 = fin2
  f1 = f1
  f2 = f2
  o1 = o1
  o2 = o2
  key1 = key1
  key2 = key2
  ch1 = ch1
  ch2 = ch2
  r1 = r1
  r2 = r2
  Codes = {code1}
  CodesAtOnce = 1
  SessionIds = {s1, s2}
  Tenants = {t1}
  RoleIn <- MCRoleIn
  Required = {"", "ADMIN"}
  Handlers = {h1, h2}
  MaxLost = 1
  MaxChanges = 1
  \* Memberships
  u1 = u1
  Members = {u1, u2}
  Founder = u1
  Requests = {k1, k2}
  NewRoles = {"OWNER", "ADMIN", "MEMBER"}
  Invites = {inv1}
  \* Logins
  e1 = e1
  Emails = {e1, e2}
  Registered = {e2}
  LocalPart <- MCLocalPart
  FirstRole <- MCFirstRole
  Subjects = {sub1, sub2}
  Devices = {d1}
  Flows = {f1, f2}
  Links = {l1}
  Calls = {c1, c2}
  MaxLostLinks = 1
  \* Passkeys
  PasskeyOwners = {u1}
  Credentials = {p1, p2}
  Counting = {p1}
  OwnerOf <- MCOwnerOf
  Copies = {o1, o2}
  Challenges = {ch1, ch2, ch3}
  Finishes = {fin1, fin2}
  MaxCount = 2
  \* AccountChooser
  Sids = {a1, a2, a3, a4}
  MaxAccounts = 2
  MaxFailures = 1
  \* DeviceGrants
  Grants = {g1}
  Approvers = {u1, u2}
  Polls = {q1, q2}
  GrantTtl = 3
  PollInterval = 2
  MaxTime = 3
  MaxLostDeletes = 1
  \* SigningKeys
  Keys = {key1, key2, key3}
  Servers = {srv1, srv2}
  Rotations = {r1, r2}
  NoKey = NoKey
  \* FlowValidation
  Edited = {"registration", "device_grant"}
  MaxEdits = 2
  States = {1, 2, 3, 4}
  InitialState = 1
  DataKeys = {"a", "b"}
  Tables <- MCTables
  \* AuthEvents
  ev1 = ev1
  AuthEvs = {a1, a2}
  BlockedEvs = {a1}
  Instances = {ev1, ev2}
  Erasures = {x1}
  \* Credentials, EndpointLimits
  AskedHosts <- MCAskedHosts
  Requested <- MCRequested
  HostPatterns <- MCHostPatterns
  Second = 2
  Horizon = 3
  Addresses = {"a1", "a2"}
  DefaultLimit = 2
  LimitWindow = 2
  LimitHorizon = 4
  \* OAuthProvider
  Users = {u1}
  Clients = {c1, c2}
  ScopeSets = {{}, {"openid"}, {"email"}}
  Offline = {c1, c2}
  AuthCodes = {x1}
  RefreshTokens = {t1, t2}
  Families = {fam1}
  OAuthCalls = {k1, k2}
  Nobody = Nobody
  MaxConsents = 2
  MaxAccess = 2
SYMMETRY IdentitySymmetry
CHECK_DEADLOCK FALSE
INVARIANT EveryPathChecked
