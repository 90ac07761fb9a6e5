SPECIFICATION OAuthSpec
CONSTANTS
  Users = {u1}
  Clients = {c1, c2}
  ScopeSets = {{}, {"openid"}, {"email"}}
  Offline = {c1, c2}
  AuthCodes = {x1}
  RefreshTokens = {t1, t2}
  Families = {f1}
  OAuthCalls = {k1, k2}
  Nobody = Nobody
  MaxConsents = 2
  MaxAccess = 2
INVARIANT ReuseEndsFamily
