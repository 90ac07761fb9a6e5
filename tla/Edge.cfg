SPECIFICATION EdgeSpec
CONSTANTS
  \* RateLimiter
  i1 = i1
  IPs = {i1, i2}
  Callers = {q1, q2}
  GlobalLimit = 2
  PerIpLimit = 1
  Window = 2
  GcTtl = 3
  \* ResponseCache
  k1 = k1
  Keys = {k1, k2, k3}
  Requests = {r1, r2}
  MaxEntries = 2
  TTLs = {2}
  MaxVersion = 1
  Changing = {k1}
  \* Discovery
  b1 = b1
  b2 = b2
  Backends = {b1, b2}
  MaxEdits = 3
  Listed <- MCListed
  ChannelCap = 1
  \* WebhookOutbox
  Events = {e1}
  Hooks = {h1, h2}
  Switched = {h1}
  Workers = {w1, w2}
  MaxAttempts = 2
  MaxPanics = 2
  \* Connections
  Conns = {c1, c2, c3}
  MaxConcurrent = 2
  MaxWs = 1
  DrainTicks = 2
  MaxTunnels = 3
  \* GatewayAuth
  AuthRequests = {a1}
  SignKeys = {"k1", "k2"}
  FirstKey = "k1"
  \* Connections, the UDP relay
  UdpClients = {"x", "y", "z"}
  UdpAllowed = {"x", "y", "be"}
  UdpBackend = "be"
CHECK_DEADLOCK FALSE
INVARIANTS
  CacheSound
  RateBounds
  OutboxSound
  ConnectionsSound
  RevocationSeen
  RelaySound
PROPERTIES
  OnlyLruLost
  EventuallySeen
  EventuallyOver
