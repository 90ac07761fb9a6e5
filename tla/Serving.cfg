SPECIFICATION ServingSpec
CONSTANTS
  \* Forwarding
  b1 = b1
  b2 = b2
  Requests = {r1, r2}
  Backends = {b1, b2}
  NoBackend = NoBackend
  Hosts <- MCHosts
  Tables <- MCTables
  CounterModulus = 2
  Threshold = 2
  RecoverySecs = 1
  BackendTimeout = 1
  RetryTimeout = 1
  \* Registration
  w1 = w1
  k1 = k1
  Workers = {w1, w2}
  MaxAttempts = 2
  BatchLimit = 1
  MaxFaults = 1
  Flows = {f1}
  Calls = {k1, k2}
  NoFlow = NoFlow
  MaxTokens = 2
CHECK_DEADLOCK FALSE
INVARIANTS
  TypeOK
  BackendOfSnapshot
  NoStarvedBackend
  BreakerExact
  RegistrationSound
PROPERTIES
  RoutingDiscipline
  
  EventuallySettled
