SPECIFICATION ForwardingOnlySpec
CONSTANTS
  \* Forwarding
  b1 = b1
  b2 = b2
  Requests = {r1}
  Backends = {b1}
  NoBackend = NoBackend
  Hosts <- MCHosts
  Tables <- OneTable
  CounterModulus = 2
  Threshold = 2
  RecoverySecs = 1
  BackendTimeout = 1
  RetryTimeout = 1
  \* Registration
  w1 = w1
  k1 = k1
  Workers = {w1}
  MaxAttempts = 2
  BatchLimit = 1
  MaxFaults = 0
  Flows = {f1}
  Calls = {k1}
  NoFlow = NoFlow
  MaxTokens = 2
PROPERTY ServerErrorsCount
