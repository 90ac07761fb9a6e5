SPECIFICATION RegistrationFairSpec
CONSTANTS
  Workers = {w1}
  MaxAttempts = 2
  BatchLimit = 1
  MaxFaults = 0
  Flows = {f1}
  Calls = {k1}
  NoFlow = NoFlow
  MaxTokens = 2
PROPERTIES
  LiveTokenAccepted
CHECK_DEADLOCK FALSE
