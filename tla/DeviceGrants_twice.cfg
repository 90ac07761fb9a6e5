INIT DeviceInit
NEXT DeviceNext
CONSTANTS
  Grants = {g1}
  Approvers = {u1, u2}
  Polls = {q1, q2}
  GrantTtl = 3
  PollInterval = 2
  MaxTime = 3
  MaxLostDeletes = 1
CHECK_DEADLOCK FALSE
INVARIANT DeviceCodeSingleUse
