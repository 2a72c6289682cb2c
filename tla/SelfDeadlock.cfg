SPECIFICATION DataSpec
CONSTANTS
  MaxMsgs = 3
  TxCap = 1
  MaxOutbox = 1
  LaneCap = 1
  MaxBackoff = 2
  MaxBatch = 2
  AutoResponse = TRUE
  HookCalls = {}
INVARIANT NoSelfDeadlock
CHECK_DEADLOCK FALSE
