SPECIFICATION FairDataSpec
CONSTANTS
  MaxMsgs = 3
  TxCap = 1
  MaxOutbox = 1
  LaneCap = 1
  MaxBackoff = 2
  MaxBatch = 2
  AutoResponse = FALSE
  HookCalls = {}
PROPERTY StopServed
CHECK_DEADLOCK FALSE
