SPECIFICATION MCSpec
CONSTANTS
  MaxMsgs = 3
  TxCap = 1
  MaxOutbox = 1
  LaneCap = 1
  MaxBackoff = 2
  MaxBatch = 2
  AutoResponse = TRUE
  HookCalls = {"command", "after"}
  MaxNow = 3
  Threshold = 1
  MaxScheduled = 2
  MaxSetBack = 1
  Batches <- MCBatches
INVARIANTS
  EarlyOnlyAfterLeft
  OneAfterCancel
PROPERTIES
  StopServedUnlessWaiting
  StopCompletes
  ScheduledIsSent
  BatchEnds
CHECK_DEADLOCK FALSE
