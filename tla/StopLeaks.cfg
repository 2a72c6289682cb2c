SPECIFICATION FairRoutingSpec
CONSTANTS
  MaxMsgs = 2
  MaxTime = 2
  Deadlines = {2}
  Soon = 1
  LaneCap = 1
  DelayCap = 1
  TxCap = 1
PROPERTY StopClearsPending
CHECK_DEADLOCK FALSE
