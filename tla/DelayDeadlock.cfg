SPECIFICATION RoutingSpec
CONSTANTS
  MaxMsgs = 3
  MaxTime = 2
  Deadlines = {2}
  Soon = 1
  LaneCap = 1
  DelayCap = 1
  TxCap = 1
INVARIANT NoDelayCycle
CHECK_DEADLOCK FALSE
