SPECIFICATION FairRoutingSpec
CONSTANTS
  MaxMsgs = 3
  MaxTime = 2
  Deadlines = {2}
  Soon = 1
  LaneCap = 2
  DelayCap = 1
  TxCap = 1
INVARIANTS
  RoutingTypeOK
  EachInOnePlace
  ImmediateInOrder
  NotAheadOfTime
PROPERTY MessagesSettle
CHECK_DEADLOCK FALSE
