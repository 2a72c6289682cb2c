SPECIFICATION FairSpec
CONSTANTS
  MaxMsgs = 6
  TxCap = 2
  MaxOutbox = 3
  LaneCap = 2
  MaxBackoff = 10
INVARIANTS
  TypeOK
  ConfirmationsFollowWire
  OutboxWithinSession
PROPERTIES
  PipeSpec
  CancelEnds
  CommandServedWhileUp
CHECK_DEADLOCK FALSE
