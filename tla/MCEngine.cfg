SPECIFICATION MCSpec
CONSTANTS
  Callers = {c1}
  MaxConns = 2
  MaxSessions = 2
  MaxScripts = 2
  MaxBatches = 2
  Profiles <- MCProfiles
  Samples <- MCSamples
  Stamps = {0, 1}
  MaxGiven = 3
  MaxFrames = 2
  MaxPayload = 65535
  SeqRange = 2
  FlagSets <- MCFlagSets
  UpTime = 4
  TsRange = 6
  SeqModulus = 3
  SamplePeriod = 1
  Scale = 10
  RowCounts = {1, 2}
  MaxFlight <- MCFlight
  MaxSent <- MCSent
  MaxBoots <- MCBoots
  MaxClk = 4
  Mixes <- MCMixes
  Flaws = {"none", "url", "key", "rows"}
  Limit <- MCLimit
  PoolSize = 1
  MaxCalls <- MCMaxCalls
  MaxOpened = 2
  MaxBlocked = 3
  MaxParams = 5
  IntBits <- MCIntBits
  Inserts <- MCInserts
  Chunk = 2
  WarmupBuf = 2
  RecvBuf = 3
  MaxTimeouts = 2
  FrameSizes = {2}
  MaxArrived = 4
  MaxHanded = 3
INVARIANTS
  TypeOK
  TasksBelongToSession
  NoOrphanBatch
  CountIsOfSession
  StoppedScriptIsReplaced
  NoOverrun
  RoundTrip
  SessionStartsFresh
  DropsCounted
  DatesAreRight
  SteadyDates
  SyncInOrder
  BlockedAtMost
  RowsStored
  SerialLossless
PROPERTIES
  ControlSpec
  OnStopFirst
  NoClientAfterDisconnect
CHECK_DEADLOCK FALSE
