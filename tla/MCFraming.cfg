SPECIFICATION FairSpec
CONSTANTS
  MaxByte = 3
  END = 0
  ESC = 1
  ESC_END = 2
  ESC_ESC = 3
  CR = 1
  LF = 0
  Codecs <- MCCodecs
  Payloads <- MCPayloads
  Noise <- MCNoise
  MaxMsgs = 2
  MaxRead = 6
  MaxBuffer = 6
  Timeout = 1
  Retry = 2
  MaxOther = 1
INVARIANTS NothingLost NoiseIsSeparated CompleteAtEof
PROPERTIES AllArrives
CHECK_DEADLOCK FALSE
