SPECIFICATION Spec
CONSTANTS
  MaxByte = 3
  END = 0
  ESC = 1
  ESC_END = 2
  ESC_ESC = 3
  CR = 1
  LF = 0
  Codecs <- SlipOnly
  Payloads <- MCPayloads
  Noise <- MCNoise
  MaxMsgs = 2
  MaxRead = 4
  MaxBuffer = 6
  Timeout = 1
  Retry = 2
  MaxOther = 1
CHECK_DEADLOCK FALSE
INVARIANT DecodesAllAvailable
