CONSTANTS
  READBUF_LEN = 2
  maxLen = 3
  Timeouts <- ThreeLimits
  WORD = 6
  MaxBytes = 4
  MaxDelay = 2
SPECIFICATION Spec
INVARIANTS
  TypeOK
  NothingLost
  LinesAreLines
PROPERTIES
  ZeroIsTheEnd
  WaitsLongEnough
  EveryLineComesThrough
