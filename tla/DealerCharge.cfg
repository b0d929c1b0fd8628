CONSTANTS
  INT32_MAX = 31
  MAX_NUM_ACTIONS = 64
  MaxInvalidActions = 1
  MaxResponseMicros = 2
  MaxUsedHandMicros = 3
  MaxUsedMatchMicros = 3
  Setups <- RotatingSetup
  NumHands = 1
  Asks <- AllAsks
  ArrivalTimes = {0, 1}
  MaxUnread = 1
  MaxRestarts = 0
SPECIFICATION SpecWithRecord
INVARIANTS
  NobodyIsChargedTwice
CHECK_DEADLOCK FALSE
