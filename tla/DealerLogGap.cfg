CONSTANTS
  INT32_MAX = 31
  MAX_NUM_ACTIONS = 64
  MaxInvalidActions = 1
  MaxResponseMicros = 2
  MaxUsedHandMicros = 3
  MaxUsedMatchMicros = 3
  Setups <- RotatingSetup
  NumHands = 1
  Asks <- CallsOnly
  ArrivalTimes = {0}
  MaxUnread = 1
  MaxRestarts = 1
SPECIFICATION SpecWithRecord
INVARIANTS
  LogIsComplete
CHECK_DEADLOCK FALSE
