CONSTANTS
  INT32_MAX = 31
  MAX_NUM_ACTIONS = 64
  MaxInvalidActions = 0
  MaxResponseMicros = 2
  MaxUsedHandMicros = 3
  MaxUsedMatchMicros = 3
  Setups <- RotatingSetup
  NumHands = 1
  Asks <- AllAsks
  ArrivalTimes = {0}
  MaxUnread = 1
  MaxRestarts = 0
SPECIFICATION SpecWithRecord
INVARIANTS
  BadActionsFailTheMatch
CHECK_DEADLOCK FALSE
