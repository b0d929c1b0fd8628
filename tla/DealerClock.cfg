CONSTANTS
  INT32_MAX = 31
  MAX_NUM_ACTIONS = 64
  MaxInvalidActions = 0
  MaxResponseMicros = 2
  MaxUsedHandMicros = 2
  MaxUsedMatchMicros = 1
  Setups <- RotatingSetup
  NumHands = 2
  Asks <- CallsOnly
  ArrivalTimes = {0, 1, 3}
  MaxUnread = 1
  MaxRestarts = 1
SPECIFICATION SpecWithRecord
INVARIANTS
  TimeLimitSurvivesRestarts
PROPERTIES
  MatchEnds
CHECK_DEADLOCK FALSE
