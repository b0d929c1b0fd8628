CONSTANTS
  INT32_MAX = 31
  MAX_NUM_ACTIONS = 64
  MaxInvalidActions = 1
  MaxResponseMicros = 2
  MaxUsedHandMicros = 3
  MaxUsedMatchMicros = 3
  Setups <- TinySetups
  NumHands = 2
  Asks <- AllAsks
  ArrivalTimes = {0}
  MaxUnread = 1
  MaxRestarts = 1
SPECIFICATION SpecWithRecord
INVARIANTS
  TypeOK
  RestartResumes
  LogAddsUp
  NoStaleAnswer
PROPERTIES
  ImplementsMatch
CHECK_DEADLOCK FALSE
