CONSTANTS
  Ann = Ann
  Bob = Bob
  Limit = Limit
  NoLimit = NoLimit
  s1 = s1
  s2 = s2
  Users = {Ann, Bob}
  Games = {Limit, NoLimit}
  maxMatchRuns <- TwoRuns
  maxRunningJobs <- OneOfLimit
  maxRunningBots = 2
  Sessions = {s1, s2}
  Requests <- SomeRequests
  Says <- Dialogues
  MaySplit = {s1}
  MaxUnread = 2
  Slots = {1, 2, 3}
SPECIFICATION SpecWithHistory
INVARIANTS
  TypeOK
  NoStaleConnection
  JobsMatchTheirMatches
  LimitsHold
PROPERTIES
  TakesTurns
  ImplementsQueue
  EveryMatchEnds
CHECK_DEADLOCK FALSE
