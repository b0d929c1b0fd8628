CONSTANTS
  INT32_MAX = 31
  MAX_NUM_ACTIONS = 5
  MaxStack = 5
  Games <- AllGames
  Sizes = {0, 2, 3, 4, 5, 6}
SPECIFICATION Spec
INVARIANTS
  TypeOK
  SomebodyCanAct
  NobodyAnswersTwice
  NobodyIsPassedOver
  MaxSpentIsLargestBet
  BetsAreMatched
  AcceptedActionsAreSafe
  BettingDeterminesState
  SettlementIsZeroSum
  TableStakes
  BestHandDoesNotLose
  SidePotLoopAgrees
PROPERTIES
  ChipsStayIn
  HandsEnd
  ImplementsBetting
