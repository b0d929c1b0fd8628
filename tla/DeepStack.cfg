CONSTANTS
  INT32_MAX = 63
  MAX_NUM_ACTIONS = 64
  ante = 1
  stack = 12
  bet_sizing <- PotBets
  game <- Leduc
  MaxHands = 2
SPECIFICATION Spec
INVARIANTS
  ReadsTheState
  TreeIsTheGame
  LookaheadIsDense
  ContinuesTheHand
PROPERTIES
  MatchGoesOn
CHECK_DEADLOCK FALSE
