CONSTANTS
  INT32_MAX = 63
  MAX_NUM_ACTIONS = 64
  ante = 1
  stack = 12
  bet_sizing <- PotBets
  game <- Leduc
  MaxHands = 2
SPECIFICATION SpecWithRestarts
INVARIANTS
  FirstStrategyAtFirstNode
CHECK_DEADLOCK FALSE
