CONSTANTS
  INT32_MAX = 31
  MAX_NUM_ACTIONS = 64
  MaxStack = 6
  Games <- LimitShortStack
  Sizes = {0}
SPECIFICATION Spec
INVARIANTS
  MaxSpentIsLargestBet
