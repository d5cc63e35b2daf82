\* Tables of 2 x 2, ints of 20 bits, one repetition more than the maximum.
CONSTANTS
  HalfWord = 1024
  Multiplier = 343
  Sizes = {1}
  NwalMax = 1
  NdctMax = 1
SPECIFICATION Spec
CHECK_DEADLOCK FALSE
INVARIANTS RepeatedAtMostMax
