\* Tables of 2 x 2, 4 x 4 and 8 x 8, one too large; ints of 20 bits, two repetitions.
CONSTANTS
  HalfWord = 1024
  Multiplier = 343
  Sizes = {1, 2, 3, 7}
  NwalMax = 1
  NdctMax = 1
SPECIFICATION Spec
CHECK_DEADLOCK FALSE
INVARIANTS TypeOK TransformOfD InverseRestores CosineInverseRestores NeverStuck
PROPERTIES Terminates
