\* Each process may be killed at any step and started again.
CONSTANTS
  producer = p1
  consumer = c1
  sharedMemorySize = 4
  MaxId = 3
  Mortal = {p1, c1}
  Empty = Empty
SPECIFICATION Spec
INVARIANTS TypeOK ParsesAnInteger CountInRange
PROPERTIES TokenLossIsPermanent EverybodyKeepsWorking ExclusionReturns UpdatesReturn
