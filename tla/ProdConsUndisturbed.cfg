\* Test-and-sets do not overlap, nobody is killed.
CONSTANTS
  producer = p1
  consumer = c1
  sharedMemorySize = 5
  MaxId = 5
  Mortal = {p1, c1}
  Empty = Empty
SPECIFICATION UndisturbedSpec
INVARIANTS NextPositionFree NextPositionFull
PROPERTIES ImplementsBuffer
