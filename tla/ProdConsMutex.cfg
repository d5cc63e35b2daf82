\* The constructors do not overlap, so that only acquire is to blame.
CONSTANTS
  producer = p1
  consumer = c1
  sharedMemorySize = 4
  MaxId = 2
  Mortal = {}
  Empty = Empty
SPECIFICATION AfterConstructorsSpec
INVARIANTS MutualExclusion
