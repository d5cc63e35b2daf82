\* The code as deployed, nobody is killed.
CONSTANTS
  producer = p1
  consumer = c1
  sharedMemorySize = 4
  MaxId = 3
  Mortal = {}
  Empty = Empty
SPECIFICATION Spec
INVARIANTS TokenNotLost
