\* Two processes write and read the token and a count of one digit; one of them may be killed.
CONSTANTS
  Readers = {u1, u2}
  Writers = {u1, u2}
  Mortal = {u1}
  size = 2
  maxsize = 3
  Strings <- TokenThenCount
SPECIFICATION Spec
CHECK_DEADLOCK FALSE
INVARIANTS TypeOK KnownStringWasStored UndisturbedReadIsExact
PROPERTIES WritesInsideSlot
