\* A writer and a reader, run again and again and killed at any time.
CONSTANTS
  Readers = {r1}
  Writers = {w1}
  Mortal = {w1, r1}
  size = 5
  maxsize = 5
  Strings <- ToolStrings
SPECIFICATION ToolsSpec
CHECK_DEADLOCK FALSE
INVARIANTS FilledInOrder ReadsTheText
PROPERTIES EveryToolEnds
