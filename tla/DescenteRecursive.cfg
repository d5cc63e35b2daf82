\* All texts of up to LexLength characters of every class, all of up to
\* SyntLength characters of the syntax, ints of 5 bits (-16 .. 15).
CONSTANTS
  LexLength = 4
  SyntLength = 5
  Textes <- AllTextes
  IntMax = 15
SPECIFICATION Spec
CHECK_DEADLOCK FALSE
INVARIANTS TypeOK TerminalsAreThePieces OpenParentheses TreeIsTheReading WrittenValueIsExact
PROPERTIES EndIsNoTerminal
