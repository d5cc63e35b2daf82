------------------------ MODULE MCDescenteRecursive ------------------------
(* The module TLC checks for DescenteRecursive, with its texts. *)
EXTENDS DescenteRecursiveInvariants

CONSTANTS
  LexLength,     (* the longest text over all classes of characters        *)
  SyntLength     (* the longest text over few constants and operators      *)

TextsOver(alphabet, length) == UNION {[1 .. k -> alphabet] : k \in 0 .. length}

AllTextes ==
  TextsOver({"2", "7", "A", "b", "_", "+", "*", ")", "."}, LexLength)
    \cup TextsOver({"7", "A", "-", "/", "(", ")"}, SyntLength)
    \cup {<<"(", x, "-", y, ")", op, z>> : x, y, z \in {"0", "2", "7"}, op \in {"+", "-", "*", "/"}}
=============================================================================
