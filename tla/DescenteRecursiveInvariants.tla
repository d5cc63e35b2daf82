-------------------- MODULE DescenteRecursiveInvariants --------------------
(***************************************************************************)
(* Inductive invariants of DescenteRecursive, from which the theorems of   *)
(* module DescenteRecursiveProofs follow.                                  *)
(***************************************************************************)
EXTENDS DescenteRecursive

Types == {"OPERATEUR", "CONSTANTE", "VARIABLE"}
Terminal == [chaine : Seq(STRING), type : Types]

(* What a call of prochainTerminal() at from in state e returns: the piece *)
(* of the text it read, an operator alone or no operator at all; its state *)
(* is 0 again except at the end of the text.                               *)
Reads(t, from, e, r) ==
  /\ r.ptr \in from .. Len(t) + 1
  /\ r.etat \in 0 .. 3
  /\ r.ok =>
       /\ r.terminal \in Terminal
       /\ r.terminal.chaine = SubSeq(t, from, r.ptr - 1)
       /\ r.ptr <= Len(t) => r.etat = 0
       /\ r.terminal.type = "OPERATEUR" => r.etat = 0
       /\ from <= Len(t) => r.ptr > from
       /\ from > Len(t) => r.terminal.type = TypeIn(e)
       /\ IF r.terminal.type = "OPERATEUR" THEN r.ptr <= from + 1
          ELSE \A i \in from .. r.ptr - 1 : t[i] \notin Operators

(* What WellFormed says of one character.                                  *)
Sound(t, i) ==
  /\ Acceptable(t, i)
  /\ t[i] = "_" => i < Len(t) /\ t[i + 1] \in Letters

(* What a call at the first character of a piece returns: the whole piece, *)
(* whose characters are sound, with the type that its characters have, or  *)
(* an exception because one that follows is not sound.                     *)
Cuts(t, from, r) ==
  IF r.ok
    THEN /\ r.ptr - 1 \in from .. Len(t)
         /\ r.terminal.chaine = SubSeq(t, from, r.ptr - 1)
         /\ \A i \in from .. r.ptr - 1 : Sound(t, i)
         /\ \A i \in from + 1 .. r.ptr - 1 : Continues(t, i)
         /\ r.ptr <= Len(t) => ~Continues(t, r.ptr)
         /\ r.etat # 3
         /\ r.terminal.type = "OPERATEUR" => t[from] \in Operators
         /\ r.terminal.type = "CONSTANTE" => Digit(t[r.ptr - 1])
         /\ r.terminal.type = "VARIABLE" => ~Digit(t[r.ptr - 1])
    ELSE \E i \in from .. Len(t) : ~Sound(t, i)

-----------------------------------------------------------------------------
Noeud == [terminal : Terminal, gauche : Nat, droit : Nat]
Appel == [methode : {"T_V", "T_U", "T_EXP"}, opt : Terminal, gauche : Nat]

(* The analysis is under way. *)
Parsing == {"T_V", "T_U", "T_EXP", "up_U", "up_EXP"}

(* The characters read before the terminal at hand. *)
Before == ptr - 1 - Len(courant.chaine)

(* The terminal at hand is the piece of the text before the position.  The *)
(* automaton is in state 0 unless the text is at its end; an operator      *)
(* leaves it in state 0 there too, so that the end of the text, read after *)
(* an operator, is no operand.                                             *)
TerminalAtHand ==
  /\ main \in {"AnalLex", "DescenteRecursive"} /\ texte \in Textes
  /\ pc \in Parsing \cup {"start", "tree", "null", "written", "exit"}
  /\ ptr \in 1 .. Len(texte) + 1 /\ etat \in 0 .. 3
  /\ courant \in Terminal
  /\ pc \in Parsing \cup {"start"} => (ptr <= Len(texte) => etat = 0)
  /\ pc = "start" /\ main = "DescenteRecursive" => ptr = 1
  /\ pc \in Parsing =>
       /\ Before \in 0 .. ptr - 1
       /\ courant.chaine = SubSeq(texte, Before + 1, ptr - 1)
       /\ IF Operand THEN \A i \in Before + 1 .. ptr - 1 : texte[i] \notin Operators
          ELSE Len(courant.chaine) <= 1 /\ etat = 0
       /\ pc = "T_V" /\ Operand => courant.chaine # << >>

(* The characters of a tree's text: those of the input, and the two that   *)
(* LectAST() adds, which the provers do not know to be strings.            *)
Characters == STRING \cup {"(", ")"}

(* A node is a leaf or has two children made before it, and no terminal in *)
(* a tree is empty.                                                        *)
Tree(nodes) ==
  /\ nodes \in Seq(Noeud)
  /\ \A i \in 1 .. Len(nodes) :
       /\ nodes[i].terminal.chaine # << >>
       /\ \/ nodes[i].gauche = 0 /\ nodes[i].droit = 0
          \/ nodes[i].gauche \in 1 .. i - 1 /\ nodes[i].droit \in 1 .. i - 1

(* The calls that wait keep their operator, and their left operand if they *)
(* wait for the right one.                                                 *)
Calls(calls, nodes) ==
  /\ calls \in Seq(Appel)
  /\ \A k \in 1 .. Len(calls) :
       /\ calls[k].opt.chaine # << >>
       /\ calls[k].gauche \in 0 .. nodes
       /\ calls[k].methode # "T_V" => calls[k].gauche # 0

(* The tree grows from its leaves, and what a call returned is in it.      *)
TreeGrows ==
  /\ Tree(arbre)
  /\ Calls(pile, Len(arbre))
  /\ n \in 0 .. Len(arbre)
  /\ pc \in {"T_U", "T_EXP", "up_U", "up_EXP", "tree"} => n # 0
  /\ toWrite \in Seq(Seq(Characters) \ {<< >>})

(* How often c stands among the first m characters of the text; the calls  *)
(* that wait for a ")".                                                    *)
UpTo(c, m) == {k \in 1 .. m : texte[k] = c}
WaitForClose(calls) == {k \in 1 .. Len(calls) : calls[k].methode = "T_V"}

(* The counter of open parentheses is the number of calls that wait for a  *)
(* ")", and what the text says.                                            *)
ParenthesesCounted ==
  /\ ouvertes \in Nat
  /\ pc = "start" => ouvertes = 0 /\ pile = << >>
  /\ pc \in Parsing =>
       /\ ouvertes = Cardinality(WaitForClose(pile))
       /\ ouvertes = Cardinality(UpTo("(", Before)) - Cardinality(UpTo(")", Before))

(* AnalLex stands before a piece of the text; the pieces before it are in  *)
(* the file, and their characters are sound.                               *)
PiecesRead ==
  main = "AnalLex" =>
    /\ pc \in {"start", "written", "exit"}
    /\ pc = "start" =>
         /\ ptr <= Len(texte) => etat = 0 /\ ~Continues(texte, ptr)
         /\ \A i \in 1 .. ptr - 1 : Sound(texte, i)
         /\ Len(toWrite) = PieceNumber(texte, ptr - 1)
         /\ \A k \in 1 .. Len(toWrite) : toWrite[k] = Pieces(texte)[k]
    /\ TerminalsAreThePieces
-----------------------------------------------------------------------------
(* What the descent has read, as an expression.  Over the terminals t:     *)

(* No ")" of a .. b is without its "(", nor the other way round.           *)
Closed(t, a, b) ==
  /\ \A k \in a .. b + 1 : Depth(t, a, k) >= 0
  /\ Depth(t, a, b + 1) = 0

(* The tree below a node is the expression a .. b, none of the operators   *)
(* ops stands outside its parentheses, and its value is the one of the     *)
(* integers; a tree that has a value has no variables.                     *)
Stands(nodes, node, t, a, b, ops) ==
  /\ node \in 1 .. Len(nodes)
  /\ a \in 1 .. b /\ b \in 1 .. Len(t)
  /\ Closed(t, a, b)
  /\ Outside(t, a, b, ops) = {}
  /\ Readings(t)[<<a, b>>] = {LectAST(nodes)[node]}
  /\ \A v \in Exacts(t)[<<a, b>>] : v \in Ints /\ EvalAST(nodes)[node] = {v}
  /\ EvalAST(nodes)[node] # {} => \A k \in a .. b : t[k][1] \notin Letters

(* What may stand before an operand, and what may stand after one.         *)
Begins(terminal) == terminal[1] \notin Operators \/ terminal = <<"(">>
Ends(terminal) == terminal[1] \notin Operators \/ terminal = <<")">>

(* The number of the terminal at hand, one more than there are at the end. *)
Rank == PieceNumber(texte, Before) + 1

(* The position is behind a piece of the text, and the text before it is   *)
(* sound.                                                                  *)
BehindPiece ==
  /\ etat # 3
  /\ ptr <= Len(texte) => ~Continues(texte, ptr)
  /\ \A i \in 1 .. ptr - 1 : Sound(texte, i)

(* The terminal at hand is the one of its number, and of the type that its *)
(* first character has.                                                    *)
Numbered ==
  IF courant.chaine = << >> THEN ptr = Len(texte) + 1 /\ Rank = Len(Terminals) + 1
  ELSE /\ Rank \in 1 .. Len(Terminals)
       /\ courant.chaine = Terminals[Rank]
       /\ PieceNumber(texte, ptr - 1) = Rank
       /\ courant.chaine[1] \in Operators <=> ~Operand
       /\ courant.type = "CONSTANTE" <=> Digit(courant.chaine[1])

(* What was read are the first terminals of the text.                      *)
TerminalsRead ==
  main = "DescenteRecursive" /\ pc \in Parsing => BehindPiece /\ Numbered

(* A call that waits began at from, and stopped at its own operator.       *)
Waits(call, nodes, t, from, at) ==
  /\ at \in from .. Len(t)
  /\ call.opt.chaine = t[at]
  /\ call.methode = "T_V" => at = from /\ t[at] = <<"(">>
  /\ call.methode = "T_U" =>
       t[at] \in Products /\ Stands(nodes, call.gauche, t, from, at - 1, Sums \cup Products)
  /\ call.methode = "T_EXP" =>
       t[at] \in Sums /\ Stands(nodes, call.gauche, t, from, at - 1, Sums)

(* Each began behind the operator of the call below it.                    *)
Wait(calls, nodes, t, ends) ==
  /\ ends[0] = 0
  /\ \A k \in 1 .. Len(calls) : Waits(calls[k], nodes, t, ends[k - 1] + 1, ends[k])

(* What the call on top has read since from, with terminal r at hand:      *)
(* nothing yet in T_V, then an operand of "*" and "/", one of "+" and "-", *)
(* or a whole expression.                                                  *)
Returns(where, nodes, node, t, from, r) ==
  /\ r > 1 => (Ends(t[r - 1]) <=> where # "T_V")
  /\ where = "T_V" => r = from
  /\ where = "T_U" => Stands(nodes, node, t, from, r - 1, Sums \cup Products)
  /\ where \in {"up_U", "T_EXP"} => Stands(nodes, node, t, from, r - 1, Sums)
  /\ where = "up_EXP" => Stands(nodes, node, t, from, r - 1, {})

Descends(where, nodes, node, calls, t, r) ==
  \E ends \in [0 .. Len(calls) -> 0 .. Len(t)] :
    /\ Wait(calls, nodes, t, ends)
    /\ Returns(where, nodes, node, t, ends[Len(calls)] + 1, r)

(* The descent has read an expression as far as it has come, and ended     *)
(* with a tree for the whole text, or because the text is no expression.   *)
Descent ==
  main = "DescenteRecursive" =>
    /\ pc \in Parsing =>
         ouvertes = Depth(Terminals, 1, Rank) /\ Descends(pc, arbre, n, pile, Terminals, Rank)
    /\ pc \in {"up_U", "T_EXP", "up_EXP"} => ~Multiplicative
    /\ pc = "up_EXP" => (Is(")") /\ ouvertes # 0) \/ courant.chaine = << >>
    /\ pc = "tree" => WellFormed(texte) /\ Stands(arbre, n, Terminals, 1, Len(Terminals), {})
    /\ pc = "null" => ~WellFormed(texte) \/ Reading(Terminals) = {}
    /\ WrittenValueIsExact
=============================================================================
