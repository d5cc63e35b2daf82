------------------------------ MODULE AnalLex ------------------------------
(***************************************************************************)
(* The lexical analyser of APP2, AnalLex.java: an automaton of four states *)
(* that cuts an arithmetic expression into terminals.  Its two fields      *)
(* mPtrLect and mEtat live on between two calls of prochainTerminal, so a  *)
(* call is a function of the text and of both.  mPtrLect is here the index *)
(* of the next character, counted from 1.                                  *)
(***************************************************************************)
EXTENDS Integers, Sequences, FiniteSets, SequencesExt

(* Classes of characters; Other stands for everything else.                *)
Digits == <<"0", "1", "2", "3", "4", "5", "6", "7", "8", "9">>
Upper == {"A", "B"}
Lower == {"a", "b"}
Letters == Upper \cup Lower
Operators == {"+", "-", "*", "/", "(", ")"}
Digit(c) == c \in ToSet(Digits)

(* The four states of the automaton: the next state, -1 where the terminal *)
(* ends, -2 for ExceptionLexicale.                                         *)
AtStart(c) ==
  CASE Digit(c) -> 1 [] c \in Upper -> 2 [] c \in Operators -> -1 [] OTHER -> -2
InConstant(c) == IF Digit(c) THEN 1 ELSE -1
InVariable(c) == CASE c \in Letters -> 2 [] c = "_" -> 3 [] OTHER -> -1

(* Mutation of AfterUnderscore: anything may follow "_".                   *)
AfterUnderscoreLoose(c) == 2

AfterUnderscore(c) == IF c \in Letters THEN 2 ELSE -2

Transition(etat, c) ==
  IF etat = 0 THEN AtStart(c)
  ELSE IF etat = 1 THEN InConstant(c)
  ELSE IF etat = 2 THEN InVariable(c)
  ELSE AfterUnderscore(c)

TypeIn(etat) == CASE etat = 0 -> "OPERATEUR" [] etat = 1 -> "CONSTANTE" [] OTHER -> "VARIABLE"

(* Mutation of PutBack: the state is not reset.                            *)
PutBackInState(etat) == etat

(* The state in which a call leaves the automaton when it puts a character *)
(* back; at the end of the text the state is kept.                         *)
PutBack(etat) == 0

(* What a call returns, and how it leaves the fields: a terminal, or       *)
(* ExceptionLexicale.                                                      *)
Found(chaine, type, p, e) ==
  [ok |-> TRUE, ptr |-> p, etat |-> e, terminal |-> [chaine |-> chaine, type |-> type]]
ExceptionLexicale(p, e) ==
  [ok |-> FALSE, ptr |-> p, etat |-> e, terminal |-> [chaine |-> << >>, type |-> "OPERATEUR"]]

(* The loop at character p in state e, in a call that began at from: what  *)
(* the call returns, which is scan[p + 1] of the next state if it goes on. *)
Scan(texte, from, p, e, scan) ==
  LET result == SubSeq(texte, from, p - 1)
      next == Transition(e, texte[p])
  IN CASE p > Len(texte) /\ e = 3 -> ExceptionLexicale(p, e)
       [] p > Len(texte) /\ e # 3 -> Found(result, TypeIn(e), p, e)
       [] p <= Len(texte) /\ next = -2 -> ExceptionLexicale(p + 1, e)
       [] p <= Len(texte) /\ next = -1 /\ e = 0 -> Found(<<texte[p]>>, "OPERATEUR", p + 1, 0)
       [] p <= Len(texte) /\ next = -1 /\ e # 0 -> Found(result, TypeIn(e), p, PutBack(e))
       [] OTHER -> scan[p + 1][next]

(* prochainTerminal(): the terminal found from ptr in state etat.          *)
ProchainTerminal(texte, ptr, etat) ==
  LET scan[p \in ptr .. Len(texte) + 1] == [e \in 0 .. 3 |-> Scan(texte, ptr, p, e, scan)]
  IN scan[ptr][etat]

-----------------------------------------------------------------------------
(* What a terminal is, said without the automaton. *)

(* The character at i goes on with the terminal of the character before it.*)
Continues(texte, i) ==
  /\ i > 1
  /\ \/ Digit(texte[i]) /\ Digit(texte[i - 1])
     \/ texte[i] \in Letters \cup {"_"} /\ texte[i - 1] \in Letters \cup {"_"}

(* The character at i may stand there.                                     *)
Acceptable(texte, i) ==
  \/ Digit(texte[i]) \/ texte[i] \in Upper \cup Operators
  \/ Continues(texte, i) /\ (texte[i] \in Lower \/ (texte[i] = "_" /\ texte[i - 1] # "_"))

(* "_" only stands between two letters.                                    *)
WellFormed(texte) ==
  \A i \in 1 .. Len(texte) :
    /\ Acceptable(texte, i)
    /\ texte[i] = "_" => i < Len(texte) /\ texte[i + 1] \in Letters

(* The number of the piece that the character at i belongs to.             *)
PieceNumber(texte, i) == Cardinality({j \in 1 .. i : ~Continues(texte, j)})

(* The longest pieces whose characters go on with each other.              *)
Pieces(texte) ==
  [k \in 1 .. PieceNumber(texte, Len(texte)) |->
     LET piece == {i \in 1 .. Len(texte) : PieceNumber(texte, i) = k}
     IN SubSeq(texte, Min(piece), Max(piece))]
=============================================================================
