------------------------- MODULE DescenteRecursive -------------------------
(***************************************************************************)
(* The two programs of APP2.  "AnalLex" writes the terminals of a text to  *)
(* a file.  "DescenteRecursive" builds the syntax tree of an expression by *)
(* recursive descent, and writes the tree and its value to a file.         *)
(*                                                                         *)
(* The methods T_EXP, T_U and T_V call each other: pile is the stack of    *)
(* the calls that wait for a result, pc where the topmost one stands.  The *)
(* tree is a heap: a node refers to its children by their places in it.    *)
(***************************************************************************)
EXTENDS AnalLex, FiniteSets

CONSTANTS
  Textes,    (* the contents of the input file that are considered         *)
  IntMax     (* the largest int                                            *)

ASSUME TextesAssumption == \A t \in Textes : t \in Seq(STRING)
ASSUME IntMaxAssumption == IntMax \in Nat

VARIABLES
  main,     (* the program that runs                                       *)
  texte,    (* the text it reads                                           *)
  ptr,      (* mPtrLect of the lexical analyser                            *)
  etat,     (* mEtat of the lexical analyser                               *)
  courant,  (* mCourant, the terminal last read                            *)
  ouvertes, (* mParenthesesOuvertes                                        *)
  pile,     (* the calls that wait: [method, opt, gauche]                  *)
  pc,       (* "start", "T_V", "T_U", "T_EXP", "up_U", "up_EXP", "tree",   *)
            (* "null", "written" or "exit"                                *)
  arbre,    (* the nodes made so far: [terminal, gauche, droit]            *)
  n,        (* the node the last call returned                             *)
  toWrite,  (* what the output file contains when pc is "written"          *)
  valeur    (* {the value written}                                         *)

lexer == <<ptr, etat>>
parser == <<courant, ouvertes, pile, arbre, n>>
output == <<toWrite, valeur>>
vars == <<main, texte, lexer, parser, pc, output>>

Init ==
  /\ main \in {"AnalLex", "DescenteRecursive"}
  /\ texte \in Textes
  /\ ptr = 1
  /\ etat = 0
  /\ courant = [chaine |-> << >>, type |-> "OPERATEUR"]
  /\ ouvertes = 0
  /\ pile = << >>
  /\ pc = "start"
  /\ arbre = << >>
  /\ n = 0
  /\ toWrite = << >>
  /\ valeur = {}

Is(c) == courant.chaine = <<c>>
Operand == courant.type \in {"CONSTANTE", "VARIABLE"}
ResteTerminal == ptr <= Len(texte)
Suivant == ProchainTerminal(texte, ptr, etat)

(* The next terminal is read and control goes on at where; an exception of *)
(* the lexical analyser makes AnalSynt return null.                        *)
Read(where) ==
  /\ ptr' = Suivant.ptr
  /\ etat' = Suivant.etat
  /\ courant' = IF Suivant.ok THEN Suivant.terminal ELSE courant
  /\ pc' = IF Suivant.ok THEN where ELSE "null"

Throw == pc' = "null" /\ UNCHANGED <<lexer, parser>>

(* Mutation of MakeNode: the new node is its own child.                    *)
MakeNodeOwnChild ==
  /\ arbre' = Append(arbre, [terminal |-> Last(pile).opt, gauche |-> Last(pile).gauche, droit |-> Len(arbre) + 1])
  /\ n' = Len(arbre) + 1
  /\ pile' = Front(pile)

(* The call on top of the stack goes on with the result n of the call it   *)
(* made: a new node with both operands.                                    *)
MakeNode ==
  /\ arbre' = Append(arbre, [terminal |-> Last(pile).opt, gauche |-> Last(pile).gauche, droit |-> n])
  /\ n' = Len(arbre) + 1
  /\ pile' = Front(pile)

Call(methode) ==
  pile' = Append(pile, [methode |-> methode, opt |-> courant, gauche |-> n])

-----------------------------------------------------------------------------
(* The main program of AnalLex. *)

LexOne ==
  /\ main = "AnalLex" /\ pc = "start"
  /\ ResteTerminal
  /\ ptr' = Suivant.ptr
  /\ etat' = Suivant.etat
  /\ IF Suivant.ok
       THEN toWrite' = Append(toWrite, Suivant.terminal.chaine) /\ UNCHANGED pc
       ELSE pc' = "written" /\ UNCHANGED toWrite
  /\ UNCHANGED <<main, texte, parser, valeur>>

(* Reader leaves null for an empty file, and nothing is written then.      *)
LexEnd ==
  /\ main = "AnalLex" /\ pc = "start"
  /\ ~ResteTerminal
  /\ pc' = IF texte = << >> THEN "exit" ELSE "written"
  /\ UNCHANGED <<main, texte, lexer, parser, output>>

-----------------------------------------------------------------------------
(* The syntactic analysis. *)

AnalSynt ==
  /\ main = "DescenteRecursive" /\ pc = "start"
  /\ IF ResteTerminal
       THEN Read("T_V") /\ UNCHANGED <<ouvertes, pile, arbre, n>>
       ELSE Throw
  /\ UNCHANGED <<main, texte, output>>

Leaf ==
  /\ pc = "T_V"
  /\ Operand
  /\ arbre' = Append(arbre, [terminal |-> courant, gauche |-> 0, droit |-> 0])
  /\ n' = Len(arbre) + 1
  /\ Read("T_U")
  /\ UNCHANGED <<main, texte, ouvertes, pile, output>>

Open ==
  /\ pc = "T_V"
  /\ ~Operand /\ Is("(")
  /\ Read("T_V")
  /\ ouvertes' = IF Suivant.ok THEN ouvertes + 1 ELSE ouvertes
  /\ Call("T_V")
  /\ UNCHANGED <<main, texte, arbre, n, output>>

NoOperand ==
  /\ pc = "T_V"
  /\ ~Operand /\ ~Is("(")
  /\ Throw
  /\ UNCHANGED <<main, texte, output>>

Multiplicative == Is("*") \/ Is("/")
Additive == Is("+") \/ Is("-")

AfterV ==
  /\ pc = "T_U"
  /\ IF Multiplicative
       THEN Read("T_V") /\ Call("T_U")
       ELSE pc' = "up_U" /\ UNCHANGED <<lexer, courant, pile>>
  /\ UNCHANGED <<main, texte, ouvertes, arbre, n, output>>

(* T_U returns to a T_U that waits, or else to T_EXP.                      *)
UReturns ==
  /\ pc = "up_U"
  /\ IF pile # << >> /\ Last(pile).methode = "T_U"
       THEN MakeNode /\ UNCHANGED pc
       ELSE pc' = "T_EXP" /\ UNCHANGED <<pile, arbre, n>>
  /\ UNCHANGED <<main, texte, lexer, courant, ouvertes, output>>

(* Mutation of Misplaced: a ")" too many is not noticed.                   *)
MisplacedOperandOnly == Is("(") \/ (Operand /\ courant.chaine # << >>)

(* What T_EXP refuses after a U.                                           *)
Misplaced ==
  \/ Is("(")
  \/ Is(")") /\ ouvertes = 0
  \/ Operand /\ courant.chaine # << >>

AfterU ==
  /\ pc = "T_EXP"
  /\ CASE Additive -> Read("T_V") /\ Call("T_EXP") /\ UNCHANGED <<ouvertes, arbre, n>>
       [] ~Additive /\ Misplaced -> Throw
       [] OTHER -> pc' = "up_EXP" /\ UNCHANGED <<lexer, parser>>
  /\ UNCHANGED <<main, texte, output>>

ExpReturns ==
  /\ pc = "up_EXP"
  /\ pile # << >> /\ Last(pile).methode = "T_EXP"
  /\ MakeNode
  /\ UNCHANGED <<main, texte, lexer, courant, ouvertes, pc, output>>

(* Mutation of Close: the parenthesis still counts as open.                *)
CloseUncounted ==
  /\ pc = "up_EXP"
  /\ pile # << >> /\ Last(pile).methode = "T_V"
  /\ IF Is(")")
       THEN Read("T_U") /\ pile' = Front(pile) /\ UNCHANGED <<ouvertes, arbre, n>>
       ELSE Throw
  /\ UNCHANGED <<main, texte, output>>

(* T_EXP returns to the T_V that read "(".                                 *)
Close ==
  /\ pc = "up_EXP"
  /\ pile # << >> /\ Last(pile).methode = "T_V"
  /\ IF Is(")")
       THEN /\ Read("T_U")
            /\ ouvertes' = IF Suivant.ok THEN ouvertes - 1 ELSE ouvertes
            /\ pile' = Front(pile)
            /\ UNCHANGED <<arbre, n>>
       ELSE Throw
  /\ UNCHANGED <<main, texte, output>>

AnalSyntReturns ==
  /\ pc = "up_EXP"
  /\ pile = << >>
  /\ pc' = "tree"
  /\ UNCHANGED <<main, texte, lexer, parser, output>>

-----------------------------------------------------------------------------
(* The syntax tree. *)

(* LectAST(): the text of the tree below a node.                           *)
LectAST(nodes) ==
  LET lect[i \in DOMAIN nodes] ==
        IF nodes[i].gauche = 0
          THEN nodes[i].terminal.chaine
          ELSE <<"(">> \o lect[nodes[i].gauche] \o nodes[i].terminal.chaine
                 \o lect[nodes[i].droit] \o <<")">>
  IN lect

Ints == -IntMax - 1 .. IntMax
Wrap(x) == ((x + IntMax + 1) % (2 * IntMax + 2)) - IntMax - 1

(* The number that a sequence of digits stands for.                        *)
Numeral(chaine) ==
  LET value[k \in 0 .. Len(chaine)] ==
        IF k = 0 THEN 0
        ELSE 10 * value[k - 1] + (CHOOSE d \in 0 .. 9 : Digits[d + 1] = chaine[k])
  IN value[Len(chaine)]

(* parseInt(): the value of a constant, 0 when it does not fit an int.     *)
ParseInt(chaine) == IF Numeral(chaine) <= IntMax THEN Numeral(chaine) ELSE 0

(* Mutation of Quotient: the quotient is rounded down.                     *)
QuotientFloor(a, b) == IF b > 0 THEN a \div b ELSE (-a) \div (-b)

(* The quotient of two ints is rounded towards 0.                          *)
Quotient(a, b) ==
  LET Magnitude(x) == IF x < 0 THEN -x ELSE x
      q == Magnitude(a) \div Magnitude(b)
  IN IF (a < 0) = (b < 0) THEN q ELSE -q

Apply(op, a, b) ==
  IF op = <<"+">> THEN Wrap(a + b)
  ELSE IF op = <<"-">> THEN Wrap(a - b)
  ELSE IF op = <<"*">> THEN Wrap(a * b)
  ELSE Wrap(Quotient(a, b))

(* The operator of a node on the values of its children; a division by 0   *)
(* throws an exception.                                                    *)
Applied(op, left, right) ==
  {Apply(op, p[1], p[2]) : p \in {p \in left \X right : op # <<"/">> \/ p[2] # 0}}

(* EvalAST(): {the value of a node}, {} when it throws an exception.       *)
EvalAST(nodes) ==
  LET eval[i \in DOMAIN nodes] ==
        LET t == nodes[i].terminal
        IN IF nodes[i].gauche = 0
             THEN IF t.type = "CONSTANTE" THEN {ParseInt(t.chaine)} ELSE {}
             ELSE Applied(t.chaine, eval[nodes[i].gauche], eval[nodes[i].droit])
  IN eval

(* The file is written if the tree has a value, also LectAST() of null is  *)
(* an exception.                                                           *)
WriteResult ==
  /\ pc \in {"tree", "null"}
  /\ IF pc = "tree" /\ EvalAST(arbre)[n] # {}
       THEN /\ toWrite' = <<LectAST(arbre)[n]>>
            /\ valeur' = EvalAST(arbre)[n]
            /\ pc' = "written"
       ELSE pc' = "exit" /\ UNCHANGED output
  /\ UNCHANGED <<main, texte, lexer, parser>>

-----------------------------------------------------------------------------
T_V == Leaf \/ Open \/ NoOperand \/ Close
T_U == AfterV \/ UReturns
T_EXP == AfterU \/ ExpReturns

Next == LexOne \/ LexEnd \/ AnalSynt \/ T_V \/ T_U \/ T_EXP \/ AnalSyntReturns \/ WriteResult

Spec == Init /\ [][Next]_vars

-----------------------------------------------------------------------------
(* What an expression means, said without the descent: over the terminals  *)
(* t[i .. j] of a text. *)

Terminals == Pieces(texte)
Sums == {<<"+">>, <<"-">>}
Products == {<<"*">>, <<"/">>}

Depth(t, i, k) ==
  LET Count(c) == Cardinality({m \in i .. k - 1 : t[m] = <<c>>})
  IN Count("(") - Count(")")

(* The operator applied last: the first "+" or "-" outside parentheses,    *)
(* else the first "*" or "/"; 0 if there is none.                          *)
Outside(t, i, j, ops) == {k \in i .. j : t[k] \in ops /\ Depth(t, i, k) = 0}
Split(t, i, j) ==
  IF Outside(t, i, j, Sums) # {} THEN Min(Outside(t, i, j, Sums))
  ELSE IF Outside(t, i, j, Products) # {} THEN Min(Outside(t, i, j, Products))
  ELSE 0

Enclosed(t, i, j) == i < j /\ t[i] = <<"(">> /\ t[j] = <<")">>

(* The spans of terminals i .. j, the empty ones included.                 *)
Spans(t) == (1 .. Len(t) + 1) \X (0 .. Len(t))

(* {the expression i .. j with all its parentheses}, {} if it is none,     *)
(* from the readings of the spans inside.                                  *)
ReadSpan(t, i, j, reading) ==
  LET k == Split(t, i, j)
  IN IF k > 0
       THEN {<<"(">> \o p[1] \o t[k] \o p[2] \o <<")">> :
               p \in reading[<<i, k - 1>>] \X reading[<<k + 1, j>>]}
     ELSE IF i = j /\ t[i][1] \notin Operators THEN {t[i]}
     ELSE IF Enclosed(t, i, j) THEN reading[<<i + 1, j - 1>>]
     ELSE {}

Readings(t) ==
  LET reading[s \in Spans(t)] == ReadSpan(t, s[1], s[2], reading) IN reading

Reading(t) == Readings(t)[<<1, Len(t)>>]

(* {a op b in the integers}, {} if it is none or does not fit an int.      *)
Result(op, a, b) ==
  {v \in Ints :
     \/ op = <<"+">> /\ v = a + b
     \/ op = <<"-">> /\ v = a - b
     \/ op = <<"*">> /\ v = a * b
     \/ op = <<"/">> /\ \E r \in -IntMax .. IntMax : a = v * b + r /\ r * r < b * b /\ r * a >= 0}

(* {the value of i .. j in the integers}, {} if a part of it has none or   *)
(* one that does not fit an int.                                           *)
ExactSpan(t, i, j, exact) ==
  LET k == Split(t, i, j)
  IN IF k > 0
       THEN UNION {Result(t[k], p[1], p[2]) : p \in exact[<<i, k - 1>>] \X exact[<<k + 1, j>>]}
     ELSE IF i = j /\ t[i][1] \notin Operators
       THEN {v \in Ints : Digit(t[i][1]) /\ v = Numeral(t[i])}
     ELSE IF Enclosed(t, i, j) THEN exact[<<i + 1, j - 1>>]
     ELSE {}

Exacts(t) ==
  LET exact[s \in Spans(t)] == ExactSpan(t, s[1], s[2], exact) IN exact

Exact(t) == Exacts(t)[<<1, Len(t)>>]

-----------------------------------------------------------------------------
(* Properties. *)

(* A node of the tree is made after its children, and calls wait with an   *)
(* operand that exists.                                                    *)
TypeOK ==
  /\ main \in {"AnalLex", "DescenteRecursive"}
  /\ texte \in Textes
  /\ ptr \in 1 .. Len(texte) + 1
  /\ etat \in 0 .. 3
  /\ courant.chaine \in Seq(STRING)
  /\ courant.type \in {"OPERATEUR", "CONSTANTE", "VARIABLE"}
  /\ ouvertes \in Nat
  /\ pc \in {"start", "T_V", "T_U", "T_EXP", "up_U", "up_EXP", "tree", "null", "written", "exit"}
  /\ n \in 0 .. Len(arbre)
  /\ \A i \in DOMAIN arbre : arbre[i].gauche \in 0 .. i - 1 /\ arbre[i].droit \in 0 .. i - 1
  /\ \A k \in DOMAIN pile :
       /\ pile[k].methode \in {"T_V", "T_U", "T_EXP"}
       /\ pile[k].methode # "T_V" => pile[k].gauche \in DOMAIN arbre

(* The lexical analyser cuts the text where the class of its characters    *)
(* changes, neither loses nor repeats a character, and stops exactly at    *)
(* the texts that are not made of constants, variables and operators.      *)
TerminalsAreThePieces ==
  main = "AnalLex" /\ pc = "written" =>
    IF WellFormed(texte) THEN toWrite = Pieces(texte)
    ELSE /\ Len(toWrite) < Len(Pieces(texte))
         /\ IsPrefix(toWrite, Pieces(texte))

(* Every terminal uses up characters: the end of the text, which           *)
(* prochainTerminal returns as an empty terminal whose type depends on the *)
(* state it was left in, is never taken for an operand or written.         *)
EndIsNoTerminal ==
  [][Len(toWrite') + Len(arbre') > Len(toWrite) + Len(arbre) =>
       /\ \A k \in DOMAIN toWrite' : toWrite'[k] # << >>
       /\ \A i \in DOMAIN arbre' : arbre'[i].terminal.chaine # << >>]_vars

(* mParenthesesOuvertes is the number of parentheses open before the       *)
(* terminal at hand, whatever calls are waiting.                           *)
OpenParentheses ==
  pc \in {"T_V", "T_U", "T_EXP", "up_U", "up_EXP"} =>
    LET before == SubSeq(texte, 1, ptr - 1 - Len(courant.chaine))
        Count(c) == Cardinality({k \in DOMAIN before : before[k] = c})
    IN ouvertes = Count("(") - Count(")")

(* A tree is built exactly for the texts that are expressions, all of the  *)
(* text is in it, and its shape is the one of the expression: * and /      *)
(* before + and -, and operators of one kind from the right.               *)
TreeIsTheReading ==
  main = "DescenteRecursive" =>
    /\ pc = "tree" => WellFormed(texte) /\ Reading(Terminals) = {LectAST(arbre)[n]}
    /\ pc = "null" => ~WellFormed(texte) \/ Reading(Terminals) = {}

(* A file is written only for an expression without variables, and the     *)
(* value in it is the one of the integers if all its parts fit an int.     *)
WrittenValueIsExact ==
  main = "DescenteRecursive" /\ pc \in {"written", "exit"} =>
    /\ pc = "written" =>
         \A k \in DOMAIN Terminals : Terminals[k][1] \notin Letters
    /\ WellFormed(texte) => \A v \in Exact(Terminals) : pc = "written" /\ valeur = {v}
=============================================================================
