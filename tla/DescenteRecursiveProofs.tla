---------------------- MODULE DescenteRecursiveProofs ----------------------
(***************************************************************************)
(* Proofs about DescenteRecursive, for texts of every length.              *)
(***************************************************************************)
EXTENDS DescenteRecursiveInvariants, SequenceTheorems, FiniteSetTheorems, NaturalsInduction, TLAPS

(* A non-empty set of natural numbers has a least element.                 *)
LEMMA LeastNumber ==
  ASSUME NEW T, T \subseteq Nat, T # {}
  PROVE  \E x \in T : \A y \in T : x <= y
<1> DEFINE R == OpToRel(<, Nat)
<1>1. IsWellFoundedOn(R, Nat)
  BY NatLessThanWellFounded
<1>2. \A x, y \in Nat : y < x => <<y, x>> \in R
  BY DEF OpToRel
<1> HIDE DEF R
<1>3. PICK x \in T : \A y \in T : <<y, x>> \notin R
  BY <1>1, WFMin
<1>4. ASSUME NEW y \in T
      PROVE  x <= y
  <2>1. x \in Nat /\ y \in Nat /\ ~(y < x)
    BY <1>2, <1>3
  <2> QED
    BY <2>1
<1> QED
  BY <1>4

-----------------------------------------------------------------------------
(* prochainTerminal() in one call. *)

(* What the loop does at a character depends on the rest of the loop only  *)
(* through the next character.                                             *)
LEMMA ScanLooksAhead ==
  ASSUME NEW t, NEW from, NEW p, NEW e, NEW f, NEW g,
         p <= Len(t) => f[p + 1] = g[p + 1], Len(t) \in Nat, p \in Int
  PROVE  Scan(t, from, p, e, f) = Scan(t, from, p, e, g)
BY DEF Scan

(* The loop ends: the function that a call evaluates exists.               *)
LEMMA ScanExists ==
  ASSUME NEW t, NEW from \in Nat, Len(t) \in Nat
  PROVE  \E f : f = [p \in from .. Len(t) + 1 |-> [e \in 0 .. 3 |-> Scan(t, from, p, e, f)]]
<1> DEFINE last == Len(t) + 1
           Solves(f, b) == f = [p \in b .. last |-> [e \in 0 .. 3 |-> Scan(t, from, p, e, f)]]
           Unsolved == {k \in Nat : ~ \E f : Solves(f, last + 1 - k)}
<1>0. last \in Nat
  OBVIOUS
<1> HIDE DEF last
<1>1. 0 \notin Unsolved
  <2> DEFINE f == [p \in {} |-> p]
  <2>1. last + 1 - 0 .. last = {}
    BY <1>0
  <2>2. Solves(f, last + 1 - 0)
    BY <2>1
  <2> QED
    BY <2>2
<1>2. ASSUME NEW k \in Nat, k \notin Unsolved
      PROVE  k + 1 \notin Unsolved
  <2> DEFINE b == last + 1 - k
  <2>1. PICK f : Solves(f, b)
    BY <1>2
  <2> DEFINE g == [p \in b - 1 .. last |-> IF p = b - 1 THEN [e \in 0 .. 3 |-> Scan(t, from, p, e, f)] ELSE f[p]]
  <2>2. b \in Int /\ last + 1 - (k + 1) = b - 1
    BY <1>0
  <2> HIDE DEF b
  <2>3. \A p \in b - 1 .. last : p < last => p + 1 \in b .. last /\ g[p + 1] = f[p + 1]
    BY <2>2, <1>0
  <2>4. \A p \in b - 1 .. last : \A e \in 0 .. 3 :
           Scan(t, from, p, e, f) = Scan(t, from, p, e, g)
    <3> TAKE p \in b - 1 .. last
    <3> TAKE e \in 0 .. 3
    <3> HIDE DEF g
    <3>1. p <= Len(t) => f[p + 1] = g[p + 1]
      BY <2>2, <2>3, <1>0 DEF last
    <3> QED
      BY <3>1, <2>2, ScanLooksAhead
  <2>5. \A p \in b - 1 .. last : g[p] = [e \in 0 .. 3 |-> Scan(t, from, p, e, f)]
    <3> TAKE p \in b - 1 .. last
    <3>1. CASE p = b - 1
      BY <3>1
    <3>2. CASE p # b - 1
      <4>1. p \in b .. last
        BY <3>2, <2>2, <1>0
      <4> QED
        BY <4>1, <2>1, <3>2
    <3> QED
      BY <3>1, <3>2
  <2>6. Solves(g, b - 1)
    <3>1. g = [p \in b - 1 .. last |-> g[p]]
      OBVIOUS
    <3> HIDE DEF g
    <3>2. \A p \in b - 1 .. last : g[p] = [e \in 0 .. 3 |-> Scan(t, from, p, e, g)]
      BY <2>4, <2>5
    <3> QED
      BY <3>1, <3>2
  <2> QED
    BY <2>2, <2>6
<1>3. Unsolved = {}
  <2> SUFFICES ASSUME Unsolved # {} PROVE FALSE
    OBVIOUS
  <2>1. PICK k \in Unsolved : \A y \in Unsolved : k <= y
    BY LeastNumber
  <2>2. k \in Nat /\ k # 0
    BY <1>1
  <2>3. k - 1 \in Nat /\ ~(k <= k - 1) /\ (k - 1) + 1 = k
    BY <2>2
  <2> HIDE DEF Unsolved
  <2>4. k - 1 \notin Unsolved
    BY <2>1, <2>3
  <2> QED
    BY <2>3, <2>4, <1>2
<1>4. CASE from <= last
  <2>1. last + 1 - from \in Nat /\ last + 1 - (last + 1 - from) = from
    BY <1>0, <1>4
  <2>2. \E f : Solves(f, from)
    BY <1>3, <2>1
  <2> QED
    BY <2>2 DEF last
<1>5. CASE from > last
  <2> DEFINE f == [p \in {} |-> p]
  <2>1. from .. last = {}
    BY <1>0, <1>5
  <2>2. f = [p \in from .. last |-> [e \in 0 .. 3 |-> Scan(t, from, p, e, f)]]
    BY <2>1
  <2> QED
    BY <2>2 DEF last
<1> QED
  BY <1>4, <1>5, <1>0

(* A piece of a text.                                                      *)
LEMMA PieceOfText ==
  ASSUME NEW t \in Seq(STRING), NEW a \in 1 .. Len(t) + 1, NEW b \in a - 1 .. Len(t)
  PROVE  /\ SubSeq(t, a, b) \in Seq(STRING)
         /\ Len(SubSeq(t, a, b)) = b + 1 - a
<1>1. Len(t) \in Nat
  BY LenProperties
<1>2. a \in Int /\ b \in Int /\ \A i \in a .. b : i \in 1 .. Len(t)
  BY <1>1
<1>3. \A i \in a .. b : t[i] \in STRING
  BY <1>2, ElementOfSeq
<1>4. /\ SubSeq(t, a, b) \in Seq(STRING)
      /\ Len(SubSeq(t, a, b)) = IF a <= b THEN b - a + 1 ELSE 0
  BY <1>2, <1>3, SubSeqProperties
<1> QED
  BY <1>1, <1>4

LEMMA OneCharacter ==
  ASSUME NEW t \in Seq(STRING), NEW p \in 1 .. Len(t)
  PROVE  SubSeq(t, p, p) = <<t[p]>>
<1>1. p \in 1 .. Len(t) /\ t[p] \in STRING /\ p <= p /\ p - p + 1 = 1 /\ p + 1 - 1 = p
  BY LenProperties, ElementOfSeq
<1>2. /\ SubSeq(t, p, p) \in Seq(STRING)
      /\ Len(SubSeq(t, p, p)) = 1
      /\ SubSeq(t, p, p)[1] = t[p]
  BY <1>1, SubSeqProperties
<1>3. <<t[p]>> \in Seq(STRING) /\ Len(<<t[p]>>) = 1 /\ <<t[p]>>[1] = t[p]
  BY <1>1
<1>4. \A i \in 1 .. 1 : SubSeq(t, p, p)[i] = <<t[p]>>[i]
  BY <1>2, <1>3
<1> QED
  BY <1>2, <1>3, <1>4, SeqEqual

LEMMA NoDigitIsAnOperator ==
  ASSUME NEW c
  PROVE  /\ Digit(c) => c \notin Operators
         /\ c \in Letters \cup {"_"} => ~Digit(c) /\ c \notin Operators
<1>1. ASSUME Digit(c)
      PROVE  c \notin Operators /\ c \notin Letters \cup {"_"}
  <2>1. PICK i \in 1 .. 10 : c = Digits[i]
    BY <1>1 DEF Digit, ToSet, Digits
  <2>2. c \in {"0", "1", "2", "3", "4", "5", "6", "7", "8", "9"}
    BY <2>1 DEF Digits
  <2> QED
    BY <2>2 DEF Operators, Letters, Upper, Lower
<1>2. c \in Letters \cup {"_"} => c \notin Operators
  BY DEF Letters, Upper, Lower, Operators
<1> QED
  BY <1>1, <1>2

(* The automaton leaves state 0 by a digit or a letter, and goes on with   *)
(* digits, letters and "_".                                                *)
LEMMA Transitions ==
  ASSUME NEW e \in 0 .. 3, NEW c
  PROVE  /\ Transition(e, c) \in {-2, -1, 1, 2, 3}
         /\ Transition(e, c) \in 1 .. 3 => c \notin Operators
         /\ e = 0 /\ Transition(e, c) = -1 => c \in Operators
         /\ e = 3 => Transition(e, c) # -1
<1> DEFINE digit == Digit(c)
           upper == c \in Upper
           letter == c \in Letters
           line == c = "_"
           operator == c \in Operators
<1>1. /\ digit => ~operator /\ ~upper
      /\ upper => ~operator
      /\ letter \/ line => ~operator
      /\ letter => ~line
  BY NoDigitIsAnOperator DEF Letters, Upper, Lower
<1>2. /\ digit => AtStart(c) = 1
      /\ upper => AtStart(c) = 2
      /\ operator => AtStart(c) = -1
      /\ ~digit /\ ~upper /\ ~operator => AtStart(c) = -2
  BY <1>1, Zenon DEF AtStart
<1>3. /\ letter => InVariable(c) = 2
      /\ line => InVariable(c) = 3
      /\ ~letter /\ ~line => InVariable(c) = -1
  BY <1>1, Zenon DEF InVariable
<1>4. /\ digit => InConstant(c) = 1
      /\ ~digit => InConstant(c) = -1
  BY DEF InConstant
<1>5. /\ letter => AfterUnderscore(c) = 2
      /\ ~letter => AfterUnderscore(c) = -2
  BY DEF AfterUnderscore
<1>6. Transition(e, c) = IF e = 0 THEN AtStart(c)
                         ELSE IF e = 1 THEN InConstant(c)
                         ELSE IF e = 2 THEN InVariable(c)
                         ELSE AfterUnderscore(c)
  BY DEF Transition
<1> HIDE DEF digit, upper, letter, line
<1> SUFFICES /\ Transition(e, c) \in {-2, -1, 1, 2, 3}
             /\ Transition(e, c) \in 1 .. 3 => ~operator
             /\ e = 0 /\ Transition(e, c) = -1 => operator
             /\ e = 3 => Transition(e, c) # -1
  OBVIOUS
<1> HIDE DEF operator
<1> QED
  BY <1>1, <1>2, <1>3, <1>4, <1>5, <1>6

(* Where the loop of a call that began at from may stand.                  *)
Reached(t, from, p, e) ==
  IF p = from THEN p <= Len(t) => e = 0
  ELSE e \in 1 .. 3 /\ \A i \in from .. p - 1 : t[i] \notin Operators

(* One turn of the loop: what the call returns is as it should be if that  *)
(* of the later turns is.                                                  *)
LEMMA ScanStep ==
  ASSUME NEW t \in Seq(STRING), NEW from \in 1 .. Len(t) + 1, NEW e0 \in 0 .. 3,
         NEW p \in from .. Len(t) + 1, NEW e \in 0 .. 3, NEW scan,
         Reached(t, from, p, e), p = from => e = e0,
         p <= Len(t) => \A d \in 1 .. 3 :
           Reached(t, from, p + 1, d) => Reads(t, from, e0, scan[p + 1][d])
  PROVE  Reads(t, from, e0, Scan(t, from, p, e, scan))
<1> DEFINE r == Scan(t, from, p, e, scan)
           next == Transition(e, t[p])
<1>0. Len(t) \in Nat
  BY LenProperties
<1>7. SubSeq(t, from, p - 1) \in Seq(STRING)
  <2>1. p - 1 \in from - 1 .. Len(t)
    BY <1>0
  <2> QED
    BY <2>1, PieceOfText
<1>1. CASE p > Len(t) /\ e = 3
  <2>1. r = ExceptionLexicale(p, e)
    BY <1>1 DEF Scan
  <2> HIDE DEF r
  <2>2. Reads(t, from, e0, r)
    BY <2>1, <1>0 DEF ExceptionLexicale, Reads
  <2> QED
    BY <2>2 DEF r
<1>2. CASE p > Len(t) /\ e # 3
  <2>1. r = Found(SubSeq(t, from, p - 1), TypeIn(e), p, e)
    BY <1>2, <1>0 DEF Scan
  <2>2. TypeIn(e) \in Types /\ (TypeIn(e) = "OPERATEUR" => e = 0)
    BY DEF TypeIn, Types
  <2>3. p = Len(t) + 1 /\ (from <= Len(t) => p # from /\ p > from /\ e \in 1 .. 3)
    BY <1>2, <1>0 DEF Reached
  <2>4. \A i \in from .. p - 1 : t[i] \notin Operators
    BY <1>0 DEF Reached
  <2>5. from > Len(t) => p = from /\ e = e0
    BY <1>0
  <2>6. /\ r.ptr = p /\ r.etat = e /\ r.terminal.type = TypeIn(e)
        /\ r.terminal.chaine = SubSeq(t, from, r.ptr - 1) /\ r.terminal \in Terminal
    BY <2>1, <2>2, <1>7 DEF Found, Terminal
  <2>7. ~(p <= Len(t)) /\ (from <= Len(t) => p > from /\ r.terminal.type # "OPERATEUR")
    BY <2>2, <2>3, <2>6, <1>0
  <2> HIDE DEF r
  <2>8. Reads(t, from, e0, r)
    BY <2>2, <2>4, <2>5, <2>6, <2>7 DEF Reads
  <2> QED
    BY <2>8 DEF r
<1>3. CASE p <= Len(t) /\ next = -2
  <2>1. r = ExceptionLexicale(p + 1, e)
    BY <1>3, <1>0 DEF Scan
  <2>2. p + 1 \in from .. Len(t) + 1
    BY <1>3, <1>0
  <2>3. r.ptr = p + 1 /\ r.etat = e /\ ~r.ok
    BY <2>1 DEF ExceptionLexicale
  <2> HIDE DEF r
  <2>4. Reads(t, from, e0, r)
    BY <2>2, <2>3 DEF Reads
  <2> QED
    BY <2>4 DEF r
<1>4. CASE p <= Len(t) /\ next = -1 /\ e = 0
  <2>1. r = Found(<<t[p]>>, "OPERATEUR", p + 1, 0)
    BY <1>4, <1>0 DEF Scan
  <2>2. p = from
    BY <1>4 DEF Reached
  <2>3. SubSeq(t, p, p) = <<t[p]>>
    <3>1. p \in 1 .. Len(t)
      BY <1>4, <1>0
    <3> QED
      BY <3>1, OneCharacter
  <2>4. p \in Nat /\ (p + 1) - 1 = p
    BY <1>0
  <2>5. r.terminal.chaine = SubSeq(t, from, r.ptr - 1)
    BY <2>1, <2>2, <2>3, <2>4 DEF Found
  <2>6. <<t[p]>> \in Seq(STRING)
    <3>1. t[p] \in STRING
      BY <1>0, <1>4
    <3> QED
      BY <3>1
  <2>7. /\ r.ptr = from + 1 /\ r.etat = 0 /\ r.terminal.type = "OPERATEUR"
        /\ r.terminal \in Terminal
    BY <2>1, <2>2, <2>6 DEF Found, Types, Terminal
  <2>8. from \in Int /\ from <= Len(t) /\ from + 1 \in from .. Len(t) + 1
        /\ from + 1 > from /\ ~(from > Len(t)) /\ 0 \in 0 .. 3
    BY <1>0, <1>4, <2>2
  <2> HIDE DEF r
  <2>9. Reads(t, from, e0, r)
    BY <2>5, <2>7, <2>8, <1>0 DEF Reads
  <2> QED
    BY <2>9 DEF r
<1>5. CASE p <= Len(t) /\ next = -1 /\ e # 0
  <2>1. r = Found(SubSeq(t, from, p - 1), TypeIn(e), p, 0)
    BY <1>5, <1>0 DEF Scan, PutBack
  <2>2. TypeIn(e) \in Types \ {"OPERATEUR"}
    BY <1>5 DEF TypeIn, Types
  <2>3. p # from /\ \A i \in from .. p - 1 : t[i] \notin Operators
    BY <1>5 DEF Reached
  <2>4. /\ r.ptr = p /\ r.etat = 0 /\ r.terminal.type # "OPERATEUR"
        /\ r.terminal.chaine = SubSeq(t, from, r.ptr - 1) /\ r.terminal \in Terminal
    BY <2>1, <2>2, <1>7 DEF Found, Terminal
  <2>5. p > from /\ ~(from > Len(t)) /\ 0 \in 0 .. 3
    BY <1>0, <1>5, <2>3
  <2> HIDE DEF r
  <2>6. Reads(t, from, e0, r)
    BY <2>3, <2>4, <2>5 DEF Reads
  <2> QED
    BY <2>6 DEF r
<1>6. CASE p <= Len(t) /\ next # -2 /\ next # -1
  <2>1. r = scan[p + 1][next]
    BY <1>6, <1>0 DEF Scan
  <2>2. next \in 1 .. 3 /\ t[p] \notin Operators
    BY <1>6, Transitions
  <2>3. Reached(t, from, p + 1, next)
    BY <2>2, <1>0 DEF Reached
  <2> QED
    BY <2>1, <2>2, <2>3, <1>6
<1> QED
  BY <1>0, <1>1, <1>2, <1>3, <1>4, <1>5, <1>6

(* With i characters left before l + 1, the position after a has i - 1 left,  *)
(* and is a later one of the same range.                                      *)
LEMMA OneFurther ==
  ASSUME NEW i \in Nat, NEW a \in Int, NEW b \in Int, NEW l \in Int,
         b <= a, a <= l, i + a = l + 1
  PROVE  /\ i - 1 \in Nat /\ ~(i <= i - 1) /\ (i - 1) + (a + 1) = l + 1
         /\ a + 1 \in b .. l + 1 /\ a + 1 # b
OBVIOUS

(* prochainTerminal() returns as it should, in state 0 and at the end of   *)
(* the text.                                                               *)
LEMMA ProchainTerminalReads ==
  ASSUME NEW t \in Seq(STRING), NEW from \in 1 .. Len(t) + 1, NEW e0 \in 0 .. 3,
         from <= Len(t) => e0 = 0
  PROVE  Reads(t, from, e0, ProchainTerminal(t, from, e0))
<1> DEFINE Solves(f) == f = [p \in from .. Len(t) + 1 |-> [e \in 0 .. 3 |-> Scan(t, from, p, e, f)]]
           scan == CHOOSE f : Solves(f)
<1>0. Len(t) \in Nat
  BY LenProperties
<1>1. Solves(scan)
  <2>1. \E f : Solves(f)
    BY <1>0, ScanExists
  <2> QED
    BY <2>1
<1>2. ProchainTerminal(t, from, e0) = scan[from][e0]
  BY DEF ProchainTerminal
<1>3. PICK f : Solves(f) /\ ProchainTerminal(t, from, e0) = f[from][e0]
  BY <1>1, <1>2
<1> HIDE DEF scan
<1> DEFINE Wrong == {k \in Nat : \E p \in from .. Len(t) + 1, e \in 0 .. 3 :
                       /\ k + p = Len(t) + 1
                       /\ Reached(t, from, p, e)
                       /\ p = from => e = e0
                       /\ ~Reads(t, from, e0, f[p][e])}
<1>4. Wrong = {}
  <2> SUFFICES ASSUME Wrong # {} PROVE FALSE
    OBVIOUS
  <2>1. PICK k \in Wrong : \A y \in Wrong : k <= y
    BY LeastNumber
  <2>2. PICK p \in from .. Len(t) + 1, e \in 0 .. 3 :
           /\ k + p = Len(t) + 1
           /\ Reached(t, from, p, e)
           /\ p = from => e = e0
           /\ ~Reads(t, from, e0, f[p][e])
    BY <2>1
  <2>3. f[p][e] = Scan(t, from, p, e, f)
    <3>1. f = [q \in from .. Len(t) + 1 |-> [d \in 0 .. 3 |-> Scan(t, from, q, d, f)]]
      BY <1>3
    <3>2. f[p] = [d \in 0 .. 3 |-> Scan(t, from, p, d, f)]
      BY <3>1, Zenon
    <3> QED
      BY <3>2
  <2>4. ASSUME p <= Len(t), NEW d \in 1 .. 3, Reached(t, from, p + 1, d)
        PROVE  Reads(t, from, e0, f[p + 1][d])
    <3>1. /\ k \in Nat /\ p \in Int /\ from \in Int
          /\ from <= p /\ p <= Len(t) /\ k + p = Len(t) + 1
      <4>1. k \in Nat
        BY <2>1
      <4>2. p \in Int /\ from \in Int /\ from <= p
        BY <1>0
      <4>3. p <= Len(t) /\ k + p = Len(t) + 1
        BY <2>2, <2>4
      <4> QED
        BY <4>1, <4>2, <4>3, Zenon
    <3>2. Len(t) \in Int
      BY <1>0
    <3>3. /\ k - 1 \in Nat /\ ~(k <= k - 1) /\ (k - 1) + (p + 1) = Len(t) + 1
          /\ p + 1 \in from .. Len(t) + 1 /\ p + 1 # from
      BY <3>1, <3>2, OneFurther, SMTT(30)
    <3>4. d \in 0 .. 3
      OBVIOUS
    <3> QED
      BY <3>3, <3>4, <2>1, <2>4
  <2> HIDE DEF Wrong
  <2>5. Reads(t, from, e0, f[p][e])
    BY <2>2, <2>3, <2>4, ScanStep
  <2> QED
    BY <2>2, <2>5
<1>5. Reached(t, from, from, e0) /\ Len(t) + 1 - from \in Nat /\ from \in from .. Len(t) + 1
      /\ (Len(t) + 1 - from) + from = Len(t) + 1
  BY <1>0 DEF Reached
<1>6. Reads(t, from, e0, f[from][e0])
  <2> SUFFICES ASSUME ~Reads(t, from, e0, f[from][e0]) PROVE FALSE
    OBVIOUS
  <2>1. Len(t) + 1 - from \in Wrong
    BY <1>5
  <2> QED
    BY <2>1, <1>4
<1> QED
  BY <1>3, <1>6

-----------------------------------------------------------------------------
(* A call of prochainTerminal() reads one piece of the text. *)

(* The table of the automaton.                                             *)
LEMMA TransitionTable ==
  ASSUME NEW c
  PROVE  /\ Transition(0, c) = IF Digit(c) THEN 1 ELSE IF c \in Upper THEN 2
                               ELSE IF c \in Operators THEN -1 ELSE -2
         /\ Transition(1, c) = IF Digit(c) THEN 1 ELSE -1
         /\ Transition(2, c) = IF c \in Letters THEN 2 ELSE IF c = "_" THEN 3 ELSE -1
         /\ Transition(3, c) = IF c \in Letters THEN 2 ELSE -2
<1>1. /\ Digit(c) => c \notin Operators /\ c \notin Upper
      /\ c \in Upper => c \notin Operators
      /\ c \in Letters => c # "_"
  BY NoDigitIsAnOperator DEF Letters, Upper, Lower
<1>2. /\ Digit(c) => AtStart(c) = 1
      /\ c \in Upper => AtStart(c) = 2
      /\ c \in Operators => AtStart(c) = -1
      /\ ~Digit(c) /\ c \notin Upper /\ c \notin Operators => AtStart(c) = -2
  BY <1>1, Zenon DEF AtStart
<1>3. /\ c \in Letters => InVariable(c) = 2
      /\ c = "_" => InVariable(c) = 3
      /\ c \notin Letters /\ c # "_" => InVariable(c) = -1
  BY <1>1, Zenon DEF InVariable
<1>4. /\ Transition(0, c) = AtStart(c) /\ Transition(1, c) = InConstant(c)
      /\ Transition(2, c) = InVariable(c) /\ Transition(3, c) = AfterUnderscore(c)
  BY DEF Transition
<1> QED
  BY <1>1, <1>2, <1>3, <1>4 DEF InConstant, AfterUnderscore

(* The loop of a call that began with a piece stands inside that piece.    *)
Inside(t, from, p, e) ==
  IF p = from THEN e = 0
  ELSE /\ \/ e = 1 /\ Digit(t[p - 1])
          \/ e = 2 /\ t[p - 1] \in Letters
          \/ e = 3 /\ t[p - 1] = "_"
       /\ \A i \in from .. p - 1 : Acceptable(t, i)
       /\ \A i \in from .. p - 2 : t[i] = "_" => t[i + 1] \in Letters
       /\ \A i \in from + 1 .. p - 1 : Continues(t, i)

(* In the middle of a piece: a character that cannot follow the one before *)
(* it begins another piece or is not sound, any other goes on with it.     *)
LEMMA InsideStep ==
  ASSUME NEW t, Len(t) \in Nat, NEW from \in 1 .. Len(t), NEW p \in from .. Len(t),
         ~Continues(t, from), NEW e \in 0 .. 3, Inside(t, from, p, e)
  PROVE  /\ Transition(e, t[p]) = -2 => \E i \in from .. Len(t) : ~Sound(t, i)
         /\ Transition(e, t[p]) = -1 /\ e = 0 => Sound(t, p) /\ ~Continues(t, p + 1)
         /\ Transition(e, t[p]) = -1 /\ e # 0 => ~Continues(t, p) /\ t[p - 1] # "_"
         /\ Transition(e, t[p]) \notin {-1, -2} =>
              /\ Transition(e, t[p]) \in 1 .. 3
              /\ Inside(t, from, p + 1, Transition(e, t[p]))
<1> DEFINE next == Transition(e, t[p])
<1> SUFFICES /\ next = -2 => \E i \in from .. Len(t) : ~Sound(t, i)
             /\ next = -1 /\ e = 0 => Sound(t, p) /\ ~Continues(t, p + 1)
             /\ next = -1 /\ e # 0 => ~Continues(t, p) /\ t[p - 1] # "_"
             /\ next \notin {-1, -2} => next \in 1 .. 3 /\ Inside(t, from, p + 1, next)
  OBVIOUS
<1> HIDE DEF next
<1>a. /\ next = -1 => next # -2 /\ next \in {-1, -2}
      /\ next = -2 => next # -1 /\ next \in {-1, -2}
  OBVIOUS
<1>0. /\ p \in Nat /\ from \in Nat /\ p - 1 \in Int /\ (p + 1) - 1 = p /\ (p + 1) - 2 = p - 1
      /\ p + 1 > 1 /\ p + 1 # from /\ p \in from .. Len(t)
  OBVIOUS
<1>1. \A c : /\ Digit(c) => c \notin Operators /\ c \notin Letters /\ c # "_"
             /\ c \in Letters \/ c = "_" => ~Digit(c) /\ c \notin Operators
             /\ c \in Letters => c # "_" /\ (c \in Upper \/ c \in Lower)
             /\ c \in Upper => c \in Letters
             /\ c \in Operators => c # "_"
  BY NoDigitIsAnOperator DEF Letters, Upper, Lower, Operators
<1>2. /\ Acceptable(t, p) <=>
           \/ Digit(t[p]) \/ t[p] \in Upper \/ t[p] \in Operators
           \/ Continues(t, p) /\ (t[p] \in Lower \/ (t[p] = "_" /\ t[p - 1] # "_"))
      /\ Continues(t, p) <=>
           /\ p > 1
           /\ \/ Digit(t[p]) /\ Digit(t[p - 1])
              \/ (t[p] \in Letters \/ t[p] = "_") /\ (t[p - 1] \in Letters \/ t[p - 1] = "_")
      /\ Continues(t, p + 1) <=>
           \/ Digit(t[p + 1]) /\ Digit(t[p])
           \/ (t[p + 1] \in Letters \/ t[p + 1] = "_") /\ (t[p] \in Letters \/ t[p] = "_")
  BY <1>0 DEF Acceptable, Continues
<1>3. CASE e = 0
  <2>1. p = from /\ ~Continues(t, p)
    BY <1>3 DEF Inside
  <2>2. next = IF Digit(t[p]) THEN 1 ELSE IF t[p] \in Upper THEN 2
               ELSE IF t[p] \in Operators THEN -1 ELSE -2
    BY <1>3, TransitionTable DEF next
  <2>3. CASE Digit(t[p]) \/ t[p] \in Upper
    <3>1. next = IF Digit(t[p]) THEN 1 ELSE 2
      BY <2>2, <2>3
    <3>2. Acceptable(t, p) /\ (Digit(t[p]) \/ t[p] \in Letters)
      BY <1>1, <1>2, <2>3
    <3>3. \A i \in from .. p : i = p
      BY <2>1
    <3>4. \A i \in from .. p - 1 : FALSE
      BY <2>1, <1>0
    <3>5. \A i \in from + 1 .. p : FALSE
      BY <2>1, <1>0
    <3>6. Inside(t, from, p + 1, next)
      <4>1. /\ \A i \in from .. (p + 1) - 1 : Acceptable(t, i)
            /\ \A i \in from .. (p + 1) - 2 : t[i] = "_" => t[i + 1] \in Letters
            /\ \A i \in from + 1 .. (p + 1) - 1 : Continues(t, i)
        BY <1>0, <3>2, <3>3, <3>4, <3>5
      <4>2. \/ next = 1 /\ Digit(t[(p + 1) - 1])
            \/ next = 2 /\ t[(p + 1) - 1] \in Letters
        BY <1>0, <3>1, <3>2, <2>3, <1>1
      <4> QED
        BY <1>0, <4>1, <4>2 DEF Inside
    <3> QED
      BY <1>3, <3>1, <3>6
  <2>4. CASE ~Digit(t[p]) /\ t[p] \in Operators
    <3>1. next = -1 /\ Acceptable(t, p) /\ t[p] # "_" /\ ~Continues(t, p + 1)
      BY <1>1, <1>2, <2>2, <2>4
    <3>2. Sound(t, p)
      BY <3>1 DEF Sound
    <3> QED
      BY <1>a, <1>3, <3>1, <3>2, Zenon
  <2>5. CASE ~Digit(t[p]) /\ t[p] \notin Upper /\ t[p] \notin Operators
    <3>1. next = -2 /\ ~Acceptable(t, p)
      BY <1>2, <2>1, <2>2, <2>5
    <3> QED
      BY <1>a, <1>0, <3>1, Zenon DEF Sound
  <2> QED
    BY <2>3, <2>4, <2>5
<1>4. CASE e # 0
  <2>0. /\ p # from /\ p > 1 /\ p - 1 \in from .. Len(t) /\ (p - 1) + 1 = p
        /\ \/ e = 1 /\ Digit(t[p - 1])
           \/ e = 2 /\ t[p - 1] \in Letters
           \/ e = 3 /\ t[p - 1] = "_"
        /\ \A i \in from .. p - 1 : Acceptable(t, i)
        /\ \A i \in from .. p - 2 : t[i] = "_" => t[i + 1] \in Letters
        /\ \A i \in from + 1 .. p - 1 : Continues(t, i)
    <3>1. p # from
      BY <1>4 DEF Inside
    <3>2. /\ \/ e = 1 /\ Digit(t[p - 1])
             \/ e = 2 /\ t[p - 1] \in Letters
             \/ e = 3 /\ t[p - 1] = "_"
          /\ \A i \in from .. p - 1 : Acceptable(t, i)
          /\ \A i \in from .. p - 2 : t[i] = "_" => t[i + 1] \in Letters
          /\ \A i \in from + 1 .. p - 1 : Continues(t, i)
      BY <3>1, Zenon DEF Inside
    <3>3. p > 1 /\ p - 1 \in from .. Len(t) /\ (p - 1) + 1 = p
      BY <1>0, <3>1
    <3> QED
      BY <3>1, <3>2, <3>3
  <2>1. ASSUME Continues(t, p), Acceptable(t, p),
               t[p - 1] = "_" => t[p] \in Letters,
               NEW d, \/ d = 1 /\ Digit(t[p])
                      \/ d = 2 /\ t[p] \in Letters
                      \/ d = 3 /\ t[p] = "_"
        PROVE  Inside(t, from, p + 1, d)
    <3>1. \A i \in from .. p : i \in from .. p - 1 \/ i = p
      BY <1>0
    <3>2. \A i \in from .. p - 1 : i \in from .. p - 2 \/ i = p - 1
      BY <1>0
    <3>3. \A i \in from + 1 .. p : i \in from + 1 .. p - 1 \/ i = p
      BY <1>0
    <3>4. /\ \A i \in from .. p : Acceptable(t, i)
          /\ \A i \in from .. p - 1 : t[i] = "_" => t[i + 1] \in Letters
          /\ \A i \in from + 1 .. p : Continues(t, i)
      BY <2>0, <2>1, <3>1, <3>2, <3>3
    <3> QED
      BY <1>0, <2>1, <3>4 DEF Inside
  <2>2. CASE e = 1 /\ Digit(t[p - 1])
    <3>1. next = IF Digit(t[p]) THEN 1 ELSE -1
      BY <2>2, TransitionTable DEF next
    <3>2. CASE Digit(t[p])
      <4>1. Continues(t, p) /\ Acceptable(t, p) /\ t[p - 1] # "_"
        BY <1>1, <1>2, <2>0, <2>2, <3>2
      <4>2. Inside(t, from, p + 1, 1)
        BY <2>1, <3>2, <4>1
      <4> QED
        BY <3>1, <3>2, <4>2
    <3>3. CASE ~Digit(t[p])
      <4>1. ~Continues(t, p) /\ t[p - 1] # "_"
        BY <1>1, <1>2, <2>2, <3>3
      <4> QED
        BY <1>a, <1>4, <3>1, <3>3, <4>1, Zenon
    <3> QED
      BY <3>2, <3>3
  <2>3. CASE e = 2 /\ t[p - 1] \in Letters
    <3>1. next = IF t[p] \in Letters THEN 2 ELSE IF t[p] = "_" THEN 3 ELSE -1
      BY <2>3, TransitionTable DEF next
    <3>2. CASE t[p] \in Letters \/ t[p] = "_"
      <4>1. Continues(t, p) /\ Acceptable(t, p) /\ t[p - 1] # "_"
        BY <1>1, <1>2, <2>0, <2>3, <3>2
      <4>2. next = IF t[p] \in Letters THEN 2 ELSE 3
        BY <3>1, <3>2
      <4>3. Inside(t, from, p + 1, IF t[p] \in Letters THEN 2 ELSE 3)
        BY <2>1, <3>2, <4>1
      <4> QED
        BY <4>2, <4>3
    <3>3. CASE ~(t[p] \in Letters \/ t[p] = "_")
      <4>1. ~Continues(t, p) /\ t[p - 1] # "_"
        BY <1>1, <1>2, <2>3, <3>3
      <4> QED
        BY <1>a, <1>4, <3>1, <3>3, <4>1, Zenon
    <3> QED
      BY <3>2, <3>3
  <2>4. CASE e = 3 /\ t[p - 1] = "_"
    <3>1. next = IF t[p] \in Letters THEN 2 ELSE -2
      BY <2>4, TransitionTable DEF next
    <3>2. CASE t[p] \in Letters
      <4>1. Continues(t, p) /\ Acceptable(t, p)
        BY <1>1, <1>2, <2>0, <2>4, <3>2
      <4>2. Inside(t, from, p + 1, 2)
        BY <2>1, <3>2, <4>1
      <4> QED
        BY <3>1, <3>2, <4>2
    <3>3. CASE t[p] \notin Letters
      <4>1. ~Sound(t, p - 1)
        BY <2>0, <2>4, <3>3 DEF Sound
      <4> QED
        BY <1>a, <2>0, <3>1, <3>3, <4>1, Zenon
    <3> QED
      BY <3>2, <3>3
  <2> QED
    BY <2>0, <2>2, <2>3, <2>4
<1> QED
  BY <1>3, <1>4

(* One turn of the loop in a piece of the text.                            *)
LEMMA ScanCuts ==
  ASSUME NEW t \in Seq(STRING), NEW from \in 1 .. Len(t), NEW p \in from .. Len(t) + 1,
         ~Continues(t, from), NEW e \in 0 .. 3, Inside(t, from, p, e), NEW scan,
         p <= Len(t) => \A d \in 1 .. 3 :
           Inside(t, from, p + 1, d) => Cuts(t, from, scan[p + 1][d])
  PROVE  Cuts(t, from, Scan(t, from, p, e, scan))
<1> DEFINE r == Scan(t, from, p, e, scan)
           next == Transition(e, t[p])
<1>0. Len(t) \in Nat /\ p \in Nat /\ from \in Nat
  BY LenProperties
<1>a. p # from =>
        /\ p - 1 \in from .. Len(t)
        /\ \/ e = 1 /\ Digit(t[p - 1])
           \/ e = 2 /\ t[p - 1] \in Letters
           \/ e = 3 /\ t[p - 1] = "_"
        /\ \A i \in from .. p - 1 : Acceptable(t, i)
        /\ \A i \in from .. p - 2 : t[i] = "_" => t[i + 1] \in Letters
        /\ \A i \in from + 1 .. p - 1 : Continues(t, i)
  <2>1. p # from => p - 1 \in from .. Len(t)
    BY <1>0
  <2> QED
    BY <2>1, Zenon DEF Inside
<1>b. ASSUME p # from, t[p - 1] # "_" PROVE \A i \in from .. p - 1 : Sound(t, i)
  <2> TAKE i \in from .. p - 1
  <2>1. Acceptable(t, i)
    BY <1>a, <1>b
  <2>2. ASSUME t[i] = "_" PROVE i < Len(t) /\ t[i + 1] \in Letters
    <3>1. i # p - 1
      BY <1>b, <2>2
    <3>2. i \in from .. p - 2 /\ i < Len(t)
      BY <1>0, <3>1
    <3> QED
      BY <1>a, <1>b, <2>2, <3>2
  <2> QED
    BY <2>1, <2>2 DEF Sound
<1>c. p # from =>
        /\ TypeIn(e) # "OPERATEUR"
        /\ TypeIn(e) = "CONSTANTE" => Digit(t[p - 1])
        /\ TypeIn(e) = "VARIABLE" => ~Digit(t[p - 1])
  <2>1. /\ TypeIn(1) = "CONSTANTE" /\ TypeIn(2) = "VARIABLE" /\ TypeIn(3) = "VARIABLE"
    BY DEF TypeIn
  <2>2. t[p - 1] \in Letters \/ t[p - 1] = "_" => ~Digit(t[p - 1])
    BY NoDigitIsAnOperator
  <2> QED
    BY <1>a, <2>1, <2>2
<1>1. CASE p > Len(t) /\ e = 3
  <2>1. r = ExceptionLexicale(p, e)
    BY <1>1 DEF Scan
  <2>2. p # from /\ p - 1 \in from .. Len(t) /\ ~(p - 1 < Len(t))
    BY <1>0, <1>1
  <2>3. t[p - 1] = "_"
    <3>1. e # 1 /\ e # 2
      BY <1>1
    <3> QED
      BY <1>a, <2>2, <3>1, Zenon
  <2>4. ~Sound(t, p - 1)
    BY <1>0, <2>2, <2>3 DEF Sound
  <2> HIDE DEF r
  <2>5. Cuts(t, from, r)
    BY <2>1, <2>2, <2>4 DEF ExceptionLexicale, Cuts
  <2> QED
    BY <2>5 DEF r
<1>2. CASE p > Len(t) /\ e # 3
  <2>1. r = Found(SubSeq(t, from, p - 1), TypeIn(e), p, e)
    BY <1>2, <1>0 DEF Scan
  <2>2. p # from /\ p - 1 \in from .. Len(t) /\ ~(p <= Len(t))
    BY <1>0, <1>2
  <2>3. t[p - 1] # "_"
    <3>1. \A c : Digit(c) \/ c \in Letters => c # "_"
      BY NoDigitIsAnOperator DEF Letters, Upper, Lower
    <3> QED
      BY <1>2, <1>a, <2>2, <3>1
  <2>4. /\ \A i \in from .. p - 1 : Sound(t, i)
        /\ \A i \in from + 1 .. p - 1 : Continues(t, i)
    BY <1>a, <1>b, <2>2, <2>3
  <2>5. /\ TypeIn(e) # "OPERATEUR"
        /\ TypeIn(e) = "CONSTANTE" => Digit(t[p - 1])
        /\ TypeIn(e) = "VARIABLE" => ~Digit(t[p - 1])
    BY <1>a, <1>c, <2>2
  <2>6. /\ r.ok /\ r.ptr = p /\ r.etat = e /\ r.terminal.type = TypeIn(e)
        /\ r.terminal.chaine = SubSeq(t, from, p - 1)
    BY <2>1 DEF Found
  <2> HIDE DEF r
  <2>7. Cuts(t, from, r)
    BY <1>2, <2>2, <2>4, <2>5, <2>6 DEF Cuts
  <2> QED
    BY <2>7 DEF r
<1>3. CASE p <= Len(t)
  <2>0. /\ next = -2 => \E i \in from .. Len(t) : ~Sound(t, i)
        /\ next = -1 /\ e = 0 => Sound(t, p) /\ ~Continues(t, p + 1)
        /\ next = -1 /\ e # 0 => ~Continues(t, p) /\ t[p - 1] # "_"
        /\ next \notin {-1, -2} => next \in 1 .. 3 /\ Inside(t, from, p + 1, next)
    <3>1. p \in from .. Len(t)
      BY <1>0, <1>3
    <3> QED
      BY <1>0, <3>1, InsideStep
  <2>1. CASE next = -2
    <3>1. r = ExceptionLexicale(p + 1, e)
      BY <1>0, <1>3, <2>1 DEF Scan
    <3> HIDE DEF r
    <3>2. Cuts(t, from, r)
      BY <2>0, <2>1, <3>1 DEF ExceptionLexicale, Cuts
    <3> QED
      BY <3>2 DEF r
  <2>2. CASE next = -1 /\ e = 0
    <3>1. r = Found(<<t[p]>>, "OPERATEUR", p + 1, 0)
      BY <1>0, <1>3, <2>2 DEF Scan
    <3>2. p = from /\ (p + 1) - 1 = p
      <4>1. p = from
        BY <1>a, <2>2
      <4> QED
        BY <1>0, <4>1
    <3>3. SubSeq(t, p, p) = <<t[p]>>
      <4>1. p \in 1 .. Len(t)
        BY <1>0, <1>3
      <4> QED
        BY <4>1, OneCharacter
    <3>4. /\ \A i \in from .. p : Sound(t, i)
          /\ \A i \in from + 1 .. p : Continues(t, i)
          /\ ~Continues(t, p + 1)
          /\ p \in from .. Len(t)
      <4>1. Sound(t, p) /\ ~Continues(t, p + 1)
        BY <2>0, <2>2
      <4>2. /\ \A i \in from .. p : i = p
            /\ \A i \in from + 1 .. p : FALSE
            /\ p \in from .. Len(t)
        BY <1>0, <1>3, <3>2
      <4> QED
        BY <4>1, <4>2
    <3>5. /\ r.ok /\ r.ptr = p + 1 /\ r.ptr - 1 = p /\ r.terminal.chaine = SubSeq(t, from, p)
          /\ r.etat = 0 /\ r.terminal.type = "OPERATEUR"
      BY <3>1, <3>2, <3>3 DEF Found
    <3>6. t[from] \in Operators
      BY <2>2, <3>2, Transitions
    <3> HIDE DEF r
    <3>7. Cuts(t, from, r)
      BY <3>4, <3>5, <3>6 DEF Cuts
    <3> QED
      BY <3>7 DEF r
  <2>3. CASE next = -1 /\ e # 0
    <3>1. r = Found(SubSeq(t, from, p - 1), TypeIn(e), p, 0)
      BY <1>0, <1>3, <2>3 DEF Scan, PutBack
    <3>2. p # from /\ ~Continues(t, p) /\ t[p - 1] # "_"
      BY <2>0, <2>3 DEF Inside
    <3>3. /\ p - 1 \in from .. Len(t)
          /\ \A i \in from .. p - 1 : Sound(t, i)
          /\ \A i \in from + 1 .. p - 1 : Continues(t, i)
      BY <1>a, <1>b, <3>2
    <3>4. /\ r.ok /\ r.ptr = p /\ r.terminal.chaine = SubSeq(t, from, p - 1)
          /\ r.etat = 0 /\ r.terminal.type = TypeIn(e)
      BY <3>1 DEF Found
    <3> HIDE DEF r
    <3>5. /\ r.terminal.type # "OPERATEUR"
          /\ r.terminal.type = "CONSTANTE" => Digit(t[r.ptr - 1])
          /\ r.terminal.type = "VARIABLE" => ~Digit(t[r.ptr - 1])
          /\ r.etat # 3
      <4>1. /\ TypeIn(e) # "OPERATEUR"
            /\ TypeIn(e) = "CONSTANTE" => Digit(t[p - 1])
            /\ TypeIn(e) = "VARIABLE" => ~Digit(t[p - 1])
        BY <1>c, <3>2, Zenon
      <4>2. 0 # 3
        OBVIOUS
      <4> QED
        BY <3>4, <4>1, <4>2, Zenon
    <3>6. Cuts(t, from, r)
      BY <3>2, <3>3, <3>4, <3>5 DEF Cuts
    <3> QED
      BY <3>6 DEF r
  <2>4. CASE next \notin {-1, -2}
    <3>1. next # -2 /\ next # -1
      BY <2>4
    <3>2. r = scan[p + 1][next]
      BY <1>0, <1>3, <3>1 DEF Scan
    <3>3. next \in 1 .. 3 /\ Inside(t, from, p + 1, next)
      BY <2>0, <2>4
    <3>4. PICK d \in 1 .. 3 : d = next
      BY <3>3
    <3>5. Cuts(t, from, scan[p + 1][d])
      BY <1>3, <3>3, <3>4
    <3> QED
      BY <3>2, <3>4, <3>5
  <2> QED
    BY <2>1, <2>2, <2>3, <2>4
<1> QED
  BY <1>0, <1>1, <1>2, <1>3

(* A call at the first character of a piece returns the piece, or finds an *)
(* error in the text.                                                      *)
LEMMA ProchainTerminalCuts ==
  ASSUME NEW t \in Seq(STRING), NEW from \in 1 .. Len(t), ~Continues(t, from)
  PROVE  Cuts(t, from, ProchainTerminal(t, from, 0))
<1> DEFINE Solves(f) == f = [p \in from .. Len(t) + 1 |-> [e \in 0 .. 3 |-> Scan(t, from, p, e, f)]]
           scan == CHOOSE f : Solves(f)
<1>0. Len(t) \in Nat
  BY LenProperties
<1>1. Solves(scan)
  <2>1. \E f : Solves(f)
    BY <1>0, ScanExists
  <2> QED
    BY <2>1
<1>2. ProchainTerminal(t, from, 0) = scan[from][0]
  BY DEF ProchainTerminal
<1>3. PICK f : Solves(f) /\ ProchainTerminal(t, from, 0) = f[from][0]
  BY <1>1, <1>2
<1> HIDE DEF scan
<1> DEFINE Wrong == {k \in Nat : \E p \in from .. Len(t) + 1, e \in 0 .. 3 :
                       /\ k + p = Len(t) + 1
                       /\ Inside(t, from, p, e)
                       /\ ~Cuts(t, from, f[p][e])}
<1>4. Wrong = {}
  <2> SUFFICES ASSUME Wrong # {} PROVE FALSE
    OBVIOUS
  <2>1. PICK k \in Wrong : \A y \in Wrong : k <= y
    BY LeastNumber
  <2>2. PICK p \in from .. Len(t) + 1, e \in 0 .. 3 :
           /\ k + p = Len(t) + 1
           /\ Inside(t, from, p, e)
           /\ ~Cuts(t, from, f[p][e])
    BY <2>1
  <2>3. f[p][e] = Scan(t, from, p, e, f)
    <3>1. f = [q \in from .. Len(t) + 1 |-> [d \in 0 .. 3 |-> Scan(t, from, q, d, f)]]
      BY <1>3
    <3>2. f[p] = [d \in 0 .. 3 |-> Scan(t, from, p, d, f)]
      BY <3>1, Zenon
    <3> QED
      BY <3>2
  <2>4. ASSUME p <= Len(t), NEW d \in 1 .. 3, Inside(t, from, p + 1, d)
        PROVE  Cuts(t, from, f[p + 1][d])
    <3>1. /\ k \in Nat /\ p \in Int /\ from \in Int
          /\ from <= p /\ p <= Len(t) /\ k + p = Len(t) + 1
      <4>1. k \in Nat
        BY <2>1
      <4>2. p \in Int /\ from \in Int /\ from <= p
        BY <1>0
      <4>3. p <= Len(t) /\ k + p = Len(t) + 1
        BY <2>2, <2>4
      <4> QED
        BY <4>1, <4>2, <4>3, Zenon
    <3>2. Len(t) \in Int
      BY <1>0
    <3>3. /\ k - 1 \in Nat /\ ~(k <= k - 1) /\ (k - 1) + (p + 1) = Len(t) + 1
          /\ p + 1 \in from .. Len(t) + 1
      BY <3>1, <3>2, OneFurther, SMTT(30)
    <3>4. d \in 0 .. 3
      OBVIOUS
    <3> QED
      BY <3>3, <3>4, <2>1, <2>4
  <2> HIDE DEF Wrong
  <2>5. Cuts(t, from, f[p][e])
    BY <2>2, <2>3, <2>4, ScanCuts
  <2> QED
    BY <2>2, <2>5
<1>5. Inside(t, from, from, 0) /\ Len(t) + 1 - from \in Nat /\ from \in from .. Len(t) + 1
      /\ (Len(t) + 1 - from) + from = Len(t) + 1
  BY <1>0 DEF Inside
<1>6. Cuts(t, from, f[from][0])
  <2> SUFFICES ASSUME ~Cuts(t, from, f[from][0]) PROVE FALSE
    OBVIOUS
  <2>1. Len(t) + 1 - from \in Wrong
    BY <1>5
  <2> QED
    BY <2>1, <1>4
<1> QED
  BY <1>3, <1>6

(* How the pieces are numbered.                                            *)
LEMMA PieceNumbers ==
  ASSUME NEW t, NEW i \in Nat
  PROVE  /\ IsFiniteSet({j \in 1 .. i : ~Continues(t, j)})
         /\ PieceNumber(t, i) \in Nat
         /\ i = 0 => PieceNumber(t, i) = 0
         /\ i > 0 => PieceNumber(t, i) = PieceNumber(t, i - 1) + IF Continues(t, i) THEN 0 ELSE 1
<1> DEFINE Starts(m) == {j \in 1 .. m : ~Continues(t, j)}
<1>1. ASSUME NEW m \in Nat PROVE IsFiniteSet(Starts(m)) /\ Cardinality(Starts(m)) \in Nat
  <2>1. IsFiniteSet(1 .. m)
    BY FS_Interval
  <2> QED
    BY <2>1, FS_Subset, FS_CardinalityType
<1>2. i = 0 => Cardinality(Starts(i)) = 0
  <2>1. i = 0 => Starts(i) = {}
    OBVIOUS
  <2> QED
    BY <2>1, FS_EmptySet
<1>3. ASSUME i > 0
      PROVE  Cardinality(Starts(i)) = Cardinality(Starts(i - 1)) + IF Continues(t, i) THEN 0 ELSE 1
  <2>1. i - 1 \in Nat /\ i \notin Starts(i - 1)
    BY <1>3
  <2>2. IsFiniteSet(Starts(i - 1)) /\ Cardinality(Starts(i - 1)) \in Nat
    BY <1>1, <2>1
  <2>3. CASE Continues(t, i)
    <3>1. Starts(i) = Starts(i - 1)
      BY <1>3, <2>3
    <3> HIDE DEF Starts
    <3> QED
      BY <2>2, <2>3, <3>1
  <2>4. CASE ~Continues(t, i)
    <3>1. Starts(i) = Starts(i - 1) \cup {i}
      BY <1>3, <2>4
    <3> HIDE DEF Starts
    <3> QED
      BY <2>1, <2>2, <2>4, <3>1, FS_AddElement
  <2> QED
    BY <2>3, <2>4
<1> QED
  BY <1>1, <1>2, <1>3 DEF PieceNumber

LEMMA PieceNumberGrows ==
  ASSUME NEW t, NEW i \in Nat, NEW j \in Nat, i <= j
  PROVE  PieceNumber(t, i) <= PieceNumber(t, j)
<1>1. {m \in 1 .. i : ~Continues(t, m)} \in SUBSET {m \in 1 .. j : ~Continues(t, m)}
  OBVIOUS
<1> QED
  BY <1>1, PieceNumbers, FS_Subset DEF PieceNumber

(* A stretch of the text that starts a piece, goes on with it and ends     *)
(* before another is the piece of its number.                              *)
LEMMA PieceRead ==
  ASSUME NEW t \in Seq(STRING), NEW from \in 1 .. Len(t), ~Continues(t, from),
         NEW b \in from .. Len(t), \A i \in from + 1 .. b : Continues(t, i),
         b + 1 <= Len(t) => ~Continues(t, b + 1)
  PROVE  /\ PieceNumber(t, b) = PieceNumber(t, from - 1) + 1
         /\ PieceNumber(t, b) \in 1 .. PieceNumber(t, Len(t))
         /\ Pieces(t)[PieceNumber(t, b)] = SubSeq(t, from, b)
<1>0. Len(t) \in Nat /\ from \in Nat /\ b \in Nat /\ from - 1 \in Nat /\ b + 1 \in Nat
  BY LenProperties
<1> DEFINE N == PieceNumber(t, from)
<1>1. N \in Nat /\ N = PieceNumber(t, from - 1) + 1 /\ PieceNumber(t, from - 1) \in Nat
  <2>1. PieceNumber(t, from - 1) \in Nat
    BY <1>0, PieceNumbers
  <2>2. N \in Nat /\ N = PieceNumber(t, from - 1) + IF Continues(t, from) THEN 0 ELSE 1
    <3>1. from > 0
      OBVIOUS
    <3> QED
      BY <1>0, <3>1, PieceNumbers
  <2> HIDE DEF N
  <2> QED
    BY <2>1, <2>2
<1>2. ASSUME NEW i \in from .. b PROVE PieceNumber(t, i) = N
  <2>1. {j \in 1 .. i : ~Continues(t, j)} = {j \in 1 .. from : ~Continues(t, j)}
    <3>1. \A j \in 1 .. i : j \in 1 .. from \/ j \in from + 1 .. b
      BY <1>0
    <3>2. \A j \in 1 .. from : j \in 1 .. i
      BY <1>0
    <3> QED
      BY <3>1, <3>2
  <2> QED
    BY <2>1 DEF PieceNumber
<1>3. ASSUME NEW i \in 1 .. Len(t), i < from PROVE PieceNumber(t, i) # N
  <2>1. PieceNumber(t, i) <= PieceNumber(t, from - 1) /\ PieceNumber(t, i) \in Nat
    <3>1. i \in Nat /\ i <= from - 1
      BY <1>0, <1>3
    <3>2. PieceNumber(t, i) <= PieceNumber(t, from - 1)
      BY <1>0, <3>1, PieceNumberGrows
    <3> QED
      BY <3>1, <3>2, PieceNumbers
  <2> HIDE DEF N
  <2> QED
    BY <1>1, <2>1
<1>4. ASSUME NEW i \in 1 .. Len(t), i > b PROVE PieceNumber(t, i) # N
  <2>1. i \in Nat /\ b + 1 <= i /\ b + 1 <= Len(t) /\ b + 1 > 0 /\ (b + 1) - 1 = b /\ b \in from .. b
    BY <1>0, <1>4
  <2>2. PieceNumber(t, b + 1) <= PieceNumber(t, i) /\ PieceNumber(t, i) \in Nat
    BY <1>0, <2>1, PieceNumberGrows, PieceNumbers
  <2>3. PieceNumber(t, b + 1) = N + 1
    BY <1>0, <1>2, <2>1, PieceNumbers
  <2> HIDE DEF N
  <2> QED
    BY <1>1, <2>2, <2>3
<1> DEFINE piece == {i \in 1 .. Len(t) : PieceNumber(t, i) = N}
<1> HIDE DEF N
<1>5. piece = from .. b
  <2>1. \A i \in 1 .. Len(t) : i \in from .. b \/ i < from \/ i > b
    BY <1>0
  <2>2. \A i \in from .. b : i \in 1 .. Len(t)
    BY <1>0
  <2> QED
    BY <1>2, <1>3, <1>4, <2>1, <2>2
<1>6. Min(piece) = from /\ Max(piece) = b
  <2>1. from \in from .. b /\ b \in from .. b
    BY <1>0
  <2>2. \A x \in from .. b : (\A y \in from .. b : x <= y) => x = from
    BY <1>0
  <2>3. \A x \in from .. b : (\A y \in from .. b : x >= y) => x = b
    BY <1>0
  <2>4. \A y \in from .. b : from <= y /\ b >= y
    BY <1>0
  <2> HIDE DEF piece
  <2> QED
    BY <1>5, <2>1, <2>2, <2>3, <2>4 DEF Min, Max
<1>7. PieceNumber(t, b) = N
  BY <1>0, <1>2
<1>8. N <= PieceNumber(t, Len(t)) /\ PieceNumber(t, Len(t)) \in Nat
  <2>1. b <= Len(t)
    BY <1>0
  <2> QED
    BY <1>0, <1>7, <2>1, PieceNumberGrows, PieceNumbers
<1>9. N \in 1 .. PieceNumber(t, Len(t))
  BY <1>1, <1>8
<1>10. Pieces(t)[N] = SubSeq(t, Min(piece), Max(piece))
  BY <1>9 DEF Pieces
<1> HIDE DEF piece
<1> QED
  BY <1>1, <1>6, <1>7, <1>9, <1>10

-----------------------------------------------------------------------------
(* The terminal at hand. *)

LEMMA TextIsASequence ==
  ASSUME texte \in Textes
  PROVE  texte \in Seq(STRING) /\ Len(texte) \in Nat
BY TextesAssumption, LenProperties

(* Reading the next terminal: it follows the position, and is empty only   *)
(* at the end of the text, where it is an operator after state 0.          *)
LEMMA ReadReads ==
  ASSUME TerminalAtHand, pc \in Parsing \cup {"start"}, NEW where \in Parsing, Read(where)
  PROVE  /\ ptr' \in ptr .. Len(texte) + 1
         /\ etat' \in 0 .. 3
         /\ \/ pc' = "null" /\ ~Suivant.ok /\ courant' = courant
            \/ /\ pc' = where /\ Suivant.ok
               /\ courant' \in Terminal
               /\ ptr' - 1 - Len(courant'.chaine) = ptr - 1
               /\ courant'.chaine = SubSeq(texte, ptr, ptr' - 1)
               /\ ptr' <= Len(texte) => etat' = 0
               /\ IF courant'.type \in {"CONSTANTE", "VARIABLE"}
                  THEN \A i \in ptr .. ptr' - 1 : texte[i] \notin Operators
                  ELSE Len(courant'.chaine) <= 1 /\ etat' = 0
               /\ (ptr <= Len(texte) \/ etat = 0) /\ courant'.type \in {"CONSTANTE", "VARIABLE"}
                    => courant'.chaine # << >>
<1>1. /\ texte \in Seq(STRING) /\ Len(texte) \in Nat
      /\ ptr \in 1 .. Len(texte) + 1 /\ etat \in 0 .. 3
      /\ ptr <= Len(texte) => etat = 0
  BY TextIsASequence DEF TerminalAtHand
<1>2. Reads(texte, ptr, etat, Suivant)
  BY <1>1, ProchainTerminalReads DEF Suivant
<1>3. where # "null"
  BY DEF Parsing
<1>4. PICK r : r = Suivant
  OBVIOUS
<1>5. /\ Reads(texte, ptr, etat, r)
      /\ ptr' = r.ptr /\ etat' = r.etat
      /\ courant' = IF r.ok THEN r.terminal ELSE courant
      /\ pc' = IF r.ok THEN where ELSE "null"
  BY <1>2, <1>4 DEF Read
<1>6. r.ptr \in ptr .. Len(texte) + 1 /\ r.etat \in 0 .. 3
  BY <1>5 DEF Reads
<1>7. CASE ~r.ok
  BY <1>4, <1>5, <1>6, <1>7
<1>8. CASE r.ok
  <2>1. /\ courant' = r.terminal /\ pc' = where
        /\ r.terminal \in Terminal
        /\ r.terminal.chaine = SubSeq(texte, ptr, r.ptr - 1)
        /\ r.ptr <= Len(texte) => r.etat = 0
        /\ r.terminal.type = "OPERATEUR" => r.etat = 0
        /\ ptr <= Len(texte) => r.ptr > ptr
        /\ ptr > Len(texte) => r.terminal.type = TypeIn(etat)
        /\ IF r.terminal.type = "OPERATEUR" THEN r.ptr <= ptr + 1
           ELSE \A i \in ptr .. r.ptr - 1 : texte[i] \notin Operators
    BY <1>5, <1>8 DEF Reads
  <2>2. /\ SubSeq(texte, ptr, r.ptr - 1) \in Seq(STRING)
        /\ Len(SubSeq(texte, ptr, r.ptr - 1)) = r.ptr - ptr
    <3>1. r.ptr - 1 \in ptr - 1 .. Len(texte) /\ (r.ptr - 1) + 1 - ptr = r.ptr - ptr
      BY <1>1, <1>6
    <3> QED
      BY <1>1, <3>1, PieceOfText
  <2>3. etat = 0 => TypeIn(etat) = "OPERATEUR"
    BY DEF TypeIn
  <2>4. (ptr <= Len(texte) \/ etat = 0) /\ r.terminal.type # "OPERATEUR"
          => r.terminal.chaine # << >>
    <3> SUFFICES ASSUME ptr <= Len(texte) \/ etat = 0, r.terminal.type # "OPERATEUR"
                 PROVE  Len(r.terminal.chaine) # 0
      OBVIOUS
    <3> QED
      BY <1>1, <1>6, <2>1, <2>2, <2>3
  <2>5. r.ptr - 1 - Len(r.terminal.chaine) = ptr - 1
    BY <1>1, <1>6, <2>1, <2>2
  <2>6. r.terminal.type = "OPERATEUR" => Len(r.terminal.chaine) <= 1
    BY <1>1, <1>6, <2>1, <2>2
  <2> QED
    BY <1>4, <1>5, <1>6, <1>8, <2>1, <2>2, <2>4, <2>5, <2>6 DEF Types, Terminal
<1> QED
  BY <1>7, <1>8

LEMMA AtHandAfterRead ==
  ASSUME TerminalAtHand, pc \in Parsing \cup {"start"}, NEW where \in Parsing, Read(where),
         UNCHANGED <<main, texte>>,
         where = "T_V" => ptr <= Len(texte) \/ etat = 0
  PROVE  TerminalAtHand'
<1>1. /\ main' \in {"AnalLex", "DescenteRecursive"} /\ texte' \in Textes
      /\ ptr \in 1 .. Len(texte) + 1 /\ etat \in 0 .. 3
      /\ courant \in Terminal /\ Len(texte) \in Nat
  BY TextIsASequence DEF TerminalAtHand
<1>2. ptr' \in ptr .. Len(texte) + 1 /\ etat' \in 0 .. 3
  BY ReadReads
<1>3. ptr' \in 1 .. Len(texte') + 1
  BY <1>1, <1>2
<1>4. CASE pc' = "null" /\ courant' = courant
  BY <1>1, <1>2, <1>3, <1>4 DEF TerminalAtHand, Parsing
<1>5. CASE pc' = where /\ courant' \in Terminal
  <2>1. pc' \in Parsing /\ pc' # "null" /\ pc' # "start"
    BY <1>5 DEF Parsing
  <2>2. /\ Before' = ptr - 1
        /\ courant'.chaine = SubSeq(texte, ptr, ptr' - 1)
        /\ ptr' <= Len(texte) => etat' = 0
        /\ IF courant'.type \in {"CONSTANTE", "VARIABLE"}
           THEN \A i \in ptr .. ptr' - 1 : texte[i] \notin Operators
           ELSE Len(courant'.chaine) <= 1 /\ etat' = 0
        /\ (ptr <= Len(texte) \/ etat = 0) /\ courant'.type \in {"CONSTANTE", "VARIABLE"}
             => courant'.chaine # << >>
    BY <2>1, ReadReads DEF Before
  <2>3. ptr - 1 \in 0 .. ptr' - 1 /\ (ptr - 1) + 1 = ptr
    <3>1. ptr \in Int /\ ptr' \in Int /\ 1 <= ptr /\ ptr <= ptr'
      BY <1>1, <1>2
    <3>2. \A a, b \in Int : 1 <= a /\ a <= b => a - 1 \in 0 .. b - 1 /\ (a - 1) + 1 = a
      OBVIOUS
    <3> QED
      BY <3>1, <3>2, Zenon
  <2> QED
    BY <1>1, <1>2, <1>3, <1>5, <2>1, <2>2, <2>3 DEF TerminalAtHand, Operand
<1> QED
  BY <1>4, <1>5, ReadReads

(* A terminal that is an operator sign is no operand, so that the          *)
(* automaton is in state 0 behind it.                                      *)
LEMMA SignsAreOperators ==
  ASSUME TerminalAtHand, pc \in Parsing, NEW c \in Operators, Is(c)
  PROVE  /\ ~Operand /\ etat = 0
         /\ Before + 2 = ptr /\ ptr - 1 \in 1 .. Len(texte) /\ texte[ptr - 1] = c
<1>1. /\ texte \in Seq(STRING) /\ Len(texte) \in Nat
      /\ ptr \in 1 .. Len(texte) + 1
      /\ Before \in 0 .. ptr - 1
      /\ courant.chaine = SubSeq(texte, Before + 1, ptr - 1)
      /\ IF Operand THEN \A i \in Before + 1 .. ptr - 1 : texte[i] \notin Operators
         ELSE Len(courant.chaine) <= 1 /\ etat = 0
  BY TextIsASequence DEF TerminalAtHand
<1>2. courant.chaine = <<c>> /\ Len(courant.chaine) = 1
  BY DEF Is
<1>3. Before + 2 = ptr /\ ptr - 1 \in 1 .. Len(texte)
  BY <1>1, <1>2 DEF Before
<1>4. texte[ptr - 1] = c
  <2>1. courant.chaine[1] = texte[Before + 1 + 1 - 1]
    <3>1. \A a, b, l \in Int : a + 2 = b /\ b - 1 \in 1 .. l =>
            /\ a + 1 \in Int /\ b - 1 \in Int /\ (b - 1) - (a + 1) + 1 = 1
            /\ \A i \in a + 1 .. b - 1 : i \in 1 .. l
      OBVIOUS
    <3>3. /\ Before + 1 \in Int /\ ptr - 1 \in Int /\ (ptr - 1) - (Before + 1) + 1 = 1
          /\ \A i \in Before + 1 .. ptr - 1 : i \in 1 .. Len(texte)
      <4>1. Before \in Int /\ ptr \in Int /\ Len(texte) \in Int
        BY <1>1
      <4> QED
        BY <4>1, <1>3, <3>1, Zenon
    <3>2. \A i \in Before + 1 .. ptr - 1 : texte[i] \in STRING
      BY <1>1, <3>3, ElementOfSeq
    <3> QED
      BY <1>1, <3>2, <3>3, SubSeqProperties, 1 \in 1 .. 1
  <2>2. Before + 1 + 1 - 1 = ptr - 1
    BY <1>1, <1>3
  <2> QED
    BY <1>2, <2>1, <2>2
<1>5. ptr - 1 \in Before + 1 .. ptr - 1
  BY <1>1, <1>3
<1> QED
  BY <1>1, <1>3, <1>4, <1>5

LEMMA TerminalInit == Init => TerminalAtHand
<1> SUFFICES ASSUME Init PROVE TerminalAtHand
  OBVIOUS
<1>1. texte \in Textes /\ Len(texte) \in Nat
  BY TextIsASequence DEF Init
<1> QED
  BY <1>1 DEF Init, TerminalAtHand, Terminal, Types, Parsing

(* The lexical analyser in the main program of its own.                    *)
LEMMA LexOneReads ==
  ASSUME TerminalAtHand, LexOne
  PROVE  /\ TerminalAtHand'
         /\ Suivant.ok => Suivant.terminal.chaine \in Seq(STRING) \ {<< >>}
<1>1. /\ texte \in Seq(STRING) /\ Len(texte) \in Nat
      /\ ptr \in 1 .. Len(texte) + 1 /\ ptr <= Len(texte) /\ etat \in 0 .. 3 /\ etat = 0
  BY TextIsASequence DEF TerminalAtHand, LexOne, ResteTerminal
<1>2. Reads(texte, ptr, etat, Suivant)
  BY <1>1, ProchainTerminalReads DEF Suivant
<1>3. PICK r : r = Suivant
  OBVIOUS
<1>4. /\ r.ptr \in ptr .. Len(texte) + 1 /\ r.etat \in 0 .. 3
      /\ r.ok => /\ r.ptr <= Len(texte) => r.etat = 0
                 /\ r.terminal \in Terminal
                 /\ r.ptr > ptr
                 /\ r.terminal.chaine = SubSeq(texte, ptr, r.ptr - 1)
  BY <1>1, <1>2, <1>3 DEF Reads
<1>5. r.ok => Len(r.terminal.chaine) # 0
  <2>1. r.ptr - 1 \in ptr - 1 .. Len(texte) /\ (r.ptr > ptr => (r.ptr - 1) + 1 - ptr # 0)
    BY <1>1, <1>4
  <2> QED
    BY <1>1, <1>4, <2>1, PieceOfText
<1>6. r.ok => r.terminal.chaine \in Seq(STRING) \ {<< >>}
  <2>1. r.ok => r.terminal.chaine \in Seq(STRING)
    BY <1>4 DEF Terminal
  <2> QED
    BY <1>5, <2>1
<1>7. /\ ptr' = r.ptr /\ etat' = r.etat /\ pc' = IF r.ok THEN "start" ELSE "written"
      /\ main' = "AnalLex" /\ texte' = texte /\ courant' = courant
  BY <1>3 DEF LexOne, parser
<1>8. courant' \in Terminal /\ texte' \in Textes
  BY <1>7 DEF TerminalAtHand
<1>9. ptr' \in 1 .. Len(texte') + 1
  BY <1>1, <1>4, <1>7
<1>10. TerminalAtHand'
  BY <1>4, <1>7, <1>8, <1>9 DEF TerminalAtHand, Parsing
<1> QED
  BY <1>3, <1>6, <1>10

LEMMA TerminalStep == TerminalAtHand /\ [Next]_vars => TerminalAtHand'
<1> SUFFICES ASSUME TerminalAtHand, [Next]_vars PROVE TerminalAtHand'
  OBVIOUS
<1> USE DEF lexer, parser, output
<1>1. CASE LexOne
  BY <1>1, LexOneReads
<1>2. CASE LexEnd
  BY <1>2 DEF LexEnd, TerminalAtHand, Parsing
<1>3. CASE AnalSynt
  <2>1. CASE ResteTerminal
    <3>1. Read("T_V") /\ UNCHANGED <<main, texte>> /\ pc = "start" /\ ptr <= Len(texte)
      BY <1>3, <2>1 DEF AnalSynt, ResteTerminal
    <3> QED
      BY <3>1, AtHandAfterRead DEF Parsing
  <2>2. CASE ~ResteTerminal
    BY <1>3, <2>2 DEF AnalSynt, Throw, TerminalAtHand, Parsing
  <2> QED
    BY <2>1, <2>2
<1>4. CASE Leaf
  BY <1>4, AtHandAfterRead DEF Leaf, Parsing
<1>5. CASE Open
  <2>1. Is("(") /\ pc \in Parsing /\ Read("T_V") /\ UNCHANGED <<main, texte>>
    BY <1>5 DEF Open, Parsing
  <2>2. etat = 0
    BY <2>1, SignsAreOperators DEF Operators
  <2> QED
    BY <2>1, <2>2, AtHandAfterRead DEF Parsing
<1>6. CASE NoOperand
  BY <1>6 DEF NoOperand, Throw, TerminalAtHand, Parsing
<1>7. CASE Close
  <2>1. CASE Is(")")
    <3>1. Read("T_U") /\ UNCHANGED <<main, texte>> /\ pc \in Parsing
      BY <1>7, <2>1 DEF Close, Parsing
    <3> QED
      BY <3>1, AtHandAfterRead DEF Parsing
  <2>2. CASE ~Is(")")
    BY <1>7, <2>2 DEF Close, Throw, TerminalAtHand, Parsing
  <2> QED
    BY <2>1, <2>2
<1>8. CASE AfterV
  <2>1. CASE Multiplicative
    <3>1. Read("T_V") /\ UNCHANGED <<main, texte>> /\ pc \in Parsing
      BY <1>8, <2>1 DEF AfterV, Parsing
    <3>2. etat = 0
      BY <3>1, <2>1, SignsAreOperators DEF Operators, Multiplicative
    <3> QED
      BY <3>1, <3>2, AtHandAfterRead DEF Parsing
  <2>2. CASE ~Multiplicative
    BY <1>8, <2>2 DEF AfterV, TerminalAtHand, Parsing, Before, Operand
  <2> QED
    BY <2>1, <2>2
<1>9. CASE UReturns
  BY <1>9 DEF UReturns, TerminalAtHand, Parsing, Before, Operand
<1>10. CASE AfterU
  <2>1. CASE Additive
    <3>1. Read("T_V") /\ UNCHANGED <<main, texte>> /\ pc \in Parsing
      BY <1>10, <2>1 DEF AfterU, Parsing
    <3>2. etat = 0
      BY <3>1, <2>1, SignsAreOperators DEF Operators, Additive
    <3> QED
      BY <3>1, <3>2, AtHandAfterRead DEF Parsing
  <2>2. CASE ~Additive /\ Misplaced
    <3>1. Throw /\ UNCHANGED <<main, texte>>
      BY <1>10, <2>2 DEF AfterU
    <3> QED
      BY <3>1 DEF Throw, TerminalAtHand, Parsing
  <2>3. CASE ~Additive /\ ~Misplaced
    <3>1. pc = "T_EXP" /\ pc' = "up_EXP" /\ UNCHANGED <<main, texte, ptr, etat, courant>>
      BY <1>10, <2>3 DEF AfterU
    <3> QED
      BY <3>1 DEF TerminalAtHand, Parsing, Before, Operand
  <2> QED
    BY <2>1, <2>2, <2>3
<1>11. CASE ExpReturns
  BY <1>11 DEF ExpReturns, TerminalAtHand, Parsing, Before, Operand
<1>12. CASE AnalSyntReturns
  BY <1>12 DEF AnalSyntReturns, TerminalAtHand, Parsing
<1>13. CASE WriteResult
  BY <1>13 DEF WriteResult, TerminalAtHand, Parsing
<1>14. CASE UNCHANGED vars
  BY <1>14 DEF vars, TerminalAtHand, Before, Operand
<1> QED
  BY <1>1, <1>2, <1>3, <1>4, <1>5, <1>6, <1>7, <1>8, <1>9, <1>10, <1>11, <1>12, <1>13, <1>14
     DEF Next, T_V, T_U, T_EXP

-----------------------------------------------------------------------------
(* The syntax tree. *)

(* LectAST() of one node, from that of its children.                       *)
Lect(nodes, i, lect) ==
  IF nodes[i].gauche = 0 THEN nodes[i].terminal.chaine
  ELSE <<"(">> \o lect[nodes[i].gauche] \o nodes[i].terminal.chaine
         \o lect[nodes[i].droit] \o <<")">>

(* The recursion of LectAST() ends. *)
LEMMA LectExists ==
  ASSUME NEW nodes, Tree(nodes)
  PROVE  \E f : f = [i \in 1 .. Len(nodes) |-> Lect(nodes, i, f)]
<1> DEFINE Solves(f, b) == f = [i \in 1 .. b |-> Lect(nodes, i, f)]
           Unsolved == {b \in Nat : b <= Len(nodes) /\ ~ \E f : Solves(f, b)}
<1>0. Len(nodes) \in Nat
  BY LenProperties DEF Tree
<1>1. 0 \notin Unsolved
  <2> DEFINE f == [i \in {} |-> i]
  <2>1. 1 .. 0 = {}
    OBVIOUS
  <2>2. Solves(f, 0)
    BY <2>1
  <2> QED
    BY <2>2
<1>2. ASSUME NEW b \in Nat, b \notin Unsolved, b + 1 <= Len(nodes)
      PROVE  b + 1 \notin Unsolved
  <2>1. PICK f : Solves(f, b)
    BY <1>0, <1>2
  <2> DEFINE g == [i \in 1 .. b + 1 |-> IF i = b + 1 THEN Lect(nodes, i, f) ELSE f[i]]
  <2>2. \A i \in 1 .. b : i \in 1 .. b + 1 /\ g[i] = f[i]
    OBVIOUS
  <2>3. \A i \in 1 .. b + 1 : Lect(nodes, i, f) = Lect(nodes, i, g)
    <3> TAKE i \in 1 .. b + 1
    <3> HIDE DEF g
    <3>1. i \in 1 .. Len(nodes)
      BY <1>0, <1>2
    <3>2. nodes[i].gauche = 0 \/ (nodes[i].gauche \in 1 .. b /\ nodes[i].droit \in 1 .. b)
      BY <1>0, <3>1 DEF Tree
    <3>3. CASE nodes[i].gauche = 0
      BY <3>3 DEF Lect
    <3>4. CASE nodes[i].gauche # 0 /\ nodes[i].gauche \in 1 .. b /\ nodes[i].droit \in 1 .. b
      <4>1. g[nodes[i].gauche] = f[nodes[i].gauche] /\ g[nodes[i].droit] = f[nodes[i].droit]
        BY <2>2, <3>4
      <4> QED
        BY <4>1, Zenon DEF Lect
    <3> QED
      BY <3>2, <3>3, <3>4
  <2>4. \A i \in 1 .. b + 1 : g[i] = Lect(nodes, i, f)
    <3> TAKE i \in 1 .. b + 1
    <3>1. CASE i = b + 1
      BY <3>1
    <3>2. CASE i # b + 1
      <4>1. i \in 1 .. b
        BY <3>2
      <4> QED
        BY <4>1, <2>1, <2>2
    <3> QED
      BY <3>1, <3>2
  <2>5. Solves(g, b + 1)
    <3>1. g = [i \in 1 .. b + 1 |-> g[i]]
      OBVIOUS
    <3> HIDE DEF g
    <3>2. \A i \in 1 .. b + 1 : g[i] = Lect(nodes, i, g)
      BY <2>3, <2>4
    <3> QED
      BY <3>1, <3>2
  <2> QED
    BY <2>5
<1>3. Unsolved = {}
  <2> SUFFICES ASSUME Unsolved # {} PROVE FALSE
    OBVIOUS
  <2>1. PICK k \in Unsolved : \A y \in Unsolved : k <= y
    BY LeastNumber
  <2>2. k \in Nat /\ k # 0 /\ k <= Len(nodes)
    BY <1>1
  <2>3. k - 1 \in Nat /\ ~(k <= k - 1) /\ (k - 1) + 1 = k
    BY <2>2
  <2> HIDE DEF Unsolved
  <2>4. k - 1 \notin Unsolved
    BY <2>1, <2>3
  <2> QED
    BY <2>2, <2>3, <2>4, <1>2
<1> QED
  BY <1>0, <1>3

(* The text of a tree is not empty. *)
LEMMA LectASTIsText ==
  ASSUME NEW nodes, Tree(nodes), NEW i \in 1 .. Len(nodes)
  PROVE  LectAST(nodes)[i] \in Seq(Characters) \ {<< >>}
<1> DEFINE Solves(f) == f = [k \in 1 .. Len(nodes) |-> Lect(nodes, k, f)]
           lect == CHOOSE f : Solves(f)
<1>0. Len(nodes) \in Nat /\ DOMAIN nodes = 1 .. Len(nodes)
  BY LenProperties DEF Tree
<1>1. Solves(lect)
  <2>1. \E f : Solves(f)
    BY LectExists
  <2> QED
    BY <2>1
<1>2. LectAST(nodes) = lect
  BY <1>0, Zenon DEF LectAST, Lect
<1>3. PICK f : Solves(f) /\ LectAST(nodes) = f
  BY <1>1, <1>2
<1> HIDE DEF lect
<1> DEFINE Wrong == {k \in Nat : k \in 1 .. Len(nodes) /\ f[k] \notin Seq(Characters) \ {<< >>}}
<1>4. Wrong = {}
  <2> SUFFICES ASSUME Wrong # {} PROVE FALSE
    OBVIOUS
  <2>1. PICK k \in Wrong : \A y \in Wrong : k <= y
    BY LeastNumber
  <2>2. k \in 1 .. Len(nodes) /\ f[k] \notin Seq(Characters) \ {<< >>}
    BY <2>1
  <2>3. f[k] = Lect(nodes, k, f)
    <3>1. f = [m \in 1 .. Len(nodes) |-> Lect(nodes, m, f)]
      BY <1>3
    <3> QED
      BY <2>2, <3>1, Zenon
  <2>4. ASSUME NEW m \in 1 .. k - 1
        PROVE  f[m] \in Seq(Characters)
    <3>1. m \in Nat /\ m \in 1 .. Len(nodes) /\ ~(k <= m)
      BY <1>0, <2>2
    <3> QED
      BY <2>1, <3>1
  <2> HIDE DEF Wrong
  <2>5. nodes[k] \in Noeud
    BY <2>2, ElementOfSeq DEF Tree
  <2>6. nodes[k].terminal.chaine \in Seq(Characters) \ {<< >>}
    <3>1. nodes[k].terminal.chaine \in Seq(STRING)
      BY <2>5 DEF Noeud, Terminal
    <3>2. STRING \subseteq Characters
      BY DEF Characters
    <3>3. nodes[k].terminal.chaine \in Seq(Characters)
      BY <3>1, <3>2, SeqMonotonic
    <3> QED
      BY <2>2, <3>3 DEF Tree
  <2>7. CASE nodes[k].gauche = 0
    BY <2>2, <2>3, <2>6, <2>7 DEF Lect
  <2>8. CASE nodes[k].gauche # 0
    <3>1. nodes[k].gauche \in 1 .. k - 1 /\ nodes[k].droit \in 1 .. k - 1
      BY <2>2, <2>8 DEF Tree
    <3>2. PICK a \in Seq(Characters), b \in Seq(Characters), c \in Seq(Characters) :
            f[k] = <<"(">> \o a \o c \o b \o <<")">>
      BY <2>3, <2>4, <2>6, <2>8, <3>1 DEF Lect
    <3>3. <<"(">> \in Seq(Characters) /\ <<")">> \in Seq(Characters) /\ Len(<<")">>) = 1
      BY DEF Characters
    <3>4. <<"(">> \o a \in Seq(Characters)
      BY <3>3, ConcatProperties
    <3>5. (<<"(">> \o a) \o c \in Seq(Characters)
      BY <3>4, ConcatProperties
    <3>6. PICK l \in Seq(Characters) : l = ((<<"(">> \o a) \o c) \o b
      BY <3>5, ConcatProperties
    <3>7. l \o <<")">> \in Seq(Characters) /\ Len(l \o <<")">>) = Len(l) + 1 /\ Len(l) \in Nat
      BY <3>3, ConcatProperties, LenProperties
    <3>8. f[k] = l \o <<")">>
      BY <3>2, <3>6
    <3>9. Len(f[k]) # 0
      BY <3>7, <3>8
    <3> QED
      BY <2>2, <3>7, <3>8, <3>9
  <2> QED
    BY <2>7, <2>8
<1>5. i \in Nat
  BY <1>0
<1>6. f[i] \in Seq(Characters) \ {<< >>}
  BY <1>4, <1>5
<1> QED
  BY <1>3, <1>6

(* A node is added above nodes that the tree has. *)
LEMMA NodeAdded ==
  ASSUME NEW nodes, Tree(nodes), NEW node \in Noeud, node.terminal.chaine # << >>,
         \/ node.gauche = 0 /\ node.droit = 0
         \/ node.gauche \in 1 .. Len(nodes) /\ node.droit \in 1 .. Len(nodes)
  PROVE  Tree(Append(nodes, node)) /\ Len(Append(nodes, node)) = Len(nodes) + 1
<1>0. Len(nodes) \in Nat /\ nodes \in Seq(Noeud)
  BY LenProperties DEF Tree
<1>1. PICK more : more = Append(nodes, node)
  OBVIOUS
<1>2. /\ more \in Seq(Noeud) /\ Len(more) = Len(nodes) + 1
      /\ \A i \in 1 .. Len(nodes) : more[i] = nodes[i]
      /\ more[Len(nodes) + 1] = node
  BY <1>0, <1>1, AppendProperties
<1>3. ASSUME NEW i \in 1 .. Len(more)
      PROVE  /\ more[i].terminal.chaine # << >>
             /\ \/ more[i].gauche = 0 /\ more[i].droit = 0
                \/ more[i].gauche \in 1 .. i - 1 /\ more[i].droit \in 1 .. i - 1
  <2>1. CASE i \in 1 .. Len(nodes)
    BY <1>2, <2>1 DEF Tree
  <2>2. CASE i = Len(nodes) + 1
    <3>1. i - 1 = Len(nodes)
      BY <1>0, <2>2
    <3>2. more[i] = node
      BY <1>2, <2>2
    <3> QED
      BY <3>1, <3>2
  <2> QED
    BY <1>0, <1>2, <2>1, <2>2
<1> QED
  BY <1>0, <1>1, <1>2, <1>3 DEF Tree

(* A call goes to the stack with an operand that the tree has. *)
LEMMA CallAdded ==
  ASSUME NEW calls, NEW nodes \in Nat, Calls(calls, nodes),
         NEW m \in {"T_V", "T_U", "T_EXP"}, NEW t \in Terminal, t.chaine # << >>,
         NEW g \in 0 .. nodes, m # "T_V" => g # 0,
         NEW more, more = Append(calls, [methode |-> m, opt |-> t, gauche |-> g])
  PROVE  Calls(more, nodes)
<1>0. Len(calls) \in Nat /\ calls \in Seq(Appel)
  BY LenProperties DEF Calls
<1>1. PICK call \in Appel : call = [methode |-> m, opt |-> t, gauche |-> g]
  BY DEF Appel
<1>2. /\ more \in Seq(Appel) /\ Len(more) = Len(calls) + 1
      /\ \A i \in 1 .. Len(calls) : more[i] = calls[i]
      /\ more[Len(calls) + 1] = call
  BY <1>0, <1>1, AppendProperties
<1>3. ASSUME NEW k \in 1 .. Len(more)
      PROVE  /\ more[k].opt.chaine # << >>
             /\ more[k].gauche \in 0 .. nodes
             /\ more[k].methode # "T_V" => more[k].gauche # 0
  <2>1. CASE k \in 1 .. Len(calls)
    BY <1>2, <2>1 DEF Calls
  <2>2. CASE k = Len(calls) + 1
    BY <1>1, <1>2, <2>2
  <2> QED
    BY <1>0, <1>2, <2>1, <2>2
<1> QED
  BY <1>2, <1>3 DEF Calls

(* A call leaves the stack, and the tree may have grown. *)
LEMMA CallLeaves ==
  ASSUME NEW calls, NEW nodes \in Nat, Calls(calls, nodes), calls # << >>,
         NEW more \in Nat, nodes <= more
  PROVE  /\ Calls(Front(calls), more)
         /\ Len(calls) \in Nat \ {0} /\ Len(Front(calls)) = Len(calls) - 1
         /\ \A k \in 1 .. Len(calls) - 1 : Front(calls)[k] = calls[k]
         /\ Last(calls) = calls[Len(calls)]
         /\ Last(calls) \in Appel /\ Last(calls).opt.chaine # << >>
         /\ Last(calls).gauche \in 0 .. nodes
         /\ Last(calls).methode # "T_V" => Last(calls).gauche # 0
<1>0. Len(calls) \in Nat /\ calls \in Seq(Appel)
  BY LenProperties DEF Calls
<1>1. Len(calls) # 0
  BY <1>0, EmptySeq
<1>2. PICK l \in Nat : l = Len(calls) - 1 /\ l + 1 = Len(calls)
  BY <1>0, <1>1
<1>3. \A i \in 1 .. l : calls[i] \in Appel
  <2>1. \A i \in 1 .. l : i \in 1 .. Len(calls)
    BY <1>2
  <2> QED
    BY <1>0, <2>1, ElementOfSeq
<1>4. /\ SubSeq(calls, 1, l) \in Seq(Appel) /\ Len(SubSeq(calls, 1, l)) = l
      /\ \A i \in 1 .. l : SubSeq(calls, 1, l)[i] = calls[i]
  <2>1. 1 \in Int /\ l \in Int /\ l - 1 + 1 = l /\ \A i \in 1 .. l : 1 + i - 1 = i
    BY <1>2
  <2>2. /\ SubSeq(calls, 1, l) \in Seq(Appel)
        /\ Len(SubSeq(calls, 1, l)) = IF 1 <= l THEN l - 1 + 1 ELSE 0
        /\ \A i \in 1 .. l - 1 + 1 : SubSeq(calls, 1, l)[i] = calls[1 + i - 1]
    BY <1>3, <2>1, SubSeqProperties
  <2> QED
    BY <1>2, <2>1, <2>2
<1>5. Front(calls) = SubSeq(calls, 1, l) /\ Last(calls) = calls[l + 1] /\ l + 1 \in 1 .. Len(calls)
  BY <1>2 DEF Front, Last
<1>6. \A k \in 1 .. l : k \in 1 .. Len(calls)
  BY <1>2
<1>7. Calls(Front(calls), more)
  BY <1>4, <1>5, <1>6 DEF Calls
<1>8. Last(calls) \in Appel
  BY <1>0, <1>5, ElementOfSeq
<1> QED
  BY <1>2, <1>4, <1>5, <1>7, <1>8 DEF Calls

(* The call at hand is given an operand and waits.                         *)
LEMMA CallWaits ==
  ASSUME TerminalAtHand, TreeGrows, NEW m \in {"T_V", "T_U", "T_EXP"}, Call(m),
         pc \in Parsing, NEW c \in Operators, Is(c), m # "T_V" => n # 0,
         UNCHANGED <<arbre, n, toWrite>>, pc' \in {"T_V", "null"}
  PROVE  TreeGrows'
<1>1. courant \in Terminal /\ courant.chaine # << >>
  <2>1. courant.chaine = <<c>>
    BY DEF Is
  <2> QED
    BY <2>1 DEF TerminalAtHand
<1>2. Len(arbre) \in Nat
  BY LenProperties DEF TreeGrows, Tree
<1>3. Calls(pile', Len(arbre))
  BY <1>1, <1>2, CallAdded DEF TreeGrows, Call
<1> QED
  BY <1>3 DEF TreeGrows

(* A call that waits for its right operand makes a node.                   *)
LEMMA NodeMade ==
  ASSUME TreeGrows, MakeNode, pile # << >>, Last(pile).methode # "T_V", n # 0,
         UNCHANGED toWrite
  PROVE  TreeGrows'
<1>1. /\ Len(arbre) \in Nat /\ Tree(arbre) /\ Calls(pile, Len(arbre))
      /\ n \in 1 .. Len(arbre)
      /\ toWrite \in Seq(Seq(Characters) \ {<< >>})
  BY LenProperties DEF TreeGrows, Tree
<1>2. /\ Last(pile) \in Appel /\ Last(pile).opt.chaine # << >>
      /\ Last(pile).gauche \in 1 .. Len(arbre)
      /\ Calls(Front(pile), Len(arbre) + 1)
  <2>1. Len(arbre) + 1 \in Nat /\ Len(arbre) <= Len(arbre) + 1
    BY <1>1
  <2>2. /\ Last(pile) \in Appel /\ Last(pile).opt.chaine # << >>
        /\ Last(pile).gauche \in 0 .. Len(arbre)
        /\ Last(pile).methode # "T_V" => Last(pile).gauche # 0
        /\ Calls(Front(pile), Len(arbre) + 1)
    BY <1>1, <2>1, CallLeaves
  <2> QED
    BY <1>1, <2>2
<1>3. Last(pile).opt \in Terminal
  BY <1>2 DEF Appel
<1>4. Tree(arbre') /\ Len(arbre') = Len(arbre) + 1
  <2>1. Last(pile).gauche \in Nat /\ n \in Nat
    BY <1>1, <1>2
  <2>2. PICK node \in Noeud :
           node = [terminal |-> Last(pile).opt, gauche |-> Last(pile).gauche, droit |-> n]
    BY <1>3, <2>1 DEF Noeud
  <2>3. /\ node.terminal.chaine # << >>
        /\ node.gauche \in 1 .. Len(arbre) /\ node.droit \in 1 .. Len(arbre)
    BY <1>1, <1>2, <2>2
  <2>4. arbre' = Append(arbre, node)
    BY <2>2 DEF MakeNode
  <2> QED
    BY <1>1, <2>3, <2>4, NodeAdded
<1>5. pile' = Front(pile) /\ n' = Len(arbre) + 1
  BY DEF MakeNode
<1>6. Calls(pile', Len(arbre')) /\ n' \in 0 .. Len(arbre') /\ n' # 0
  BY <1>1, <1>2, <1>4, <1>5
<1> QED
  BY <1>1, <1>4, <1>6 DEF TreeGrows

LEMMA TreeInit == Init => TreeGrows
<1> SUFFICES ASSUME Init PROVE TreeGrows
  OBVIOUS
<1>1. Tree(arbre) /\ Calls(pile, Len(arbre)) /\ Len(arbre) = 0
  BY EmptySeq DEF Init, Tree, Calls
<1> QED
  BY <1>1, EmptySeq DEF Init, TreeGrows

LEMMA TreeStep == TerminalAtHand /\ TreeGrows /\ [Next]_vars => TreeGrows'
<1> SUFFICES ASSUME TerminalAtHand, TreeGrows, [Next]_vars PROVE TreeGrows'
  OBVIOUS
<1> USE DEF lexer, parser, output
<1>0. Len(arbre) \in Nat /\ Len(toWrite) \in Nat
  BY LenProperties DEF TreeGrows, Tree
<1>1. CASE LexOne
  <2>1. CASE Suivant.ok
    <3>1. Suivant.terminal.chaine \in Seq(STRING) \ {<< >>}
      BY <1>1, <2>1, LexOneReads
    <3>2. STRING \subseteq Characters
      BY DEF Characters
    <3>3. PICK chaine \in Seq(Characters) \ {<< >>} : chaine = Suivant.terminal.chaine
      BY <3>1, <3>2, SeqMonotonic
    <3>4. toWrite' = Append(toWrite, chaine) /\ UNCHANGED <<arbre, pile, n>> /\ pc' = "start"
      BY <1>1, <2>1, <3>3 DEF LexOne
    <3>5. toWrite' \in Seq(Seq(Characters) \ {<< >>})
      BY <3>3, <3>4, AppendProperties DEF TreeGrows
    <3> QED
      BY <3>4, <3>5 DEF TreeGrows
  <2>2. CASE ~Suivant.ok
    BY <1>1, <2>2 DEF LexOne, TreeGrows
  <2> QED
    BY <2>1, <2>2
<1>2. CASE LexEnd
  BY <1>2 DEF LexEnd, TreeGrows
<1>3. CASE AnalSynt
  <2>1. pc' \in {"T_V", "null"} /\ UNCHANGED <<arbre, pile, n, toWrite>>
    BY <1>3 DEF AnalSynt, Read, Throw
  <2> QED
    BY <2>1 DEF TreeGrows
<1>4. CASE Leaf
  <2>1. courant \in Terminal /\ courant.chaine # << >>
    BY <1>4 DEF Leaf, TerminalAtHand, Parsing
  <2>2. /\ arbre' = Append(arbre, [terminal |-> courant, gauche |-> 0, droit |-> 0])
        /\ n' = Len(arbre) + 1 /\ UNCHANGED <<pile, toWrite>>
    BY <1>4 DEF Leaf
  <2>3. Tree(arbre') /\ Len(arbre') = Len(arbre) + 1
    <3>1. PICK node \in Noeud : node = [terminal |-> courant, gauche |-> 0, droit |-> 0]
      BY <2>1 DEF Noeud
    <3>2. /\ arbre' = Append(arbre, node) /\ Tree(arbre)
          /\ node.terminal.chaine # << >> /\ node.gauche = 0 /\ node.droit = 0
      BY <2>1, <2>2, <3>1 DEF TreeGrows
    <3> QED
      BY <3>2, NodeAdded
  <2>4. Calls(pile', Len(arbre'))
    <3>1. \A k \in 0 .. Len(arbre) : k \in 0 .. Len(arbre')
      BY <1>0, <2>3
    <3> QED
      BY <2>2, <3>1 DEF TreeGrows, Calls
  <2>5. n' \in 0 .. Len(arbre') /\ n' # 0
    BY <1>0, <2>2, <2>3
  <2> QED
    BY <2>2, <2>3, <2>4, <2>5 DEF TreeGrows
<1>5. CASE Open
  <2>1. /\ Is("(") /\ pc \in Parsing /\ Call("T_V") /\ UNCHANGED <<arbre, n, toWrite>>
        /\ pc' \in {"T_V", "null"}
    BY <1>5 DEF Open, Read, Parsing
  <2>2. "(" \in Operators
    BY DEF Operators
  <2> QED
    BY <2>1, <2>2, CallWaits
<1>6. CASE NoOperand
  BY <1>6 DEF NoOperand, Throw, TreeGrows
<1>7. CASE Close
  <2>1. CASE Is(")")
    <3>1. /\ pile # << >> /\ pile' = Front(pile) /\ UNCHANGED <<arbre, n, toWrite>>
          /\ pc = "up_EXP"
      BY <1>7, <2>1 DEF Close
    <3>2. Calls(pile', Len(arbre))
      BY <1>0, <3>1, CallLeaves DEF TreeGrows
    <3>3. n # 0
      BY <3>1 DEF TreeGrows
    <3> QED
      BY <3>1, <3>2, <3>3 DEF TreeGrows
  <2>2. CASE ~Is(")")
    BY <1>7, <2>2 DEF Close, Throw, TreeGrows
  <2> QED
    BY <2>1, <2>2
<1>8. CASE AfterV
  <2>1. CASE Multiplicative
    <3>1. PICK c \in {"*", "/"} : Is(c)
      BY <2>1 DEF Multiplicative
    <3>2. /\ pc \in Parsing /\ Call("T_U") /\ UNCHANGED <<arbre, n, toWrite>>
          /\ pc' \in {"T_V", "null"} /\ n # 0
      BY <1>8, <2>1 DEF AfterV, Read, Parsing, TreeGrows
    <3>3. c \in Operators
      BY DEF Operators
    <3> QED
      BY <3>1, <3>2, <3>3, CallWaits
  <2>2. CASE ~Multiplicative
    BY <1>8, <2>2 DEF AfterV, TreeGrows
  <2> QED
    BY <2>1, <2>2
<1>9. CASE UReturns
  <2>1. CASE pile # << >> /\ Last(pile).methode = "T_U"
    <3>1. MakeNode /\ n # 0 /\ UNCHANGED toWrite
      BY <1>9, <2>1 DEF UReturns, TreeGrows
    <3> QED
      BY <2>1, <3>1, NodeMade
  <2>2. CASE ~(pile # << >> /\ Last(pile).methode = "T_U")
    BY <1>9, <2>2 DEF UReturns, TreeGrows
  <2> QED
    BY <2>1, <2>2
<1>10. CASE AfterU
  <2>1. CASE Additive
    <3>1. PICK c \in {"+", "-"} : Is(c)
      BY <2>1 DEF Additive
    <3>2. /\ pc \in Parsing /\ Call("T_EXP") /\ UNCHANGED <<arbre, n, toWrite>>
          /\ pc' \in {"T_V", "null"} /\ n # 0
      BY <1>10, <2>1 DEF AfterU, Read, Parsing, TreeGrows
    <3>3. c \in Operators
      BY DEF Operators
    <3> QED
      BY <3>1, <3>2, <3>3, CallWaits
  <2>2. CASE ~Additive /\ Misplaced
    <3>1. Throw /\ UNCHANGED toWrite
      BY <1>10, <2>2 DEF AfterU
    <3> QED
      BY <3>1 DEF Throw, TreeGrows
  <2>3. CASE ~Additive /\ ~Misplaced
    <3>1. pc = "T_EXP" /\ pc' = "up_EXP" /\ UNCHANGED <<arbre, pile, n, toWrite>>
      BY <1>10, <2>3 DEF AfterU
    <3> QED
      BY <3>1 DEF TreeGrows
  <2> QED
    BY <2>1, <2>2, <2>3
<1>11. CASE ExpReturns
  <2>1. MakeNode /\ pile # << >> /\ Last(pile).methode = "T_EXP" /\ n # 0 /\ UNCHANGED toWrite
    BY <1>11 DEF ExpReturns, TreeGrows
  <2> QED
    BY <2>1, NodeMade
<1>12. CASE AnalSyntReturns
  BY <1>12 DEF AnalSyntReturns, TreeGrows
<1>13. CASE WriteResult
  <2>1. CASE pc = "tree" /\ EvalAST(arbre)[n] # {}
    <3>1. n \in 1 .. Len(arbre) /\ Tree(arbre)
      BY <1>0, <2>1 DEF TreeGrows
    <3>2. PICK chaine \in Seq(Characters) \ {<< >>} : chaine = LectAST(arbre)[n]
      BY <3>1, LectASTIsText
    <3>3. toWrite' = <<chaine>> /\ UNCHANGED <<arbre, pile, n>> /\ pc' = "written"
      BY <1>13, <2>1, <3>2 DEF WriteResult
    <3>4. toWrite' \in Seq(Seq(Characters) \ {<< >>})
      <4>1. \A S : \A x \in S : <<x>> \in Seq(S)
        OBVIOUS
      <4> QED
        BY <3>2, <3>3, <4>1
    <3> QED
      BY <3>3, <3>4 DEF TreeGrows
  <2>2. CASE ~(pc = "tree" /\ EvalAST(arbre)[n] # {})
    <3>1. pc' = "exit" /\ UNCHANGED <<arbre, pile, n, toWrite>>
      BY <1>13, <2>2 DEF WriteResult
    <3> QED
      BY <3>1 DEF TreeGrows
  <2> QED
    BY <2>1, <2>2
<1>14. CASE UNCHANGED vars
  BY <1>14 DEF vars, TreeGrows
<1> QED
  BY <1>1, <1>2, <1>3, <1>4, <1>5, <1>6, <1>7, <1>8, <1>9, <1>10, <1>11, <1>12, <1>13, <1>14
     DEF Next, T_V, T_U, T_EXP

-----------------------------------------------------------------------------
(* The counter of open parentheses. *)

LEMMA UpToFinite ==
  ASSUME NEW c, NEW m \in Nat
  PROVE  IsFiniteSet(UpTo(c, m)) /\ Cardinality(UpTo(c, m)) \in Nat
<1>1. IsFiniteSet(1 .. m)
  BY FS_Interval
<1>2. UpTo(c, m) \subseteq 1 .. m
  BY DEF UpTo
<1> QED
  BY <1>1, <1>2, FS_Subset, FS_CardinalityType

(* Behind an operand as many signs were read as before it.                 *)
LEMMA PassOperand ==
  ASSUME TerminalAtHand, pc \in Parsing, Operand, NEW c \in Operators
  PROVE  UpTo(c, ptr - 1) = UpTo(c, Before)
<1>1. /\ ptr \in Nat \ {0} /\ Before \in 0 .. ptr - 1
      /\ \A i \in Before + 1 .. ptr - 1 : texte[i] \notin Operators
  <2>1. Len(texte) \in Nat
    BY TextIsASequence DEF TerminalAtHand
  <2> QED
    BY <2>1 DEF TerminalAtHand
<1>2. PICK b \in Nat : b = Before /\ b <= ptr - 1
  BY <1>1
<1>3. \A k \in 1 .. ptr - 1 : texte[k] = c => k \in 1 .. b
  BY <1>1, <1>2
<1>4. \A k \in 1 .. b : k \in 1 .. ptr - 1
  BY <1>1, <1>2
<1>5. UpTo(c, ptr - 1) = UpTo(c, b)
  BY <1>3, <1>4 DEF UpTo
<1> QED
  BY <1>2, <1>5

(* Behind a sign there is one more of it, and as many of the others.       *)
LEMMA PassSign ==
  ASSUME TerminalAtHand, pc \in Parsing, NEW s \in Operators, Is(s), NEW c \in Operators
  PROVE  /\ Cardinality(UpTo(c, Before)) \in Nat
         /\ Cardinality(UpTo(c, ptr - 1)) =
              Cardinality(UpTo(c, Before)) + (IF c = s THEN 1 ELSE 0)
<1>1. /\ Before + 2 = ptr /\ ptr - 1 \in 1 .. Len(texte) /\ texte[ptr - 1] = s
      /\ ptr \in Int /\ Before \in 0 .. ptr - 1
  <2>1. Len(texte) \in Nat
    BY TextIsASequence DEF TerminalAtHand
  <2> QED
    BY <2>1, SignsAreOperators DEF TerminalAtHand
<1>2. PICK b \in Nat : b = Before /\ ptr - 1 = b + 1 /\ texte[b + 1] = s
  BY <1>1
<1>3. IsFiniteSet(UpTo(c, b)) /\ Cardinality(UpTo(c, b)) \in Nat
  BY UpToFinite
<1>4. CASE c = s
  <2>1. UpTo(c, b + 1) = UpTo(c, b) \cup {b + 1} /\ b + 1 \notin UpTo(c, b)
    BY <1>2, <1>4 DEF UpTo
  <2> QED
    BY <1>2, <1>3, <1>4, <2>1, FS_AddElement
<1>5. CASE c # s
  <2>1. UpTo(c, b + 1) = UpTo(c, b)
    BY <1>2, <1>5 DEF UpTo
  <2> QED
    BY <1>2, <1>3, <1>5, <2>1
<1> QED
  BY <1>4, <1>5

LEMMA WaitingFinite ==
  ASSUME NEW calls, Len(calls) \in Nat
  PROVE  IsFiniteSet(WaitForClose(calls)) /\ Cardinality(WaitForClose(calls)) \in Nat
<1>1. IsFiniteSet(1 .. Len(calls))
  BY FS_Interval
<1>2. WaitForClose(calls) \subseteq 1 .. Len(calls)
  BY DEF WaitForClose
<1> QED
  BY <1>1, <1>2, FS_Subset, FS_CardinalityType

(* A call that joins or leaves the stack counts if it waits for a ")".     *)
LEMMA WaitingJoins ==
  ASSUME NEW calls \in Seq(Appel), NEW call \in Appel
  PROVE  Cardinality(WaitForClose(Append(calls, call))) =
           Cardinality(WaitForClose(calls)) + (IF call.methode = "T_V" THEN 1 ELSE 0)
<1>1. PICK l \in Nat, more \in Seq(Appel) :
         /\ l = Len(calls) /\ more = Append(calls, call) /\ Len(more) = l + 1
         /\ \A i \in 1 .. l : more[i] = calls[i]
         /\ more[l + 1] = call
  <2>1. /\ Append(calls, call) \in Seq(Appel) /\ Len(Append(calls, call)) = Len(calls) + 1
        /\ \A i \in 1 .. Len(calls) : Append(calls, call)[i] = calls[i]
        /\ Append(calls, call)[Len(calls) + 1] = call
        /\ Len(calls) \in Nat
    BY LenProperties, AppendProperties
  <2> QED
    BY <2>1
<1>2. IsFiniteSet(WaitForClose(calls)) /\ Cardinality(WaitForClose(calls)) \in Nat
  BY <1>1, WaitingFinite
<1>3. CASE call.methode = "T_V"
  <2>1. WaitForClose(more) = WaitForClose(calls) \cup {l + 1} /\ l + 1 \notin WaitForClose(calls)
    BY <1>1, <1>3 DEF WaitForClose
  <2>2. Cardinality(WaitForClose(more)) = Cardinality(WaitForClose(calls)) + 1
    BY <1>2, <2>1, FS_AddElement
  <2> QED
    BY <1>1, <1>3, <2>2
<1>4. CASE call.methode # "T_V"
  <2>1. WaitForClose(more) = WaitForClose(calls)
    BY <1>1, <1>4 DEF WaitForClose
  <2> QED
    BY <1>1, <1>2, <1>4, <2>1
<1> QED
  BY <1>3, <1>4

LEMMA WaitingLeaves ==
  ASSUME NEW nodes \in Nat, NEW calls, Calls(calls, nodes), calls # << >>
  PROVE  /\ Cardinality(WaitForClose(Front(calls))) \in Nat
         /\ Cardinality(WaitForClose(calls)) =
              Cardinality(WaitForClose(Front(calls)))
                + (IF Last(calls).methode = "T_V" THEN 1 ELSE 0)
<1>1. PICK l, front :
         /\ l \in Nat /\ Len(calls) = l + 1 /\ front = Front(calls) /\ Len(front) = l
         /\ \A k \in 1 .. l : front[k] = calls[k]
         /\ Last(calls) = calls[l + 1]
  <2>1. /\ Len(calls) \in Nat \ {0} /\ Len(Front(calls)) = Len(calls) - 1
        /\ \A k \in 1 .. Len(calls) - 1 : Front(calls)[k] = calls[k]
        /\ Last(calls) = calls[Len(calls)]
    BY CallLeaves
  <2>2. PICK l \in Nat : Len(calls) = l + 1 /\ l = Len(calls) - 1
    BY <2>1
  <2> QED
    BY <2>1, <2>2
<1>2. IsFiniteSet(WaitForClose(front)) /\ Cardinality(WaitForClose(front)) \in Nat
  BY <1>1, WaitingFinite
<1>3. CASE Last(calls).methode = "T_V"
  <2>1. WaitForClose(calls) = WaitForClose(front) \cup {l + 1} /\ l + 1 \notin WaitForClose(front)
    BY <1>1, <1>3 DEF WaitForClose
  <2>2. Cardinality(WaitForClose(calls)) = Cardinality(WaitForClose(front)) + 1
    BY <1>2, <2>1, FS_AddElement
  <2> QED
    BY <1>1, <1>2, <1>3, <2>2
<1>4. CASE Last(calls).methode # "T_V"
  <2>1. WaitForClose(calls) = WaitForClose(front)
    BY <1>1, <1>4 DEF WaitForClose
  <2> QED
    BY <1>1, <1>2, <1>4, <2>1
<1> QED
  BY <1>3, <1>4

(* After a terminal is read, the counter has to fit the text before it.    *)
LEMMA CountedAfterRead ==
  ASSUME TerminalAtHand, pc \in Parsing \cup {"start"}, NEW where \in Parsing, Read(where),
         texte' = texte, ouvertes' \in Nat,
         Suivant.ok =>
           /\ ouvertes' = Cardinality(WaitForClose(pile'))
           /\ ouvertes' = Cardinality(UpTo("(", ptr - 1)) - Cardinality(UpTo(")", ptr - 1))
  PROVE  ParenthesesCounted'
<1>1. CASE pc' = "null"
  BY <1>1 DEF ParenthesesCounted, Parsing
<1>2. CASE pc' = where /\ Suivant.ok
  <2>1. Before' = ptr - 1 /\ pc' # "start"
    <3>1. pc' # "null" /\ pc' # "start"
      BY <1>2 DEF Parsing
    <3>2. ptr' - 1 - Len(courant'.chaine) = ptr - 1
      BY <3>1, ReadReads
    <3> QED
      BY <3>1, <3>2 DEF Before
  <2>2. \A c : {k \in 1 .. Before' : texte'[k] = c} = UpTo(c, ptr - 1)
    BY <2>1 DEF UpTo
  <2> QED
    BY <1>2, <2>1, <2>2 DEF ParenthesesCounted, UpTo, WaitForClose
<1> QED
  BY <1>1, <1>2, ReadReads

(* A call that waits for an operand leaves the counter alone.              *)
LEMMA CountedAtCall ==
  ASSUME TerminalAtHand, TreeGrows, ParenthesesCounted, pc \in Parsing,
         NEW m \in {"T_U", "T_EXP"}, Call(m), Read("T_V"),
         NEW c \in Operators \ {"(", ")"}, Is(c), UNCHANGED <<texte, ouvertes>>
  PROVE  ParenthesesCounted'
<1>1. /\ "(" \in Operators /\ ")" \in Operators /\ c # "(" /\ c # ")" /\ m # "T_V"
      /\ "T_V" \in Parsing
  BY DEF Operators, Parsing
<1>2. PICK call \in Appel : call = [methode |-> m, opt |-> courant, gauche |-> n]
  <2>1. courant \in Terminal /\ n \in Nat
    BY LenProperties DEF TerminalAtHand, TreeGrows, Tree
  <2> QED
    BY <2>1 DEF Appel
<1>3. pile' = Append(pile, call) /\ call.methode # "T_V" /\ pile \in Seq(Appel)
  BY <1>1, <1>2 DEF Call, TreeGrows, Calls
<1>4. Len(pile) \in Nat /\ Cardinality(WaitForClose(pile)) \in Nat
  BY <1>3, LenProperties, WaitingFinite
<1>5. Cardinality(WaitForClose(pile')) = Cardinality(WaitForClose(pile))
  BY <1>3, <1>4, WaitingJoins
<1>6. \A d \in {"(", ")"} : Cardinality(UpTo(d, ptr - 1)) = Cardinality(UpTo(d, Before))
  BY <1>1, PassSign
<1>7. /\ ouvertes' \in Nat /\ ouvertes' = Cardinality(WaitForClose(pile'))
      /\ ouvertes' = Cardinality(UpTo("(", ptr - 1)) - Cardinality(UpTo(")", ptr - 1))
  BY <1>5, <1>6 DEF ParenthesesCounted
<1> QED
  BY <1>1, <1>7, CountedAfterRead

LEMMA CountedAtNode ==
  ASSUME TreeGrows, ParenthesesCounted, pc \in Parsing,
         MakeNode, pile # << >>, Last(pile).methode # "T_V",
         UNCHANGED <<texte, ptr, courant, ouvertes, pc>>
  PROVE  ParenthesesCounted'
<1>1. pile' = Front(pile)
  BY DEF MakeNode
<1>2. Cardinality(WaitForClose(pile')) \in Nat /\ Cardinality(WaitForClose(pile)) = Cardinality(WaitForClose(pile'))
  <2>1. Len(arbre) \in Nat
    BY LenProperties DEF TreeGrows, Tree
  <2> QED
    BY <1>1, <2>1, WaitingLeaves DEF TreeGrows
<1>3. pc # "start"
  BY DEF Parsing
<1> QED
  BY <1>2, <1>3 DEF ParenthesesCounted, UpTo, Before, WaitForClose

LEMMA CountedInit == Init => ParenthesesCounted
BY DEF Init, ParenthesesCounted, Parsing

LEMMA CountedStep ==
  TerminalAtHand /\ TreeGrows /\ ParenthesesCounted /\ [Next]_vars => ParenthesesCounted'
<1> SUFFICES ASSUME TerminalAtHand, TreeGrows, ParenthesesCounted, [Next]_vars
             PROVE  ParenthesesCounted'
  OBVIOUS
<1> USE DEF lexer, parser, output
<1>0. /\ "(" \in Operators /\ ")" \in Operators
      /\ "T_V" \in Parsing /\ "T_U" \in Parsing
      /\ Len(arbre) \in Nat /\ Len(pile) \in Nat /\ pile \in Seq(Appel)
      /\ Cardinality(WaitForClose(pile)) \in Nat
  <2>1. /\ Len(arbre) \in Nat /\ Len(pile) \in Nat /\ pile \in Seq(Appel)
    BY LenProperties DEF TreeGrows, Tree, Calls
  <2> QED
    BY <2>1, WaitingFinite DEF Operators, Parsing
<1>1. CASE LexOne
  BY <1>1 DEF LexOne, ParenthesesCounted, Parsing
<1>2. CASE LexEnd
  BY <1>2 DEF LexEnd, ParenthesesCounted, Parsing
<1>3. CASE AnalSynt
  <2>1. CASE ResteTerminal
    <3>1. /\ Read("T_V") /\ texte' = texte /\ pc = "start" /\ ptr = 1
          /\ ouvertes' = 0 /\ pile' = << >>
      BY <1>3, <2>1 DEF AnalSynt, TerminalAtHand, ParenthesesCounted
    <3>2. WaitForClose(pile') = {} /\ \A c : UpTo(c, ptr - 1) = {}
      <4>1. 1 .. 0 = {} /\ 1 - 1 = 0 /\ Len(<< >>) = 0
        OBVIOUS
      <4> QED
        BY <3>1, <4>1 DEF WaitForClose, UpTo
    <3>3. ouvertes' = Cardinality(WaitForClose(pile'))
          /\ ouvertes' = Cardinality(UpTo("(", ptr - 1)) - Cardinality(UpTo(")", ptr - 1))
      <4>1. Cardinality({}) = 0 /\ 0 = 0 - 0
        BY FS_EmptySet
      <4>2. UpTo("(", ptr - 1) = {} /\ UpTo(")", ptr - 1) = {}
        BY <3>2
      <4> QED
        BY ONLY <3>1, <3>2, <4>1, <4>2
    <3> QED
      BY <1>0, <3>1, <3>3, CountedAfterRead
  <2>2. CASE ~ResteTerminal
    BY <1>3, <2>2 DEF AnalSynt, Throw, ParenthesesCounted, Parsing
  <2> QED
    BY <2>1, <2>2
<1>4. CASE Leaf
  <2>1. pc \in Parsing /\ Operand /\ Read("T_U") /\ UNCHANGED <<texte, ouvertes, pile>>
    BY <1>4 DEF Leaf, Parsing
  <2>2. UpTo("(", ptr - 1) = UpTo("(", Before) /\ UpTo(")", ptr - 1) = UpTo(")", Before)
    BY <1>0, <2>1, PassOperand
  <2>3. /\ ouvertes' \in Nat /\ ouvertes' = Cardinality(WaitForClose(pile'))
        /\ ouvertes' = Cardinality(UpTo("(", ptr - 1)) - Cardinality(UpTo(")", ptr - 1))
    BY <2>1, <2>2 DEF ParenthesesCounted
  <2> QED
    BY <1>0, <2>1, <2>3, CountedAfterRead
<1>5. CASE Open
  <2>1. /\ pc \in Parsing /\ Is("(") /\ Read("T_V") /\ texte' = texte /\ Call("T_V")
        /\ ouvertes' = IF Suivant.ok THEN ouvertes + 1 ELSE ouvertes
    BY <1>5 DEF Open, Parsing
  <2>2. PICK call \in Appel : call = [methode |-> "T_V", opt |-> courant, gauche |-> n]
    <3>1. courant \in Terminal /\ n \in Nat
      BY LenProperties DEF TerminalAtHand, TreeGrows, Tree
    <3> QED
      BY <3>1 DEF Appel
  <2>3. pile' = Append(pile, call) /\ call.methode = "T_V"
    BY <2>1, <2>2 DEF Call
  <2>4. Cardinality(WaitForClose(pile')) = Cardinality(WaitForClose(pile)) + 1
    BY <1>0, <2>3, WaitingJoins
  <2>5. /\ Cardinality(UpTo("(", Before)) \in Nat /\ Cardinality(UpTo(")", Before)) \in Nat
        /\ Cardinality(UpTo("(", ptr - 1)) = Cardinality(UpTo("(", Before)) + 1
        /\ Cardinality(UpTo(")", ptr - 1)) = Cardinality(UpTo(")", Before))
    <3>1. ")" # "("
      OBVIOUS
    <3> QED
      BY <1>0, <2>1, <3>1, PassSign
  <2>6. /\ ouvertes \in Nat /\ ouvertes = Cardinality(WaitForClose(pile))
        /\ ouvertes = Cardinality(UpTo("(", Before)) - Cardinality(UpTo(")", Before))
    BY <2>1 DEF ParenthesesCounted
  <2>7. /\ ouvertes' \in Nat
        /\ Suivant.ok =>
             /\ ouvertes' = Cardinality(WaitForClose(pile'))
             /\ ouvertes' = Cardinality(UpTo("(", ptr - 1)) - Cardinality(UpTo(")", ptr - 1))
    BY <2>1, <2>4, <2>5, <2>6
  <2> QED
    BY <1>0, <2>1, <2>7, CountedAfterRead
<1>6. CASE NoOperand
  BY <1>6 DEF NoOperand, Throw, ParenthesesCounted, Parsing
<1>7. CASE Close
  <2>1. CASE Is(")")
    <3>1. /\ pc \in Parsing /\ Read("T_U") /\ texte' = texte
          /\ pile # << >> /\ Last(pile).methode = "T_V" /\ pile' = Front(pile)
          /\ ouvertes' = IF Suivant.ok THEN ouvertes - 1 ELSE ouvertes
      BY <1>7, <2>1 DEF Close, Parsing
    <3>2. /\ Cardinality(WaitForClose(pile')) \in Nat
          /\ Cardinality(WaitForClose(pile)) = Cardinality(WaitForClose(pile')) + 1
      BY <1>0, <3>1, WaitingLeaves DEF TreeGrows
    <3>3. /\ Cardinality(UpTo("(", Before)) \in Nat /\ Cardinality(UpTo(")", Before)) \in Nat
          /\ Cardinality(UpTo("(", ptr - 1)) = Cardinality(UpTo("(", Before))
          /\ Cardinality(UpTo(")", ptr - 1)) = Cardinality(UpTo(")", Before)) + 1
      <4>1. ")" # "("
        OBVIOUS
      <4> QED
        BY <1>0, <2>1, <3>1, <4>1, PassSign
    <3>4. /\ ouvertes \in Nat /\ ouvertes = Cardinality(WaitForClose(pile))
          /\ ouvertes = Cardinality(UpTo("(", Before)) - Cardinality(UpTo(")", Before))
      BY <3>1 DEF ParenthesesCounted
    <3>5. /\ ouvertes' \in Nat
          /\ Suivant.ok =>
               /\ ouvertes' = Cardinality(WaitForClose(pile'))
               /\ ouvertes' = Cardinality(UpTo("(", ptr - 1)) - Cardinality(UpTo(")", ptr - 1))
      BY <3>1, <3>2, <3>3, <3>4
    <3> QED
      BY <1>0, <3>1, <3>5, CountedAfterRead
  <2>2. CASE ~Is(")")
    BY <1>7, <2>2 DEF Close, Throw, ParenthesesCounted, Parsing
  <2> QED
    BY <2>1, <2>2
<1>8. CASE AfterV
  <2>1. CASE Multiplicative
    <3>1. PICK c \in {"*", "/"} : Is(c)
      BY <2>1 DEF Multiplicative
    <3>2. /\ pc \in Parsing /\ Call("T_U") /\ Read("T_V") /\ UNCHANGED <<texte, ouvertes>>
      BY <1>8, <2>1 DEF AfterV, Parsing
    <3>3. c \in Operators \ {"(", ")"}
      BY <3>1 DEF Operators
    <3> QED
      BY <3>1, <3>2, <3>3, CountedAtCall
  <2>2. CASE ~Multiplicative
    <3>1. pc = "T_U" /\ pc' = "up_U" /\ UNCHANGED <<texte, ptr, courant, ouvertes, pile>>
      BY <1>8, <2>2 DEF AfterV
    <3> QED
      BY <3>1 DEF ParenthesesCounted, Parsing, UpTo, Before, WaitForClose
  <2> QED
    BY <2>1, <2>2
<1>9. CASE UReturns
  <2>1. CASE pile # << >> /\ Last(pile).methode = "T_U"
    <3>1. MakeNode /\ pc \in Parsing /\ UNCHANGED <<texte, ptr, courant, ouvertes, pc>>
      BY <1>9, <2>1 DEF UReturns, Parsing
    <3> QED
      BY <2>1, <3>1, CountedAtNode
  <2>2. CASE ~(pile # << >> /\ Last(pile).methode = "T_U")
    <3>1. pc = "up_U" /\ pc' = "T_EXP" /\ UNCHANGED <<texte, ptr, courant, ouvertes, pile>>
      BY <1>9, <2>2 DEF UReturns
    <3> QED
      BY <3>1 DEF ParenthesesCounted, Parsing, UpTo, Before, WaitForClose
  <2> QED
    BY <2>1, <2>2
<1>10. CASE AfterU
  <2>1. CASE Additive
    <3>1. PICK c \in {"+", "-"} : Is(c)
      BY <2>1 DEF Additive
    <3>2. /\ pc \in Parsing /\ Call("T_EXP") /\ Read("T_V") /\ UNCHANGED <<texte, ouvertes>>
      BY <1>10, <2>1 DEF AfterU, Parsing
    <3>3. c \in Operators \ {"(", ")"}
      BY <3>1 DEF Operators
    <3> QED
      BY <3>1, <3>2, <3>3, CountedAtCall
  <2>2. CASE ~Additive /\ Misplaced
    <3>1. Throw
      BY <1>10, <2>2 DEF AfterU
    <3> QED
      BY <3>1 DEF Throw, ParenthesesCounted, Parsing
  <2>3. CASE ~Additive /\ ~Misplaced
    <3>1. pc = "T_EXP" /\ pc' = "up_EXP" /\ UNCHANGED <<texte, ptr, courant, ouvertes, pile>>
      BY <1>10, <2>3 DEF AfterU
    <3> QED
      BY <3>1 DEF ParenthesesCounted, Parsing, UpTo, Before, WaitForClose
  <2> QED
    BY <2>1, <2>2, <2>3
<1>11. CASE ExpReturns
  <2>1. /\ MakeNode /\ pile # << >> /\ Last(pile).methode = "T_EXP" /\ pc \in Parsing
        /\ UNCHANGED <<texte, ptr, courant, ouvertes, pc>>
    BY <1>11 DEF ExpReturns, Parsing
  <2> QED
    BY <2>1, CountedAtNode
<1>12. CASE AnalSyntReturns
  BY <1>12 DEF AnalSyntReturns, ParenthesesCounted, Parsing
<1>13. CASE WriteResult
  BY <1>13 DEF WriteResult, ParenthesesCounted, Parsing
<1>14. CASE UNCHANGED vars
  BY <1>14 DEF vars, ParenthesesCounted, UpTo, Before, WaitForClose
<1> QED
  BY <1>1, <1>2, <1>3, <1>4, <1>5, <1>6, <1>7, <1>8, <1>9, <1>10, <1>11, <1>12, <1>13, <1>14
     DEF Next, T_V, T_U, T_EXP

-----------------------------------------------------------------------------
(* AnalLex writes the pieces of the text. *)

(* A sequence that agrees with the beginning of another.                   *)
LEMMA Agrees ==
  ASSUME NEW X, NEW s \in Seq(X), NEW N \in Nat, NEW f, f = [k \in 1 .. N |-> f[k]],
         Len(s) <= N, \A k \in 1 .. Len(s) : s[k] = f[k]
  PROVE  Len(f) = N /\ IsPrefix(s, f) /\ (Len(s) = N => s = f)
<1> DEFINE S == {f[k] : k \in 1 .. N}
<1>1. f \in Seq(S) /\ Len(f) = N
  <2>1. f \in [1 .. N -> S]
    OBVIOUS
  <2> HIDE DEF S
  <2> QED
    BY <2>1, IsASeq, LenProperties
<1>2. Len(s) \in Nat /\ s = [k \in 1 .. Len(s) |-> s[k]]
  BY LenProperties
<1>3. s \in Seq(S)
  <2>1. \A k \in 1 .. Len(s) : s[k] \in S
    BY <1>2
  <2>2. s \in [1 .. Len(s) -> S]
    BY <1>2, <2>1
  <2> HIDE DEF S
  <2> QED
    BY <1>2, <2>2, IsASeq
<1> HIDE DEF S
<1>4. SubSeq(s, 1, Len(s)) = SubSeq(f, 1, Len(s))
  <2>1. /\ SubSeq(s, 1, Len(s)) \in Seq(S) /\ Len(SubSeq(s, 1, Len(s))) = Len(s)
        /\ \A k \in 1 .. Len(s) : SubSeq(s, 1, Len(s))[k] = s[k]
    BY <1>2, <1>3
  <2>2. /\ SubSeq(f, 1, Len(s)) \in Seq(S) /\ Len(SubSeq(f, 1, Len(s))) = Len(s)
        /\ \A k \in 1 .. Len(s) : SubSeq(f, 1, Len(s))[k] = f[k]
    BY <1>1, <1>2
  <2> QED
    BY <2>1, <2>2, SeqEqual
<1>5. Len(s) = N => s = f
  BY <1>1, <1>3, SeqEqual
<1> QED
  BY <1>1, <1>4, <1>5 DEF IsPrefix

LEMMA PiecesInit == Init => PiecesRead
<1> SUFFICES ASSUME Init PROVE PiecesRead
  OBVIOUS
<1>1. ptr = 1 /\ etat = 0 /\ pc = "start" /\ toWrite = << >>
  BY DEF Init
<1>2. ~Continues(texte, 1) /\ Len(<< >>) = 0 /\ 1 - 1 = 0 /\ 1 .. 0 = {}
  BY DEF Continues
<1>3. PieceNumber(texte, 0) = 0
  BY PieceNumbers
<1> QED
  BY <1>1, <1>2, <1>3 DEF PiecesRead, TerminalsAreThePieces

(* The file when the analysis has ended: with an error, or at the end of   *)
(* the text.                                                               *)
LEMMA PiecesWritten ==
  ASSUME TerminalAtHand, TreeGrows, PiecesRead, main = "AnalLex", pc = "start"
  PROVE  /\ (\E i \in 1 .. Len(texte) : ~Sound(texte, i)) /\ ptr <= Len(texte)
              => /\ ~WellFormed(texte)
                 /\ Len(toWrite) < Len(Pieces(texte))
                 /\ IsPrefix(toWrite, Pieces(texte))
         /\ ptr = Len(texte) + 1 => WellFormed(texte) /\ toWrite = Pieces(texte)
<1>1. /\ texte \in Seq(STRING) /\ Len(texte) \in Nat /\ ptr \in 1 .. Len(texte) + 1
      /\ ptr - 1 \in Nat
  BY TextIsASequence DEF TerminalAtHand
<1>2. /\ ptr <= Len(texte) => ~Continues(texte, ptr)
      /\ \A i \in 1 .. ptr - 1 : Sound(texte, i)
      /\ Len(toWrite) = PieceNumber(texte, ptr - 1)
      /\ \A k \in 1 .. Len(toWrite) : toWrite[k] = Pieces(texte)[k]
  BY DEF PiecesRead
<1>3. PICK N \in Nat : N = PieceNumber(texte, Len(texte))
  BY <1>1, PieceNumbers
<1>4. Len(toWrite) \in Nat /\ Len(toWrite) <= N
  <2>1. ptr - 1 <= Len(texte)
    BY <1>1
  <2> QED
    BY <1>1, <1>2, <1>3, <2>1, PieceNumbers, PieceNumberGrows
<1>5. Pieces(texte) = [k \in 1 .. N |-> Pieces(texte)[k]]
  BY <1>3 DEF Pieces
<1>6. /\ Len(Pieces(texte)) = N /\ IsPrefix(toWrite, Pieces(texte))
      /\ Len(toWrite) = N => toWrite = Pieces(texte)
  <2>1. toWrite \in Seq(Seq(Characters) \ {<< >>})
    BY DEF TreeGrows
  <2> QED
    BY <1>2, <1>4, <1>5, <2>1, Agrees
<1>7. WellFormed(texte) <=> \A i \in 1 .. Len(texte) : Sound(texte, i)
  BY DEF WellFormed, Sound
<1>8. ASSUME ptr <= Len(texte) PROVE Len(toWrite) < N
  <2>1. ptr \in Nat /\ ptr > 0 /\ ~Continues(texte, ptr)
    BY <1>1, <1>2, <1>8
  <2>2. PieceNumber(texte, ptr) = PieceNumber(texte, ptr - 1) + 1
    BY <2>1, PieceNumbers
  <2>3. PieceNumber(texte, ptr) <= N
    BY <1>1, <1>3, <1>8, <2>1, PieceNumberGrows
  <2> QED
    BY <1>2, <1>4, <2>2, <2>3
<1>9. ASSUME ptr = Len(texte) + 1 PROVE WellFormed(texte) /\ Len(toWrite) = N
  <2>1. ptr - 1 = Len(texte)
    BY <1>1, <1>9
  <2> QED
    BY <1>2, <1>3, <1>7, <2>1
<1> QED
  BY <1>6, <1>7, <1>8, <1>9

LEMMA PiecesStep == TerminalAtHand /\ TreeGrows /\ PiecesRead /\ [Next]_vars => PiecesRead'
<1> SUFFICES ASSUME TerminalAtHand, TreeGrows, PiecesRead, [Next]_vars PROVE PiecesRead'
  OBVIOUS
<1> USE DEF lexer, parser, output
<1>1. main' = main /\ texte' = texte
  BY DEF Next, T_V, T_U, T_EXP, LexOne, LexEnd, AnalSynt, Leaf, Open, NoOperand, Close, AfterV,
         UReturns, AfterU, ExpReturns, AnalSyntReturns, WriteResult, vars
<1>2. CASE main # "AnalLex"
  BY <1>1, <1>2 DEF PiecesRead
<1>3. CASE main = "AnalLex" /\ LexOne
  <2>1. /\ pc = "start" /\ ptr <= Len(texte)
        /\ ptr' = Suivant.ptr
        /\ IF Suivant.ok
             THEN toWrite' = Append(toWrite, Suivant.terminal.chaine) /\ pc' = "start"
             ELSE pc' = "written" /\ toWrite' = toWrite
    BY <1>3 DEF LexOne, ResteTerminal
  <2>2. /\ texte \in Seq(STRING) /\ Len(texte) \in Nat /\ ptr \in 1 .. Len(texte) /\ ptr \in Nat
    BY <2>1, TextIsASequence DEF TerminalAtHand
  <2>3. /\ etat = 0 /\ ~Continues(texte, ptr)
        /\ \A i \in 1 .. ptr - 1 : Sound(texte, i)
        /\ Len(toWrite) = PieceNumber(texte, ptr - 1)
        /\ \A k \in 1 .. Len(toWrite) : toWrite[k] = Pieces(texte)[k]
    BY <1>3, <2>1 DEF PiecesRead
  <2>4. PICK r : r = Suivant
    OBVIOUS
  <2>5. Cuts(texte, ptr, r)
    BY <2>2, <2>3, <2>4, ProchainTerminalCuts DEF Suivant
  <2>6. CASE r.ok
    <3>1. /\ r.ptr - 1 \in ptr .. Len(texte)
          /\ r.terminal.chaine = SubSeq(texte, ptr, r.ptr - 1)
          /\ \A i \in ptr .. r.ptr - 1 : Sound(texte, i)
          /\ \A i \in ptr + 1 .. r.ptr - 1 : Continues(texte, i)
          /\ r.ptr <= Len(texte) => ~Continues(texte, r.ptr)
      BY <2>5, <2>6 DEF Cuts
    <3>2. r.ptr \in Nat
      <4>1. ptr' \in 1 .. Len(texte') + 1
        BY <1>3, LexOneReads DEF TerminalAtHand
      <4> QED
        BY <1>1, <2>1, <2>2, <2>4, <4>1
    <3>3. PICK b \in ptr .. Len(texte) : b = r.ptr - 1 /\ b + 1 = r.ptr
      BY <2>2, <3>1, <3>2
    <3>4. /\ PieceNumber(texte, b) = PieceNumber(texte, ptr - 1) + 1
          /\ Pieces(texte)[PieceNumber(texte, b)] = r.terminal.chaine
      BY <2>2, <2>3, <3>1, <3>3, PieceRead
    <3>5. PICK chaine \in Seq(Characters) \ {<< >>} : chaine = r.terminal.chaine
      <4>1. r.terminal.chaine \in Seq(STRING) \ {<< >>}
        BY <1>3, <2>4, <2>6, LexOneReads
      <4>2. STRING \subseteq Characters
        BY DEF Characters
      <4> QED
        BY <4>1, <4>2, SeqMonotonic
    <3>6. toWrite \in Seq(Seq(Characters) \ {<< >>}) /\ Len(toWrite) \in Nat
      BY LenProperties DEF TreeGrows
    <3>7. /\ Len(toWrite') = Len(toWrite) + 1
          /\ \A k \in 1 .. Len(toWrite) : toWrite'[k] = toWrite[k]
          /\ toWrite'[Len(toWrite) + 1] = chaine
      BY <2>1, <2>4, <2>6, <3>5, <3>6, AppendProperties
    <3>8. Len(toWrite') = PieceNumber(texte, b)
      BY <2>3, <3>4, <3>7
    <3>9. \A k \in 1 .. Len(toWrite') : toWrite'[k] = Pieces(texte)[k]
      <4>1. \A k \in 1 .. Len(toWrite') : k \in 1 .. Len(toWrite) \/ k = Len(toWrite')
        BY <3>6, <3>7
      <4> QED
        BY <2>3, <3>4, <3>5, <3>7, <3>8, <4>1
    <3>10. ptr' = r.ptr /\ ptr' - 1 = b /\ pc' = "start"
      BY <2>1, <2>4, <2>6, <3>3
    <3>11. \A i \in 1 .. b : Sound(texte, i)
      <4>1. \A i \in 1 .. b : i \in 1 .. ptr - 1 \/ i \in ptr .. b
        BY <2>2
      <4> QED
        BY <2>3, <3>1, <3>3, <4>1
    <3>12. ptr' <= Len(texte) => etat' = 0 /\ ~Continues(texte, ptr')
      <4>1. ptr' <= Len(texte) => etat' = 0
        BY <1>1, <1>3, <3>10, LexOneReads DEF TerminalAtHand
      <4> QED
        BY <3>1, <3>10, <4>1
    <3> QED
      BY <1>1, <3>8, <3>9, <3>10, <3>11, <3>12 DEF PiecesRead, TerminalsAreThePieces
  <2>7. CASE ~r.ok
    <3>1. \E i \in 1 .. Len(texte) : ~Sound(texte, i)
      <4>1. PICK i \in ptr .. Len(texte) : ~Sound(texte, i)
        BY <2>5, <2>7 DEF Cuts
      <4>2. i \in 1 .. Len(texte)
        BY <2>2
      <4> QED
        BY <4>1, <4>2
    <3>2. pc' = "written" /\ toWrite' = toWrite
      BY <2>1, <2>4, <2>7
    <3>3. TerminalsAreThePieces'
      BY <1>1, <1>3, <2>1, <3>1, <3>2, PiecesWritten DEF TerminalsAreThePieces
    <3> QED
      BY <3>2, <3>3 DEF PiecesRead
  <2> QED
    BY <2>6, <2>7
<1>4. CASE main = "AnalLex" /\ LexEnd
  <2>1. /\ pc = "start" /\ ~(ptr <= Len(texte)) /\ toWrite' = toWrite
        /\ pc' \in {"written", "exit"}
    BY <1>4 DEF LexEnd, ResteTerminal
  <2>2. ptr = Len(texte) + 1
    BY <2>1, TextIsASequence DEF TerminalAtHand
  <2>3. TerminalsAreThePieces'
    BY <1>1, <1>4, <2>1, <2>2, PiecesWritten DEF TerminalsAreThePieces
  <2> QED
    BY <2>1, <2>3 DEF PiecesRead
<1>5. CASE main = "AnalLex" /\ ~LexOne /\ ~LexEnd
  <2>1. pc \in {"start", "written", "exit"}
    BY <1>5 DEF PiecesRead
  <2>2. UNCHANGED vars
    <3>1. ~AnalSynt /\ ~WriteResult
      BY <1>5, <2>1 DEF AnalSynt, WriteResult
    <3>2. ~T_V /\ ~T_U /\ ~T_EXP /\ ~AnalSyntReturns
      BY <2>1 DEF T_V, T_U, T_EXP, Leaf, Open, NoOperand, Close, AfterV, UReturns, AfterU,
                  ExpReturns, AnalSyntReturns
    <3> QED
      BY <1>5, <3>1, <3>2 DEF Next
  <2> QED
    BY <2>2 DEF vars, PiecesRead, TerminalsAreThePieces
<1> QED
  BY <1>2, <1>3, <1>4, <1>5

-----------------------------------------------------------------------------
(* The theorems. *)

LEMMA Invariant == Spec => [](TerminalAtHand /\ TreeGrows /\ ParenthesesCounted /\ PiecesRead)
<1>1. Init => TerminalAtHand /\ TreeGrows /\ ParenthesesCounted /\ PiecesRead
  BY TerminalInit, TreeInit, CountedInit, PiecesInit
<1>2. TerminalAtHand /\ TreeGrows /\ ParenthesesCounted /\ PiecesRead /\ [Next]_vars
        => (TerminalAtHand /\ TreeGrows /\ ParenthesesCounted /\ PiecesRead)'
  BY TerminalStep, TreeStep, CountedStep, PiecesStep
<1> QED
  BY <1>1, <1>2, PTL DEF Spec

(* A node of the tree is made after its children, so that the tree has no  *)
(* cycle and LectAST() and EvalAST() end, and every call of T_U and T_EXP  *)
(* that waits for its second operand has a first one.                      *)
THEOREM TypeCorrect == Spec => []TypeOK
<1>1. TerminalAtHand /\ TreeGrows /\ ParenthesesCounted => TypeOK
  <2> SUFFICES ASSUME TerminalAtHand, TreeGrows, ParenthesesCounted PROVE TypeOK
    OBVIOUS
  <2>1. /\ Len(arbre) \in Nat /\ DOMAIN arbre = 1 .. Len(arbre)
        /\ Len(pile) \in Nat /\ DOMAIN pile = 1 .. Len(pile)
    BY LenProperties DEF TreeGrows, Tree, Calls
  <2>2. \A i \in DOMAIN arbre : arbre[i].gauche \in 0 .. i - 1 /\ arbre[i].droit \in 0 .. i - 1
    <3> SUFFICES ASSUME NEW i \in 1 .. Len(arbre)
                 PROVE  arbre[i].gauche \in 0 .. i - 1 /\ arbre[i].droit \in 0 .. i - 1
      BY <2>1
    <3>1. \/ arbre[i].gauche = 0 /\ arbre[i].droit = 0
          \/ arbre[i].gauche \in 1 .. i - 1 /\ arbre[i].droit \in 1 .. i - 1
      BY DEF TreeGrows, Tree
    <3> QED
      BY <2>1, <3>1
  <2>3. \A k \in DOMAIN pile : /\ pile[k].methode \in {"T_V", "T_U", "T_EXP"}
                               /\ pile[k].methode # "T_V" => pile[k].gauche \in DOMAIN arbre
    <3> SUFFICES ASSUME NEW k \in 1 .. Len(pile)
                 PROVE  /\ pile[k].methode \in {"T_V", "T_U", "T_EXP"}
                        /\ pile[k].methode # "T_V" => pile[k].gauche \in DOMAIN arbre
      BY <2>1
    <3>1. /\ pile[k] \in Appel
          /\ pile[k].gauche \in 0 .. Len(arbre)
          /\ pile[k].methode # "T_V" => pile[k].gauche # 0
      BY ElementOfSeq DEF TreeGrows, Calls
    <3> QED
      BY <2>1, <3>1 DEF Appel
  <2>4. courant.chaine \in Seq(STRING) /\ courant.type \in {"OPERATEUR", "CONSTANTE", "VARIABLE"}
    BY DEF TerminalAtHand, Terminal, Types
  <2>5. pc \in {"start", "T_V", "T_U", "T_EXP", "up_U", "up_EXP", "tree", "null", "written", "exit"}
    BY DEF TerminalAtHand, Parsing
  <2> QED
    BY <2>2, <2>3, <2>4, <2>5 DEF TypeOK, TerminalAtHand, TreeGrows, ParenthesesCounted
<1> QED
  BY <1>1, Invariant, PTL

(* Whatever text is read and however deep it nests, mParenthesesOuvertes   *)
(* is what the text before the terminal at hand says: a ")" is refused as  *)
(* one too many exactly when it is.                                        *)
THEOREM ParenthesesAreCounted == Spec => []OpenParentheses
<1>1. TerminalAtHand /\ ParenthesesCounted => OpenParentheses
  <2> SUFFICES ASSUME TerminalAtHand, ParenthesesCounted, pc \in Parsing
               PROVE  LET before == SubSeq(texte, 1, Before)
                          Count(c) == Cardinality({k \in DOMAIN before : before[k] = c})
                      IN ouvertes = Count("(") - Count(")")
    BY DEF OpenParentheses, Parsing, Before
  <2>1. texte \in Seq(STRING) /\ Len(texte) \in Nat
    BY TextIsASequence DEF TerminalAtHand
  <2>2. Before \in Nat /\ Before <= Len(texte)
    BY <2>1 DEF TerminalAtHand
  <2> DEFINE before == SubSeq(texte, 1, Before)
  <2>3. DOMAIN before = 1 .. Before /\ \A k \in 1 .. Before : before[k] = texte[k]
    <3>1. PICK m : m = Before
      OBVIOUS
    <3>2. m \in Nat /\ m <= Len(texte)
      BY <2>2, <3>1
    <3>3. /\ Len(SubSeq(texte, 1, m)) = m
          /\ SubSeq(texte, 1, m) \in Seq(STRING)
          /\ \A k \in 1 .. m : SubSeq(texte, 1, m)[k] = texte[k]
      BY <2>1, <3>2
    <3>4. DOMAIN SubSeq(texte, 1, m) = 1 .. m
      BY <3>3, LenProperties
    <3> QED
      BY <3>1, <3>3, <3>4
  <2>4. \A c : {k \in DOMAIN before : before[k] = c} = UpTo(c, Before)
    BY <2>3 DEF UpTo
  <2>5. ouvertes = Cardinality(UpTo("(", Before)) - Cardinality(UpTo(")", Before))
    BY DEF ParenthesesCounted
  <2> QED
    BY <2>4, <2>5
<1> QED
  BY <1>1, Invariant, PTL

(* The empty terminal that prochainTerminal returns at the end of a text,  *)
(* with a type that depends on the state it was left in, becomes neither a *)
(* leaf nor an operator of the tree nor a line of the file.                *)
THEOREM EndIsNeverATerminal == Spec => EndIsNoTerminal
<1> DEFINE Nonempty == /\ \A k \in DOMAIN toWrite : toWrite[k] # << >>
                       /\ \A i \in DOMAIN arbre : arbre[i].terminal.chaine # << >>
<1>1. TreeGrows => Nonempty
  <2> SUFFICES ASSUME TreeGrows PROVE Nonempty
    OBVIOUS
  <2>1. ASSUME NEW k \in DOMAIN toWrite PROVE toWrite[k] # << >>
    BY ElementOfSeq, LenProperties DEF TreeGrows
  <2>2. ASSUME NEW i \in DOMAIN arbre PROVE arbre[i].terminal.chaine # << >>
    BY LenProperties DEF TreeGrows, Tree
  <2> QED
    BY <2>1, <2>2
<1>2. Spec => []Nonempty
  BY <1>1, Invariant, PTL
<1>3. Nonempty' => [Len(toWrite') + Len(arbre') > Len(toWrite) + Len(arbre) =>
                      /\ \A k \in DOMAIN toWrite' : toWrite'[k] # << >>
                      /\ \A i \in DOMAIN arbre' : arbre'[i].terminal.chaine # << >>]_vars
  OBVIOUS
<1> HIDE DEF Nonempty
<1> QED
  BY <1>2, <1>3, PTL DEF EndIsNoTerminal

(* AnalLex writes exactly the pieces of every text that is made of         *)
(* constants, variables and operators, and of every other text a beginning *)
(* of its pieces; the two fields that prochainTerminal keeps between calls *)
(* never make it lose or repeat a character.                               *)
THEOREM AnalLexWritesThePieces == Spec => []TerminalsAreThePieces
<1>1. PiecesRead => TerminalsAreThePieces
  BY DEF PiecesRead, TerminalsAreThePieces
<1> QED
  BY <1>1, Invariant, PTL
=============================================================================
