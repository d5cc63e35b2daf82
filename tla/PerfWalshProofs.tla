--------------------------- MODULE PerfWalshProofs ---------------------------
(***************************************************************************)
(* Proofs about the programs of APP1.  First the generator, for words of   *)
(* every width and every multiplier that leaves the remainder 7 in the     *)
(* division by 8, as 16807 does: the seed 99 leaves 3; from then on the    *)
(* remainders alternate between 5 and 3, so that neither a fixed point nor *)
(* a number that the modulus 2^31 - 1 would change is ever reached.        *)
(* Then the tables: that the rows of the table of coefficients are filled  *)
(* in an order that leaves none out, and from it that no table is read     *)
(* before it is complete.                                                  *)
(***************************************************************************)
EXTENDS PerfWalshInvariants, TLAPS

Drawable(x) == x \in Int /\ x % 8 \in {3, 5}

(* The remainder of a sum with a multiple of 8.                            *)
LEMMA AddEights ==
  ASSUME NEW x \in Int, NEW i \in Int
  PROVE  (x + 8 * i) % 8 = x % 8
  OBVIOUS

(* What is known of the width: a half word is a multiple of 4.             *)
LEMMA WordByEight ==
  \E h \in Nat : h >= 16 /\ Word = 16 * h /\ Word \div 2 = 8 * h /\ Modulus = 8 * h - 1
<1>1. PICK a \in Nat : HalfWord = 4 * a /\ a >= 4
  <2>1. HalfWord = 4 * (HalfWord \div 4) /\ HalfWord \div 4 \in Nat /\ HalfWord \div 4 >= 4
    BY GenrandAssumption
  <2> QED
    BY <2>1
<1>2. a * a \in Nat /\ a * a >= 16
  BY <1>1
<1>3. HalfWord * HalfWord = 16 * (a * a)
  BY <1>1
<1>4. \A m \in Nat : (16 * m) \div 2 = 8 * m
  OBVIOUS
<1> QED
  BY <1>2, <1>3, <1>4 DEF Word, Modulus

(* Wrapping changes an integer by a multiple of the word.                  *)
LEMMA WrapKeepsRemainder ==
  ASSUME NEW v \in Int
  PROVE  /\ Wrap(v) \in Int
         /\ Wrap(v) % 8 = v % 8
         /\ -(Word \div 2) <= Wrap(v) /\ Wrap(v) < Word \div 2
<1>1. PICK h \in Nat : h >= 16 /\ Word = 16 * h /\ Word \div 2 = 8 * h
  BY WordByEight
<1> DEFINE q == (v + 8 * h) \div (16 * h)
           m == (v + 8 * h) % (16 * h)
<1>2. v + 8 * h \in Int /\ 16 * h \in Nat \ {0}
  BY <1>1
<1>3. \A i \in Int, j \in Nat \ {0} :
        /\ i \div j \in Int /\ i % j \in 0 .. j - 1
        /\ i = j * (i \div j) + (i % j)
  OBVIOUS
<1>4. /\ q \in Int /\ m \in 0 .. 16 * h - 1
      /\ v + 8 * h = (16 * h) * q + m
  BY <1>2, <1>3
<1>5. Wrap(v) = m - 8 * h
  BY <1>1 DEF Wrap
<1> HIDE DEF q, m
<1>6. h * q \in Int /\ (16 * h) * q = 16 * (h * q)
  BY <1>1, <1>4
<1>7. m - 8 * h = v + 8 * (-2 * (h * q))
  BY <1>1, <1>4, <1>6
<1>8. -2 * (h * q) \in Int
  BY <1>6
<1>9. Wrap(v) % 8 = v % 8
  <2>1. (v + 8 * (-2 * (h * q))) % 8 = v % 8
    BY <1>8, AddEights, Zenon
  <2> QED
    BY <1>5, <1>7, <2>1, Zenon
<1> QED
  BY <1>1, <1>4, <1>5, <1>9

(* The product of the multiplier with a number that can be drawn.          *)
LEMMA ProductRemainder ==
  ASSUME NEW x, Drawable(x)
  PROVE  /\ Multiplier * x \in Int
         /\ (Multiplier * x) % 8 = 8 - (x % 8)
<1>1. PICK a \in Int : Multiplier = 8 * a + 7
  <2>1. Multiplier = 8 * (Multiplier \div 8) + 7 /\ Multiplier \div 8 \in Int
    BY GenrandAssumption
  <2> QED
    BY <2>1
<1>2. PICK b \in Int : x = 8 * b + (x % 8)
  BY DEF Drawable
<1>3. CASE x % 8 = 3
  <2>1. Multiplier * x = 5 + 8 * (8 * (a * b) + 3 * a + 7 * b + 2)
    BY <1>1, <1>2, <1>3
  <2>2. a * b \in Int
    BY <1>1, <1>2
  <2>3. 8 * (a * b) + 3 * a + 7 * b + 2 \in Int
    BY <2>2, <1>1, <1>2
  <2> QED
    BY <2>1, <2>3, <1>3, AddEights
<1>4. CASE x % 8 = 5
  <2>1. Multiplier * x = 3 + 8 * (8 * (a * b) + 5 * a + 7 * b + 4)
    BY <1>1, <1>2, <1>4
  <2>2. a * b \in Int
    BY <1>1, <1>2
  <2>3. 8 * (a * b) + 5 * a + 7 * b + 4 \in Int
    BY <2>2, <1>1, <1>2
  <2> QED
    BY <2>1, <2>3, <1>4, AddEights
<1> QED
  BY <1>3, <1>4 DEF Drawable

(* genrand_v32 of a number that can be drawn is the wrapped product: the   *)
(* remainder by the modulus never changes it.  It can be drawn again, and  *)
(* it is another number.                                                   *)
LEMMA NextDraw ==
  ASSUME NEW x, Drawable(x)
  PROVE  /\ genrand_v32(x) = Wrap(Multiplier * x)
         /\ Drawable(genrand_v32(x))
         /\ genrand_v32(x) # x
<1> DEFINE ax == Wrap(Multiplier * x)
<1>1. ax \in Int /\ ax % 8 = 8 - (x % 8) /\ -(Word \div 2) <= ax /\ ax < Word \div 2
  BY ProductRemainder, WrapKeepsRemainder
<1>2. PICK h \in Nat : h >= 16 /\ Word \div 2 = 8 * h /\ Modulus = 8 * h - 1
  BY WordByEight
<1>3. genrand_v32(x) = IF ax >= 0 THEN ax % Modulus ELSE -((-ax) % Modulus)
  BY DEF genrand_v32
<1> HIDE DEF ax
<1>4. ax % 8 \in {3, 5} /\ ax % 8 # x % 8
  BY <1>1 DEF Drawable
<1>5. -Modulus < ax /\ ax < Modulus
  <2>1. ax # 8 * h - 1
    BY <1>2, <1>4
  <2>2. ax # -(8 * h) /\ ax # 1 - 8 * h
    BY <1>2, <1>4
  <2> QED
    BY <1>1, <1>2, <2>1, <2>2
<1>6. \A i, j \in Nat : i < j => i % j = i
  OBVIOUS
<1>7. genrand_v32(x) = ax
  <2>1. CASE ax >= 0
    BY <1>1, <1>2, <1>3, <1>5, <1>6, <2>1
  <2>2. CASE ax < 0
    <3>1. -ax \in Nat /\ Modulus \in Nat /\ -ax < Modulus
      BY <1>1, <1>2, <1>5, <2>2
    <3>2. (-ax) % Modulus = -ax
      BY <3>1, <1>6
    <3> QED
      BY <1>1, <1>3, <2>2, <3>2
  <2> QED
    BY <1>1, <2>1, <2>2
<1> QED
  BY <1>1, <1>4, <1>7 DEF ax, Drawable

(* What a step can do to the state of the generator.                       *)
LEMMA NextNumber == [Next]_vars => rv' \in {rv, genrand_v32(rv), Seed}
<1> SUFFICES ASSUME [Next]_vars PROVE rv' \in {rv, genrand_v32(rv), Seed}
  OBVIOUS
<1>4. genere_ran_D \/ genere_ran_double_D => rv' \in {rv, genrand_v32(rv)}
  BY DEF genere_ran_D, genere_ran_double_D, DrawnNumber, CountedNumber
<1>5. BeginRepetitions => rv' = Seed
  BY DEF BeginRepetitions
<1>6. Walsh_2D_base => rv' = rv
  BY DEF Walsh_2D_base, TableCorrige, TableHadamard, TableGray, NoTable, SumRow, WalshReturns,
         NextRow, TableComplete
<1>7. Scale \/ Convert \/ Cosines => rv' = rv
  BY DEF Scale, Convert, Cosines, CosineRow, CosineReturns
<1>8. Repeat \/ RepeatDCT \/ MeasureWalsh \/ MeasureDCT => rv' = rv
  BY DEF Repeat, RepeatDCT, MeasureWalsh, MeasureDCT, Again, Measure
<1>9. Mips => rv' = rv
  BY DEF Mips, Populate, MipsCoeff, MipsSum
<1>10. Arguments \/ Dimension \/ affiche_resultats => rv' = rv
  BY DEF Arguments, Dimension, affiche_resultats
<1>11. UNCHANGED vars => rv' = rv
  BY DEF vars
<1> QED
  BY <1>4, <1>5, <1>6, <1>7, <1>8, <1>9, <1>10, <1>11
     DEF Next, faire_un_test, faire_N_test, Transforms

(* The state of the generator can always be drawn.                         *)
LEMMA DrawableInvariant == Spec => []Drawable(rv)
<1>1. Init => Drawable(rv)
  BY DEF Init, Seed, Drawable
<1>2. Drawable(rv) /\ [Next]_vars => Drawable(rv)'
  BY NextNumber, NextDraw DEF Seed, Drawable
<1> QED
  BY <1>1, <1>2, PTL DEF Spec

(* The generator of genere_ran_D and genere_ran_double_D never stays at a  *)
(* number, wherever the four programs draw.                                *)
THEOREM GeneratorNeverStuck == Spec => []NeverStuck
<1>1. Drawable(rv) => NeverStuck
  BY NextDraw DEF NeverStuck
<1> QED
  BY <1>1, DrawableInvariant, PTL

(* It is always an int of the width that the programs store.               *)
InWord(x) == x \in -(Word \div 2) .. Word \div 2 - 1

LEMMA GeneratorInWord == Spec => []InWord(rv)
<1>1. PICK h \in Nat : h >= 16 /\ Word \div 2 = 8 * h
  BY WordByEight
<1>2. InWord(Seed)
  BY <1>1 DEF InWord, Seed
<1>3. ASSUME NEW x, Drawable(x) PROVE InWord(genrand_v32(x))
  <2>1. PICK v : v = Multiplier * x /\ v \in Int
    BY <1>3, ProductRemainder
  <2>2. genrand_v32(x) = Wrap(v)
    BY <1>3, <2>1, NextDraw
  <2> QED
    BY <1>1, <2>1, <2>2, WrapKeepsRemainder DEF InWord
<1>4. Init => InWord(rv)
  BY <1>2 DEF Init
<1>5. InWord(rv) /\ Drawable(rv) /\ [Next]_vars => InWord(rv)'
  BY <1>2, <1>3, NextNumber DEF InWord
<1> QED
  BY <1>4, <1>5, DrawableInvariant, PTL DEF Spec

-----------------------------------------------------------------------------
(* Sizes of tables. *)

(* The powers of 2 that a size or a number of elements can be.             *)
LEMMA PowersOfTwo ==
  /\ 2 ^ 0 = 1 /\ 2 ^ 1 = 2 /\ 2 ^ 2 = 4 /\ 2 ^ 3 = 8 /\ 2 ^ 4 = 16
  /\ 2 ^ 5 = 32 /\ 2 ^ 6 = 64 /\ 2 ^ 7 = 128 /\ 2 ^ 8 = 256 /\ 2 ^ 9 = 512
  /\ 2 ^ 10 = 1024 /\ 2 ^ 11 = 2048 /\ 2 ^ 12 = 4096 /\ 2 ^ 13 = 8192
  /\ 2 ^ 14 = 16384 /\ 2 ^ 15 = 32768
  OBVIOUS

LEMMA PowerAbove ==
  ASSUME NEW s \in 1 .. 15
  PROVE  2 ^ s \in Nat \ {0} /\ (2 ^ s * 2 ^ s <= dim_max_2D => s \in 1 .. 6 /\ 2 ^ s <= 64)
<1>1. CASE s \in 1 .. 6
  <2>1. s = 1 \/ s = 2 \/ s = 3 \/ s = 4 \/ s = 5 \/ s = 6
    BY <1>1
  <2>2. CASE s = 1
    BY <2>2, PowersOfTwo
  <2>3. CASE s = 2
    BY <2>3, PowersOfTwo
  <2>4. CASE s = 3
    BY <2>4, PowersOfTwo
  <2>5. CASE s = 4
    BY <2>5, PowersOfTwo
  <2>6. CASE s = 5
    BY <2>6, PowersOfTwo
  <2>7. CASE s = 6
    BY <2>7, PowersOfTwo
  <2> QED
    BY <1>1, <2>1, <2>2, <2>3, <2>4, <2>5, <2>6, <2>7
<1>2. CASE s \in 7 .. 15
  <2>1. s = 7 \/ s = 8 \/ s = 9 \/ s = 10 \/ s = 11 \/ s = 12 \/ s = 13 \/ s = 14 \/ s = 15
    BY <1>2
  <2>11. \A m \in Nat : m >= 128 => m # 0 /\ ~(m * m <= 4096)
    OBVIOUS
  <2> SUFFICES 2 ^ s \in Nat /\ 2 ^ s >= 128
    BY <2>11 DEF dim_max_2D
  <2>2. CASE s = 7
    BY <2>2, PowersOfTwo
  <2>3. CASE s = 8
    BY <2>3, PowersOfTwo
  <2>4. CASE s = 9
    BY <2>4, PowersOfTwo
  <2>5. CASE s = 10
    BY <2>5, PowersOfTwo
  <2>6. CASE s = 11
    BY <2>6, PowersOfTwo
  <2>7. CASE s = 12
    BY <2>7, PowersOfTwo
  <2>8. CASE s = 13
    BY <2>8, PowersOfTwo
  <2>9. CASE s = 14
    BY <2>9, PowersOfTwo
  <2>10. CASE s = 15
    BY <2>10, PowersOfTwo
  <2> QED
    BY <2>1, <2>2, <2>3, <2>4, <2>5, <2>6, <2>7, <2>8, <2>9, <2>10
<1> QED
  BY <1>1, <1>2

-----------------------------------------------------------------------------
(* Bits. *)

(* A number below 128 is the sum of its bits.                              *)
LEMMA BitsOf ==
  ASSUME NEW x \in 0 .. 127
  PROVE  /\ Bit(x, 0) = x % 2 /\ Bit(x, 1) = (x \div 2) % 2 /\ Bit(x, 2) = (x \div 4) % 2
         /\ Bit(x, 3) = (x \div 8) % 2 /\ Bit(x, 4) = (x \div 16) % 2
         /\ Bit(x, 5) = (x \div 32) % 2 /\ Bit(x, 6) = (x \div 64) % 2 /\ Bit(x, 7) = 0
         /\ \A i \in 0 .. 7 : Bit(x, i) \in {0, 1}
         /\ x = Bit(x, 0) + 2 * Bit(x, 1) + 4 * Bit(x, 2) + 8 * Bit(x, 3)
                  + 16 * Bit(x, 4) + 32 * Bit(x, 5) + 64 * Bit(x, 6)
<1>1. Bit(x, 0) = x % 2
  BY PowersOfTwo DEF Bit
<1>2. Bit(x, 1) = (x \div 2) % 2
  BY PowersOfTwo DEF Bit
<1>3. Bit(x, 2) = (x \div 4) % 2
  BY PowersOfTwo DEF Bit
<1>4. Bit(x, 3) = (x \div 8) % 2
  BY PowersOfTwo DEF Bit
<1>5. Bit(x, 4) = (x \div 16) % 2
  BY PowersOfTwo DEF Bit
<1>6. Bit(x, 5) = (x \div 32) % 2
  BY PowersOfTwo DEF Bit
<1>7. Bit(x, 6) = (x \div 64) % 2
  BY PowersOfTwo DEF Bit
<1>8. Bit(x, 7) = 0
  BY PowersOfTwo DEF Bit
<1>9. x = (x % 2) + 2 * ((x \div 2) % 2) + 4 * ((x \div 4) % 2) + 8 * ((x \div 8) % 2)
            + 16 * ((x \div 16) % 2) + 32 * ((x \div 32) % 2) + 64 * ((x \div 64) % 2)
  OBVIOUS
<1>10. \A i \in 0 .. 7 : i = 0 \/ i = 1 \/ i = 2 \/ i = 3 \/ i = 4 \/ i = 5 \/ i = 6 \/ i = 7
  OBVIOUS
<1>11. \A y \in Nat : y % 2 \in {0, 1}
  OBVIOUS
<1>12. \A m \in Nat \ {0} : x \div m \in Nat
  OBVIOUS
<1>13. \A i \in 0 .. 7 : Bit(x, i) \in {0, 1}
  BY <1>1, <1>2, <1>3, <1>4, <1>5, <1>6, <1>7, <1>8, <1>10, <1>11, <1>12
<1> QED
  BY <1>1, <1>2, <1>3, <1>4, <1>5, <1>6, <1>7, <1>8, <1>9, <1>13

(* What the bits from r on say of the size of a number.                    *)
LEMMA HighBits ==
  ASSUME NEW x \in 0 .. 127, NEW s \in 1 .. 7
  PROVE  x \in 0 .. 2 ^ s - 1 <=> \A i \in s .. 6 : Bit(x, i) = 0
<1> DEFINE b(i) == Bit(x, i)
<1>1. /\ \A i \in 0 .. 7 : b(i) \in {0, 1}
      /\ x = b(0) + 2 * b(1) + 4 * b(2) + 8 * b(3) + 16 * b(4) + 32 * b(5) + 64 * b(6)
  BY BitsOf
<1>2. /\ b(0) \in {0, 1} /\ b(1) \in {0, 1} /\ b(2) \in {0, 1} /\ b(3) \in {0, 1}
      /\ b(4) \in {0, 1} /\ b(5) \in {0, 1} /\ b(6) \in {0, 1}
  BY <1>1
<1> HIDE DEF b
<1> DEFINE Low == x \in 0 .. 2 ^ s - 1 <=> \A i \in s .. 6 : b(i) = 0
<1>3. Low
  <2>1. s = 1 \/ s = 2 \/ s = 3 \/ s = 4 \/ s = 5 \/ s = 6 \/ s = 7
    OBVIOUS
  <2>2. ASSUME s = 1 PROVE Low
    <3>1. (\A i \in 1 .. 6 : b(i) = 0)
            <=> b(1) = 0 /\ b(2) = 0 /\ b(3) = 0 /\ b(4) = 0 /\ b(5) = 0 /\ b(6) = 0
      OBVIOUS
    <3> QED
      BY <1>1, <1>2, <2>2, <3>1, PowersOfTwo
  <2>3. ASSUME s = 2 PROVE Low
    <3>1. (\A i \in 2 .. 6 : b(i) = 0)
            <=> b(2) = 0 /\ b(3) = 0 /\ b(4) = 0 /\ b(5) = 0 /\ b(6) = 0
      OBVIOUS
    <3> QED
      BY <1>1, <1>2, <2>3, <3>1, PowersOfTwo
  <2>4. ASSUME s = 3 PROVE Low
    <3>1. (\A i \in 3 .. 6 : b(i) = 0) <=> b(3) = 0 /\ b(4) = 0 /\ b(5) = 0 /\ b(6) = 0
      OBVIOUS
    <3> QED
      BY <1>1, <1>2, <2>4, <3>1, PowersOfTwo
  <2>5. ASSUME s = 4 PROVE Low
    <3>1. (\A i \in 4 .. 6 : b(i) = 0) <=> b(4) = 0 /\ b(5) = 0 /\ b(6) = 0
      OBVIOUS
    <3> QED
      BY <1>1, <1>2, <2>5, <3>1, PowersOfTwo
  <2>6. ASSUME s = 5 PROVE Low
    <3>1. (\A i \in 5 .. 6 : b(i) = 0) <=> b(5) = 0 /\ b(6) = 0
      OBVIOUS
    <3> QED
      BY <1>1, <1>2, <2>6, <3>1, PowersOfTwo
  <2>7. ASSUME s = 6 PROVE Low
    <3>1. (\A i \in 6 .. 6 : b(i) = 0) <=> b(6) = 0
      OBVIOUS
    <3> QED
      BY <1>1, <1>2, <2>7, <3>1, PowersOfTwo
  <2>8. ASSUME s = 7 PROVE Low
    <3>1. \A i \in 7 .. 6 : FALSE
      OBVIOUS
    <3> QED
      BY <1>1, <1>2, <2>8, <3>1, PowersOfTwo
  <2> QED
    BY <2>1, <2>2, <2>3, <2>4, <2>5, <2>6, <2>7, <2>8
<1> QED
  BY <1>3 DEF b

LEMMA SameBits ==
  ASSUME NEW x \in 0 .. 127, NEW y \in 0 .. 127, \A i \in 0 .. 6 : Bit(x, i) = Bit(y, i)
  PROVE  x = y
<1>1. /\ Bit(x, 0) = Bit(y, 0) /\ Bit(x, 1) = Bit(y, 1) /\ Bit(x, 2) = Bit(y, 2)
      /\ Bit(x, 3) = Bit(y, 3) /\ Bit(x, 4) = Bit(y, 4) /\ Bit(x, 5) = Bit(y, 5)
      /\ Bit(x, 6) = Bit(y, 6)
  OBVIOUS
<1>2. /\ x = Bit(x, 0) + 2 * Bit(x, 1) + 4 * Bit(x, 2) + 8 * Bit(x, 3)
                + 16 * Bit(x, 4) + 32 * Bit(x, 5) + 64 * Bit(x, 6)
      /\ y = Bit(y, 0) + 2 * Bit(y, 1) + 4 * Bit(y, 2) + 8 * Bit(y, 3)
                + 16 * Bit(y, 4) + 32 * Bit(y, 5) + 64 * Bit(y, 6)
  BY BitsOf
<1> QED
  BY <1>1, <1>2, Zenon

(* There is a number with any bits.                                        *)
LEMMA SomeNumber ==
  ASSUME NEW b, \A i \in 0 .. 6 : b[i] \in {0, 1}
  PROVE  \E x \in 0 .. 127 : \A i \in 0 .. 6 : Bit(x, i) = b[i]
<1>1. PICK b0 \in {0, 1}, b1 \in {0, 1}, b2 \in {0, 1}, b3 \in {0, 1}, b4 \in {0, 1},
           b5 \in {0, 1}, b6 \in {0, 1} :
        /\ b0 = b[0] /\ b1 = b[1] /\ b2 = b[2] /\ b3 = b[3]
        /\ b4 = b[4] /\ b5 = b[5] /\ b6 = b[6]
  OBVIOUS
<1> DEFINE x == b0 + 2 * b1 + 4 * b2 + 8 * b3 + 16 * b4 + 32 * b5 + 64 * b6
<1>3. /\ x \in 0 .. 127
      /\ x % 2 = b0 /\ (x \div 2) % 2 = b1 /\ (x \div 4) % 2 = b2 /\ (x \div 8) % 2 = b3
      /\ (x \div 16) % 2 = b4 /\ (x \div 32) % 2 = b5 /\ (x \div 64) % 2 = b6
  OBVIOUS
<1> HIDE DEF x
<1>4. /\ Bit(x, 0) = b[0] /\ Bit(x, 1) = b[1] /\ Bit(x, 2) = b[2] /\ Bit(x, 3) = b[3]
      /\ Bit(x, 4) = b[4] /\ Bit(x, 5) = b[5] /\ Bit(x, 6) = b[6]
  BY <1>1, <1>3, BitsOf
<1>5. \A i \in 0 .. 6 : i = 0 \/ i = 1 \/ i = 2 \/ i = 3 \/ i = 4 \/ i = 5 \/ i = 6
  OBVIOUS
<1>6. \A i \in 0 .. 6 : Bit(x, i) = b[i]
  BY <1>4, <1>5
<1>7. x \in 0 .. 127
  BY <1>3
<1> QED
  BY <1>6, <1>7, Zenon

(* FromBits puts the bits at their places.                                 *)
AreBits(b, s) == \A i \in 0 .. s - 1 : b[i] \in {0, 1}

LEMMA FromBitsIs ==
  ASSUME NEW s \in 1 .. 7, NEW b, AreBits(b, s)
  PROVE  /\ FromBits(b, s) \in 0 .. 2 ^ s - 1 /\ FromBits(b, s) \in 0 .. 127
         /\ \A i \in 0 .. s - 1 : Bit(FromBits(b, s), i) = b[i]
         /\ \A i \in s .. 6 : Bit(FromBits(b, s), i) = 0
<1> DEFINE c == [i \in 0 .. 6 |-> IF i < s THEN b[i] ELSE 0]
<1>1. \A i \in 0 .. 6 : /\ c[i] = IF i < s THEN b[i] ELSE 0
                        /\ i < s => i \in 0 .. s - 1
  OBVIOUS
<1>2. \A i \in 0 .. 6 : c[i] \in {0, 1}
  BY <1>1 DEF AreBits
<1> HIDE DEF c
<1>3. PICK x \in 0 .. 127 : \A i \in 0 .. 6 : Bit(x, i) = c[i]
  BY <1>2, SomeNumber
<1>4. \A i \in s .. 6 : i \in 0 .. 6 /\ ~(i < s)
  OBVIOUS
<1>5. \A i \in 0 .. s - 1 : i \in 0 .. 6 /\ i < s
  OBVIOUS
<1>6. x \in 0 .. 2 ^ s - 1
  <2>1. \A i \in s .. 6 : Bit(x, i) = 0
    BY <1>1, <1>3, <1>4
  <2> QED
    BY <2>1, HighBits
<1>7. \A i \in 0 .. s - 1 : Bit(x, i) = b[i]
  BY <1>1, <1>3, <1>5
<1>8. /\ FromBits(b, s) \in 0 .. 2 ^ s - 1
      /\ \A i \in 0 .. s - 1 : Bit(FromBits(b, s), i) = b[i]
  BY <1>6, <1>7, Zenon DEF FromBits
<1>9. FromBits(b, s) \in 0 .. 127
  <2>1. 2 ^ s \in Nat /\ 2 ^ s <= 128
    <3>1. s = 1 \/ s = 2 \/ s = 3 \/ s = 4 \/ s = 5 \/ s = 6 \/ s = 7
      OBVIOUS
    <3>2. CASE s = 1
      BY <3>2, PowersOfTwo
    <3>3. CASE s = 2
      BY <3>3, PowersOfTwo
    <3>4. CASE s = 3
      BY <3>4, PowersOfTwo
    <3>5. CASE s = 4
      BY <3>5, PowersOfTwo
    <3>6. CASE s = 5
      BY <3>6, PowersOfTwo
    <3>7. CASE s = 6
      BY <3>7, PowersOfTwo
    <3>8. CASE s = 7
      BY <3>8, PowersOfTwo
    <3> QED
      BY <3>1, <3>2, <3>3, <3>4, <3>5, <3>6, <3>7, <3>8
  <2> QED
    BY <1>8, <2>1
<1> QED
  BY <1>8, <1>9, HighBits

(* Flip puts the bits in the opposite order.                               *)
LEMMA FlipBits ==
  ASSUME NEW s \in 1 .. 6, NEW x \in 0 .. 127
  PROVE  /\ Flip(x, s) \in 0 .. 2 ^ s - 1 /\ Flip(x, s) \in 0 .. 127
         /\ \A i \in 0 .. s - 1 : Bit(Flip(x, s), i) = Bit(x, s - 1 - i)
         /\ \A i \in s .. 6 : Bit(Flip(x, s), i) = 0
<1> DEFINE b == [i \in 0 .. s - 1 |-> Bit(x, s - 1 - i)]
<1>1. \A i \in 0 .. s - 1 : b[i] = Bit(x, s - 1 - i) /\ s - 1 - i \in 0 .. 7
  OBVIOUS
<1>2. AreBits(b, s)
  BY <1>1, BitsOf DEF AreBits
<1>3. Flip(x, s) = FromBits(b, s)
  BY Zenon DEF Flip
<1> HIDE DEF b
<1>4. s \in 1 .. 7
  OBVIOUS
<1>5. FromBits(b, s) \in 0 .. 2 ^ s - 1 /\ FromBits(b, s) \in 0 .. 127
  BY <1>2, <1>4, FromBitsIs
<1>6. \A i \in 0 .. s - 1 : Bit(FromBits(b, s), i) = b[i]
  BY <1>2, <1>4, FromBitsIs
<1>7. \A i \in s .. 6 : Bit(FromBits(b, s), i) = 0
  BY <1>2, <1>4, FromBitsIs
<1> QED
  BY <1>1, <1>3, <1>5, <1>6, <1>7, Zenon

(* The bits of the number that GrayToBinary puts together.                 *)
LEMMA GrayBits ==
  ASSUME NEW g \in 0 .. 127
  PROVE  /\ GrayToBinary(g) \in 0 .. 127
         /\ Bit(GrayToBinary(g), 6) = Bit(g, 6)
         /\ \A i \in 0 .. 5 : Bit(GrayToBinary(g), i) = (Bit(g, i) + Bit(GrayToBinary(g), i + 1)) % 2
<1> DEFINE Turn(f) == [i \in 0 .. 6 |-> IF i = 6 THEN Bit(g, 6) ELSE (Bit(g, i) + f[i + 1]) % 2]
<1>1. \E f : f = Turn(f)
  <2> DEFINE b5 == (Bit(g, 5) + Bit(g, 6)) % 2
             b4 == (Bit(g, 4) + b5) % 2
             b3 == (Bit(g, 3) + b4) % 2
             b2 == (Bit(g, 2) + b3) % 2
             b1 == (Bit(g, 1) + b2) % 2
             b0 == (Bit(g, 0) + b1) % 2
             f == [i \in 0 .. 6 |-> IF i = 6 THEN Bit(g, 6) ELSE IF i = 5 THEN b5 ELSE IF i = 4 THEN b4
                     ELSE IF i = 3 THEN b3 ELSE IF i = 2 THEN b2 ELSE IF i = 1 THEN b1 ELSE b0]
  <2>1. /\ f[6] = Bit(g, 6) /\ f[5] = b5 /\ f[4] = b4 /\ f[3] = b3 /\ f[2] = b2 /\ f[1] = b1
        /\ f[0] = b0
    OBVIOUS
  <2>2. /\ b5 = (Bit(g, 5) + Bit(g, 6)) % 2 /\ b4 = (Bit(g, 4) + b5) % 2 /\ b3 = (Bit(g, 3) + b4) % 2
        /\ b2 = (Bit(g, 2) + b3) % 2 /\ b1 = (Bit(g, 1) + b2) % 2 /\ b0 = (Bit(g, 0) + b1) % 2
    OBVIOUS
  <2>3. f = [i \in 0 .. 6 |-> f[i]]
    OBVIOUS
  <2> HIDE DEF f, b0, b1, b2, b3, b4, b5
  <2>4. /\ f[5] = (Bit(g, 5) + f[6]) % 2 /\ f[4] = (Bit(g, 4) + f[5]) % 2
        /\ f[3] = (Bit(g, 3) + f[4]) % 2 /\ f[2] = (Bit(g, 2) + f[3]) % 2
        /\ f[1] = (Bit(g, 1) + f[2]) % 2 /\ f[0] = (Bit(g, 0) + f[1]) % 2
    BY <2>1, <2>2
  <2>5. \A i \in 0 .. 6 : i = 0 \/ i = 1 \/ i = 2 \/ i = 3 \/ i = 4 \/ i = 5 \/ i = 6
    OBVIOUS
  <2>6. \A i \in 0 .. 6 : f[i] = IF i = 6 THEN Bit(g, 6) ELSE (Bit(g, i) + f[i + 1]) % 2
    <3> TAKE i \in 0 .. 6
    <3>1. CASE i = 6
      BY <2>1, <3>1
    <3>2. CASE i = 5
      <4>1. i + 1 = 6 /\ i # 6
        BY <3>2
      <4> QED
        BY <2>4, <3>2, <4>1
    <3>3. CASE i = 4
      <4>1. i + 1 = 5 /\ i # 6
        BY <3>3
      <4> QED
        BY <2>4, <3>3, <4>1
    <3>4. CASE i = 3
      <4>1. i + 1 = 4 /\ i # 6
        BY <3>4
      <4> QED
        BY <2>4, <3>4, <4>1
    <3>5. CASE i = 2
      <4>1. i + 1 = 3 /\ i # 6
        BY <3>5
      <4> QED
        BY <2>4, <3>5, <4>1
    <3>6. CASE i = 1
      <4>1. i + 1 = 2 /\ i # 6
        BY <3>6
      <4> QED
        BY <2>4, <3>6, <4>1
    <3>7. CASE i = 0
      <4>1. i + 1 = 1 /\ i # 6
        BY <3>7
      <4> QED
        BY <2>4, <3>7, <4>1
    <3> QED
      BY <2>5, <3>1, <3>2, <3>3, <3>4, <3>5, <3>6, <3>7
  <2>7. [i \in 0 .. 6 |-> f[i]] = Turn(f)
    BY <2>6, Zenon
  <2>8. f = Turn(f)
    BY <2>3, <2>7, Zenon
  <2> QED
    BY <2>8, Zenon
<1> DEFINE result == CHOOSE f : f = Turn(f)
<1>2. result = Turn(result) /\ GrayToBinary(g) = FromBits(result, 7)
  <2>1. result = Turn(result)
    BY <1>1, Zenon
  <2> QED
    BY <2>1, Zenon DEF GrayToBinary
<1> HIDE DEF result
<1>3. /\ result[6] = Bit(g, 6)
      /\ \A i \in 0 .. 5 : result[i] = (Bit(g, i) + result[i + 1]) % 2
  BY <1>2
<1> HIDE DEF Turn
<1>4. \A i \in 0 .. 7 : Bit(g, i) \in {0, 1}
  BY BitsOf
<1>5. \A y, z \in {0, 1} : (y + z) % 2 \in {0, 1}
  OBVIOUS
<1>6. /\ result[6] \in {0, 1} /\ result[5] \in {0, 1} /\ result[4] \in {0, 1} /\ result[3] \in {0, 1}
      /\ result[2] \in {0, 1} /\ result[1] \in {0, 1} /\ result[0] \in {0, 1}
  <2>6. result[6] \in {0, 1}
    BY <1>3, <1>4
  <2>5. result[5] \in {0, 1}
    BY <1>3, <1>4, <1>5, <2>6
  <2>4. result[4] \in {0, 1}
    BY <1>3, <1>4, <1>5, <2>5
  <2>3. result[3] \in {0, 1}
    BY <1>3, <1>4, <1>5, <2>4
  <2>2. result[2] \in {0, 1}
    BY <1>3, <1>4, <1>5, <2>3
  <2>1. result[1] \in {0, 1}
    BY <1>3, <1>4, <1>5, <2>2
  <2>0. result[0] \in {0, 1}
    BY <1>3, <1>4, <1>5, <2>1
  <2> QED
    BY <2>0, <2>1, <2>2, <2>3, <2>4, <2>5, <2>6
<1>7. \A i \in 0 .. 7 - 1 : result[i] \in {0, 1}
  <2>1. \A i \in 0 .. 7 - 1 : i = 0 \/ i = 1 \/ i = 2 \/ i = 3 \/ i = 4 \/ i = 5 \/ i = 6
    OBVIOUS
  <2> QED
    BY <1>6, <2>1
<1>8. /\ FromBits(result, 7) \in 0 .. 127
      /\ \A i \in 0 .. 7 - 1 : Bit(FromBits(result, 7), i) = result[i]
  <2>1. 7 \in 1 .. 7
    OBVIOUS
  <2> QED
    BY <1>7, <2>1, FromBitsIs DEF AreBits
<1>9. \A i \in 0 .. 5 : i \in 0 .. 7 - 1 /\ i + 1 \in 0 .. 7 - 1
  OBVIOUS
<1> QED
  BY <1>2, <1>3, <1>8, <1>9

(* Downwards from the highest bit.                                         *)
LEMMA HighestFirst ==
  ASSUME NEW T, 6 \in T, \A i \in 0 .. 5 : i + 1 \in T => i \in T
  PROVE  \A i \in 0 .. 6 : i \in T
<1>1. 5 \in T
  OBVIOUS
<1>2. 4 \in T
  BY <1>1
<1>3. 3 \in T
  BY <1>2
<1>4. 2 \in T
  BY <1>3
<1>5. 1 \in T
  BY <1>4
<1>6. 0 \in T
  BY <1>5
<1>7. \A i \in 0 .. 6 : i = 0 \/ i = 1 \/ i = 2 \/ i = 3 \/ i = 4 \/ i = 5 \/ i = 6
  OBVIOUS
<1> QED
  BY <1>1, <1>2, <1>3, <1>4, <1>5, <1>6, <1>7

(* A row stays in the table, whatever the order of the rows.               *)
LEMMA RowInTable ==
  ASSUME NEW s \in 1 .. 6, NEW x \in 0 .. 127
  PROVE  reverse_gray_to_binary(x, s) \in 0 .. 2 ^ s - 1
<1> DEFINE g == Flip(x, s)
           y == GrayToBinary(g)
           T == {i \in 0 .. 6 : i >= s => Bit(y, i) = 0}
<1>1. g \in 0 .. 127 /\ \A i \in s .. 6 : Bit(g, i) = 0
  BY FlipBits
<1>2. reverse_gray_to_binary(x, s) = y
  BY DEF reverse_gray_to_binary
<1> HIDE DEF g
<1>3. /\ y \in 0 .. 127 /\ Bit(y, 6) = Bit(g, 6)
      /\ \A i \in 0 .. 5 : Bit(y, i) = (Bit(g, i) + Bit(y, i + 1)) % 2
  BY <1>1, GrayBits
<1> HIDE DEF y
<1>4. 6 \in T
  <2>1. 6 \in s .. 6
    OBVIOUS
  <2> QED
    BY <1>1, <1>3, <2>1
<1>5. ASSUME NEW i \in 0 .. 5, i + 1 \in T PROVE i \in T
  <2>1. i >= s => Bit(y, i + 1) = 0 /\ i \in s .. 6
    BY <1>5
  <2>2. (0 + 0) % 2 = 0
    OBVIOUS
  <2>3. i >= s => Bit(y, i) = 0
    BY <1>1, <1>3, <2>1, <2>2
  <2> QED
    BY <2>3
<1> HIDE DEF T
<1>6. \A i \in 0 .. 6 : i \in T
  BY <1>4, <1>5, HighestFirst
<1>7. \A i \in s .. 6 : Bit(y, i) = 0
  BY <1>6 DEF T
<1>8. s \in 1 .. 7
  OBVIOUS
<1> QED
  BY <1>2, <1>3, <1>7, <1>8, HighBits

(* The order of the rows in const_perfWalshDCT_Corrige_2 undoes the one in *)
(* const_perfWalshDCT_Corrige, so it is a permutation.                     *)
LEMMA RowsPermuted ==
  ASSUME NEW s \in 1 .. 6, NEW x \in 0 .. 127, x \in 0 .. 2 ^ s - 1
  PROVE  /\ binary_to_gray_reverse(x, s) \in 0 .. 2 ^ s - 1
         /\ reverse_gray_to_binary(binary_to_gray_reverse(x, s), s) = x
<1> DEFINE c == [i \in 0 .. s - 1 |-> (Bit(x, i) + Bit(x, i + 1)) % 2]
           g == FromBits(c, s)
           z == Flip(g, s)
           f == Flip(z, s)
           y == GrayToBinary(f)
           T == {i \in 0 .. 6 : Bit(y, i) = Bit(x, i)}
<1>1. binary_to_gray_reverse(x, s) = z /\ reverse_gray_to_binary(z, s) = y
  BY DEF binary_to_gray_reverse, reverse_gray_to_binary
<1>2. \A i \in 0 .. 7 : Bit(x, i) \in {0, 1}
  BY BitsOf
<1>3. \A a, b \in {0, 1} : (a + b) % 2 \in {0, 1} /\ (((a + b) % 2) + b) % 2 = a
  OBVIOUS
<1>4. \A i \in 0 .. s - 1 : c[i] = (Bit(x, i) + Bit(x, i + 1)) % 2
  OBVIOUS
<1>5. \A i \in 0 .. s - 1 : i \in 0 .. 7 /\ i + 1 \in 0 .. 7 /\ s - 1 - i \in 0 .. s - 1
                             /\ s - 1 - (s - 1 - i) = i
  OBVIOUS
<1>7. s \in 1 .. 7
  OBVIOUS
<1>6. \A i \in s .. 6 : Bit(x, i) = 0
  BY <1>7, HighBits
<1> HIDE DEF c
<1>8. AreBits(c, s)
  BY <1>2, <1>3, <1>4, <1>5 DEF AreBits
<1>9. /\ g \in 0 .. 127
      /\ \A i \in 0 .. s - 1 : Bit(g, i) = c[i]
  BY <1>7, <1>8, FromBitsIs
<1> HIDE DEF g
<1>10. /\ z \in 0 .. 2 ^ s - 1 /\ z \in 0 .. 127
       /\ \A i \in 0 .. s - 1 : Bit(z, i) = Bit(g, s - 1 - i)
  BY <1>9, FlipBits
<1> HIDE DEF z
<1>11. /\ f \in 0 .. 127
       /\ \A i \in 0 .. s - 1 : Bit(f, i) = Bit(z, s - 1 - i)
       /\ \A i \in s .. 6 : Bit(f, i) = 0
  BY <1>10, FlipBits
<1> HIDE DEF f
<1>12. \A i \in 0 .. s - 1 : Bit(f, i) = c[i]
  BY <1>5, <1>9, <1>10, <1>11
<1>13. /\ y \in 0 .. 127 /\ Bit(y, 6) = Bit(f, 6)
       /\ \A i \in 0 .. 5 : Bit(y, i) = (Bit(f, i) + Bit(y, i + 1)) % 2
  BY <1>11, GrayBits
<1> HIDE DEF y
<1>14. 6 \in T
  <2>1. 6 \in s .. 6
    OBVIOUS
  <2> QED
    BY <1>6, <1>11, <1>13, <2>1
<1>15. ASSUME NEW i \in 0 .. 5, i + 1 \in T PROVE i \in T
  <2>0. i \in 0 .. 7 /\ i + 1 \in 0 .. 7
    OBVIOUS
  <2>1. Bit(y, i + 1) = Bit(x, i + 1) /\ Bit(x, i) \in {0, 1} /\ Bit(x, i + 1) \in {0, 1}
    BY <1>2, <1>15, <2>0
  <2>2. CASE i < s
    <3>1. i \in 0 .. s - 1
      BY <2>2
    <3>2. Bit(f, i) = (Bit(x, i) + Bit(x, i + 1)) % 2
      BY <1>4, <1>12, <3>1
    <3> QED
      BY <1>3, <1>13, <2>1, <3>2
  <2>3. CASE i >= s
    <3>1. i \in s .. 6 /\ i + 1 \in s .. 6
      BY <2>3
    <3>2. Bit(f, i) = 0 /\ Bit(x, i) = 0 /\ Bit(x, i + 1) = 0
      BY <1>6, <1>11, <3>1
    <3>3. (0 + 0) % 2 = 0
      OBVIOUS
    <3>4. Bit(y, i) = Bit(x, i)
      BY <1>13, <2>1, <3>2, <3>3
    <3> QED
      BY <3>4
  <2> QED
    BY <2>2, <2>3
<1> HIDE DEF T
<1>16. \A i \in 0 .. 6 : i \in T
  BY <1>14, <1>15, HighestFirst
<1>17. y = x
  BY <1>13, <1>16, SameBits DEF T
<1> QED
  BY <1>1, <1>10, <1>17

-----------------------------------------------------------------------------
(* Rows. *)

(* The size stays what it is.                                              *)
LEMMA Same ==
  ASSUME r' = r
  PROVE  n' = n /\ All' = All /\ \A y : RowPlaces(y)' = RowPlaces(y)
  BY DEF n, All, RowPlaces

(* A table of at most dim_max_2D numbers has at most 64 rows.              *)
LEMMA SizeOfTable ==
  ASSUME Places
  PROVE  /\ n \in Nat \ {0} /\ n * n \in Nat
         /\ n * n <= dim_max_2D => r \in 1 .. 6 /\ n <= 64
<1>1. r \in 1 .. 15
  BY BoundsAssumption DEF Places
<1>2. 2 ^ r \in Nat \ {0} /\ (2 ^ r * 2 ^ r <= dim_max_2D => r \in 1 .. 6 /\ 2 ^ r <= 64)
  BY <1>1, PowerAbove
<1> QED
  BY <1>2 DEF n


(* The rows of a table, and that they are all of it.                       *)
LEMMA RowInside ==
  ASSUME Places, NEW y \in 0 .. n - 1
  PROVE  RowPlaces(y) \subseteq All
<1>1. n \in Nat \ {0} /\ n * n \in Nat
  BY SizeOfTable
<1>2. PICK m \in Nat : m = n
  BY <1>1
<1>3. PICK d \in Nat : m = y + 1 + d
  <2>1. m - y - 1 \in Nat /\ m = y + 1 + (m - y - 1)
    BY <1>2
  <2> QED
    BY <2>1
<1>4. d * m \in Nat /\ m * m = y * m + m + d * m /\ y * m \in Nat
  BY <1>2, <1>3
<1>5. \A x \in y * m .. y * m + m - 1 : x \in 0 .. m * m - 1
  BY <1>4
<1> QED
  BY <1>2, <1>5 DEF RowPlaces, All

(* Every place of a table is in one of its rows.                           *)
LEMMA EveryRow ==
  ASSUME Places, NEW x \in All
  PROVE  \E y \in 0 .. n - 1 : x \in RowPlaces(y)
<1>1. n \in Nat \ {0} /\ n * n \in Nat
  BY SizeOfTable
<1>2. PICK m \in Nat \ {0} : m = n
  BY <1>1
<1>3. x \in 0 .. m * m - 1
  BY <1>2 DEF All
<1> DEFINE y == x \div m
           z == x % m
<1>4. y \in Int /\ z \in 0 .. m - 1 /\ x = m * y + z
  BY <1>3
<1> HIDE DEF y, z
<1>5. y >= 0
  <2> SUFFICES ASSUME y <= -1 PROVE FALSE
    BY <1>4
  <2>1. PICK e \in Nat : y = -1 - e
    <3>1. -1 - y \in Nat /\ y = -1 - (-1 - y)
      BY <1>4
    <3> QED
      BY <3>1
  <2>2. m * e \in Nat /\ m * y = -m - m * e
    BY <2>1
  <2> QED
    BY <1>3, <1>4, <2>2
<1>6. y <= m - 1
  <2> SUFFICES ASSUME y >= m PROVE FALSE
    BY <1>4
  <2>1. PICK e \in Nat : y = m + e
    <3>1. y - m \in Nat /\ y = m + (y - m)
      BY <1>4
    <3> QED
      BY <3>1
  <2>2. m * e \in Nat /\ m * y = m * m + m * e
    BY <2>1
  <2> QED
    BY <1>3, <1>4, <2>2
<1>7. m * y = y * m /\ m * y \in Int
  BY <1>4
<1>8. y \in 0 .. m - 1 /\ x \in y * m .. y * m + m - 1
  BY <1>3, <1>4, <1>5, <1>6, <1>7
<1> QED
  BY <1>2, <1>8 DEF RowPlaces

(* A table with all its rows is complete.                                  *)
LEMMA AllRows ==
  ASSUME Places, NEW table, DOMAIN table \subseteq All,
         \A y \in 0 .. n - 1 : RowPlaces(y) \subseteq DOMAIN table
  PROVE  DOMAIN table = All
  BY EveryRow

(* The row that is filled is a row of the table.                           *)
LEMMA FilledInTable ==
  ASSUME Places, n * n <= dim_max_2D, NEW y \in 0 .. n - 1
  PROVE  RowFilled(y) \in 0 .. n - 1
<1>1. r \in 1 .. 6 /\ n = 2 ^ r /\ n \in Nat /\ n <= 64
  BY SizeOfTable DEF n
<1>2. y \in 0 .. 127
  BY <1>1
<1> QED
  BY <1>1, <1>2, RowInTable DEF RowFilled

(* Every row is filled in some turn, whatever the order of the turns.      *)
LEMMA EveryRowFilled ==
  ASSUME Places, n * n <= dim_max_2D, NEW u \in 0 .. n - 1
  PROVE  \E y \in 0 .. n - 1 : RowFilled(y) = u
<1>1. r \in 1 .. 6 /\ n = 2 ^ r /\ n \in Nat /\ n <= 64
  BY SizeOfTable DEF n
<1>2. u \in 0 .. 127
  BY <1>1
<1>3. /\ binary_to_gray_reverse(u, r) \in 0 .. n - 1
      /\ reverse_gray_to_binary(binary_to_gray_reverse(u, r), r) = u
  BY <1>1, <1>2, RowsPermuted
<1> QED
  BY <1>3 DEF RowFilled

-----------------------------------------------------------------------------
(* The steps, one lemma each: what is written of every table stays as      *)
(* TablesWritten says.                                                     *)

USE DEF Filling, Summing, CosineLoops, Before, OnePlaces, Drawing, DrawingDouble, Repetition,
        RepetitionDCT, AfterDraw, AfterDrawDouble

(* main returns with too many arguments, and nothing is written.           *)
LEMMA KeepsArguments == TablesWritten /\ Arguments => TablesWritten'
<1> SUFFICES ASSUME TablesWritten, Arguments PROVE TablesWritten'
  OBVIOUS
<1>0. n' = n /\ All' = All /\ \A y : RowPlaces(y)' = RowPlaces(y)
  BY Same DEF Arguments
<1>s. n \in Nat \ {0} /\ n * n \in Nat
  BY SizeOfTable DEF TablesWritten
<1>1. Places'
  BY <1>0, <1>s DEF TablesWritten, Places, dim_max_2D, Arguments
<1>2. Counter'
  BY <1>0, <1>s DEF TablesWritten, Places, Counter, HasTable, Arguments
<1>3. Repetitions'
  BY BoundsAssumption DEF TablesWritten, Places, Repetitions, measures, Arguments
<1>4. Inside'
  BY <1>0 DEF TablesWritten, Inside, tables, doubles, Unwritten, Arguments
<1>5. WalshTables'
  BY <1>0, <1>s
     DEF TablesWritten, Places, Counter, Inside, WalshTables, Numbers, Rows, Words, Complete,
         HasTable, RowFilled, tables, Arguments
<1>6. CosineTables'
  BY <1>0, <1>s
     DEF TablesWritten, Places, Counter, Inside, WalshTables, CosineTables, Numbers, Rows,
         Complete, doubles, Arguments
<1> QED
  BY <1>1, <1>2, <1>3, <1>4, <1>5, <1>6 DEF TablesWritten

(* faire_un_test goes on with a table that is not too large.               *)
LEMMA KeepsDimension == TablesWritten /\ Dimension => TablesWritten'
<1> SUFFICES ASSUME TablesWritten, Dimension PROVE TablesWritten'
  OBVIOUS
<1>0. n' = n /\ All' = All /\ \A y : RowPlaces(y)' = RowPlaces(y)
  BY Same DEF Dimension
<1>s. n \in Nat \ {0} /\ n * n \in Nat
  BY SizeOfTable DEF TablesWritten
<1>1. Places'
  BY <1>0, <1>s DEF TablesWritten, Places, dim_max_2D, Dimension
<1>2. Counter'
  BY <1>0, <1>s DEF TablesWritten, Places, Counter, HasTable, Dimension
<1>3. Repetitions'
  BY BoundsAssumption DEF TablesWritten, Places, Repetitions, measures, Dimension
<1>4. Inside'
  BY <1>0 DEF TablesWritten, Inside, tables, doubles, Unwritten, Dimension
<1>5. WalshTables'
  BY <1>0, <1>s
     DEF TablesWritten, Places, Counter, Inside, WalshTables, Numbers, Rows, Words, Complete,
         HasTable, RowFilled, tables, Dimension
<1>6. CosineTables'
  BY <1>0, <1>s
     DEF TablesWritten, Places, Counter, Inside, WalshTables, CosineTables, Numbers, Rows,
         Complete, doubles, Dimension
<1> QED
  BY <1>1, <1>2, <1>3, <1>4, <1>5, <1>6 DEF TablesWritten

(* The doubles are those of a complete D.                                  *)
LEMMA KeepsConvert == TablesWritten /\ Convert => TablesWritten'
<1> SUFFICES ASSUME TablesWritten, Convert PROVE TablesWritten'
  OBVIOUS
<1>0. n' = n /\ All' = All /\ \A y : RowPlaces(y)' = RowPlaces(y)
  BY Same DEF Convert
<1>s. n \in Nat \ {0} /\ n * n \in Nat
  BY SizeOfTable DEF TablesWritten
<1>1. Places'
  BY <1>0, <1>s DEF TablesWritten, Places, dim_max_2D, Convert
<1>2. Counter'
  BY <1>0, <1>s DEF TablesWritten, Places, Counter, HasTable, Convert
<1>3. Repetitions'
  BY BoundsAssumption DEF TablesWritten, Places, Repetitions, measures, Convert
<1>4. Inside'
  BY <1>0 DEF TablesWritten, Inside, tables, doubles, Unwritten, Convert
<1>5. WalshTables'
  BY <1>0, <1>s
     DEF TablesWritten, Places, Counter, Inside, WalshTables, Numbers, Rows, Words, Complete,
         HasTable, RowFilled, tables, Convert
<1>6. CosineTables'
  BY <1>0, <1>s
     DEF TablesWritten, Places, Counter, Inside, WalshTables, CosineTables, Numbers, Rows,
         Complete, doubles, Convert
<1> QED
  BY <1>1, <1>2, <1>3, <1>4, <1>5, <1>6 DEF TablesWritten

(* All numbers of Wi are divided, none is added.                           *)
LEMMA KeepsScale == TablesWritten /\ Scale => TablesWritten'
<1> SUFFICES ASSUME TablesWritten, Scale PROVE TablesWritten'
  OBVIOUS
<1>0. n' = n /\ All' = All /\ \A y : RowPlaces(y)' = RowPlaces(y)
  BY Same DEF Scale
<1>s. n \in Nat \ {0} /\ n * n \in Nat
  BY SizeOfTable DEF TablesWritten
<1>1. Places'
  BY <1>0, <1>s DEF TablesWritten, Places, dim_max_2D, Scale
<1>2. Counter'
  BY <1>0, <1>s DEF TablesWritten, Places, Counter, HasTable, Scale
<1>3. Repetitions'
  BY BoundsAssumption DEF TablesWritten, Places, Repetitions, measures, Scale
<1>4. Inside'
  BY <1>0 DEF TablesWritten, Inside, tables, doubles, Unwritten, Scale
<1>5. WalshTables'
  BY <1>0, <1>s
     DEF TablesWritten, Places, Counter, Inside, WalshTables, Numbers, Rows, Words, Complete,
         HasTable, RowFilled, tables, Scale
<1>6. CosineTables'
  BY <1>0, <1>s
     DEF TablesWritten, Places, Counter, Inside, WalshTables, CosineTables, Numbers, Rows,
         Complete, doubles, Scale
<1> QED
  BY <1>1, <1>2, <1>3, <1>4, <1>5, <1>6 DEF TablesWritten

(* faire_N_test has tables of its own, of which nothing is written.        *)
LEMMA KeepsBeginRepetitions == TablesWritten /\ BeginRepetitions => TablesWritten'
<1> SUFFICES ASSUME TablesWritten, BeginRepetitions PROVE TablesWritten'
  OBVIOUS
<1>0. n' = n /\ All' = All /\ \A y : RowPlaces(y)' = RowPlaces(y)
  BY Same DEF BeginRepetitions
<1>s. n \in Nat \ {0} /\ n * n \in Nat
  BY SizeOfTable DEF TablesWritten
<1>1. Places'
  BY <1>0, <1>s DEF TablesWritten, Places, dim_max_2D, BeginRepetitions
<1>2. Counter'
  BY <1>0, <1>s DEF TablesWritten, Places, Counter, HasTable, BeginRepetitions
<1>3. Repetitions'
  BY BoundsAssumption DEF TablesWritten, Places, Repetitions, measures, BeginRepetitions
<1>4. Inside'
  BY <1>0 DEF TablesWritten, Inside, tables, doubles, Unwritten, BeginRepetitions
<1>5. WalshTables'
  BY <1>0, <1>s
     DEF TablesWritten, Places, Counter, Inside, WalshTables, Numbers, Rows, Words, Complete,
         HasTable, RowFilled, tables, BeginRepetitions
<1>6. CosineTables'
  BY <1>0, <1>s
     DEF TablesWritten, Places, Counter, Inside, WalshTables, CosineTables, Numbers, Rows,
         Complete, doubles, BeginRepetitions
<1> QED
  BY <1>1, <1>2, <1>3, <1>4, <1>5, <1>6 DEF TablesWritten

(* A loop of repetitions that is left was measured, as it was entered.     *)
LEMMA KeepsRepeat == TablesWritten /\ Repeat => TablesWritten'
<1> SUFFICES ASSUME TablesWritten, Repeat PROVE TablesWritten'
  OBVIOUS
<1>0. n' = n /\ All' = All /\ \A y : RowPlaces(y)' = RowPlaces(y)
  BY Same DEF Repeat, Again
<1>s. n \in Nat \ {0} /\ n * n \in Nat
  BY SizeOfTable DEF TablesWritten
<1>1. Places'
  BY <1>0, <1>s DEF TablesWritten, Places, dim_max_2D, Repeat, Again
<1>2. Counter'
  BY <1>0, <1>s DEF TablesWritten, Places, Counter, HasTable, Repeat, Again
<1>3. Repetitions'
  <2>1. /\ pc = "repeat" /\ test = "N" /\ it \in Nat /\ expired \in BOOLEAN
        /\ (it = 0 => ~expired) /\ (it > 0 => mesures.niterWbase \in 0 .. NwalMax)
        /\ test' = test /\ mesures' = mesures /\ DOMAIN mesures = {"niterWbase", "niterDCT"}
    BY DEF TablesWritten, Places, Repetitions, Repeat, Again
  <2>2. NwalMax \in Nat
    BY BoundsAssumption
  <2>3. CASE it <= NwalMax /\ ~expired
    <3>1. pc' = "coeff" /\ it' = it /\ expired' = expired
      BY <2>3 DEF Repeat, Again
    <3> QED
      BY <2>1, <2>2, <2>3, <3>1
         DEF Repetitions
  <2>4. CASE ~(it <= NwalMax /\ ~expired)
    <3>1. pc' = "initiale_dbl" /\ it' = 0 /\ expired' = FALSE
      BY <2>4 DEF Repeat, Again
    <3>2. it > 0
      BY <2>1, <2>2, <2>4
    <3> QED
      BY <2>1, <2>2, <3>1, <3>2
         DEF Repetitions
  <2> QED
    BY <2>3, <2>4
<1>4. Inside'
  BY <1>0 DEF TablesWritten, Inside, tables, doubles, Unwritten, Repeat, Again
<1>5. WalshTables'
  BY <1>0, <1>s
     DEF TablesWritten, Places, Counter, Inside, WalshTables, Numbers, Rows, Words, Complete,
         HasTable, RowFilled, tables, Repeat, Again
<1>6. CosineTables'
  BY <1>0, <1>s
     DEF TablesWritten, Places, Counter, Inside, WalshTables, CosineTables, Numbers, Rows,
         Complete, doubles, Repeat, Again
<1> QED
  BY <1>1, <1>2, <1>3, <1>4, <1>5, <1>6 DEF TablesWritten

(* The same for the cosines.                                               *)
LEMMA KeepsRepeatDCT == TablesWritten /\ RepeatDCT => TablesWritten'
<1> SUFFICES ASSUME TablesWritten, RepeatDCT PROVE TablesWritten'
  OBVIOUS
<1>0. n' = n /\ All' = All /\ \A y : RowPlaces(y)' = RowPlaces(y)
  BY Same DEF RepeatDCT, Again
<1>s. n \in Nat \ {0} /\ n * n \in Nat
  BY SizeOfTable DEF TablesWritten
<1>1. Places'
  BY <1>0, <1>s DEF TablesWritten, Places, dim_max_2D, RepeatDCT, Again
<1>2. Counter'
  BY <1>0, <1>s DEF TablesWritten, Places, Counter, HasTable, RepeatDCT, Again
<1>3. Repetitions'
  <2>1. /\ pc = "repeat_dct" /\ test = "N" /\ it \in Nat /\ expired \in BOOLEAN
        /\ (it = 0 => ~expired) /\ (it > 0 => mesures.niterDCT \in 0 .. NdctMax)
        /\ test' = test /\ mesures' = mesures /\ DOMAIN mesures = {"niterWbase", "niterDCT"}
        /\ mesures.niterWbase \in 0 .. NwalMax
    BY DEF TablesWritten, Places, Repetitions, RepeatDCT, Again
  <2>2. NdctMax \in Nat
    BY BoundsAssumption
  <2>3. CASE it <= NdctMax /\ ~expired
    <3>1. pc' = "dct" /\ it' = it /\ expired' = expired
      BY <2>3 DEF RepeatDCT, Again
    <3> QED
      BY <2>1, <2>2, <2>3, <3>1
         DEF Repetitions
  <2>4. CASE ~(it <= NdctMax /\ ~expired)
    <3>1. pc' = "results" /\ it' = 0 /\ expired' = FALSE
      BY <2>4 DEF RepeatDCT, Again
    <3>2. it > 0
      BY <2>1, <2>2, <2>4
    <3> QED
      BY <2>1, <2>2, <3>1, <3>2
         DEF Repetitions
  <2> QED
    BY <2>3, <2>4
<1>4. Inside'
  BY <1>0 DEF TablesWritten, Inside, tables, doubles, Unwritten, RepeatDCT, Again
<1>5. WalshTables'
  BY <1>0, <1>s
     DEF TablesWritten, Places, Counter, Inside, WalshTables, Numbers, Rows, Words, Complete,
         HasTable, RowFilled, tables, RepeatDCT, Again
<1>6. CosineTables'
  BY <1>0, <1>s
     DEF TablesWritten, Places, Counter, Inside, WalshTables, CosineTables, Numbers, Rows,
         Complete, doubles, RepeatDCT, Again
<1> QED
  BY <1>1, <1>2, <1>3, <1>4, <1>5, <1>6 DEF TablesWritten

(* What is measured is the number of a repetition.                         *)
LEMMA KeepsMeasureWalsh == TablesWritten /\ MeasureWalsh => TablesWritten'
<1> SUFFICES ASSUME TablesWritten, MeasureWalsh PROVE TablesWritten'
  OBVIOUS
<1>0. n' = n /\ All' = All /\ \A y : RowPlaces(y)' = RowPlaces(y)
  BY Same DEF MeasureWalsh, Measure
<1>s. n \in Nat \ {0} /\ n * n \in Nat
  BY SizeOfTable DEF TablesWritten
<1>1. Places'
  BY <1>0, <1>s DEF TablesWritten, Places, dim_max_2D, MeasureWalsh, Measure
<1>2. Counter'
  BY <1>0, <1>s DEF TablesWritten, Places, Counter, HasTable, MeasureWalsh, Measure
<1>3. Repetitions'
  BY BoundsAssumption DEF TablesWritten, Places, Repetitions, measures, MeasureWalsh, Measure
<1>4. Inside'
  BY <1>0 DEF TablesWritten, Inside, tables, doubles, Unwritten, MeasureWalsh, Measure
<1>5. WalshTables'
  BY <1>0, <1>s
     DEF TablesWritten, Places, Counter, Inside, WalshTables, Numbers, Rows, Words, Complete,
         HasTable, RowFilled, tables, MeasureWalsh, Measure
<1>6. CosineTables'
  BY <1>0, <1>s
     DEF TablesWritten, Places, Counter, Inside, WalshTables, CosineTables, Numbers, Rows,
         Complete, doubles, MeasureWalsh, Measure
<1> QED
  BY <1>1, <1>2, <1>3, <1>4, <1>5, <1>6 DEF TablesWritten

(* The same for the cosines.                                               *)
LEMMA KeepsMeasureDCT == TablesWritten /\ MeasureDCT => TablesWritten'
<1> SUFFICES ASSUME TablesWritten, MeasureDCT PROVE TablesWritten'
  OBVIOUS
<1>0. n' = n /\ All' = All /\ \A y : RowPlaces(y)' = RowPlaces(y)
  BY Same DEF MeasureDCT, Measure
<1>s. n \in Nat \ {0} /\ n * n \in Nat
  BY SizeOfTable DEF TablesWritten
<1>1. Places'
  BY <1>0, <1>s DEF TablesWritten, Places, dim_max_2D, MeasureDCT, Measure
<1>2. Counter'
  BY <1>0, <1>s DEF TablesWritten, Places, Counter, HasTable, MeasureDCT, Measure
<1>3. Repetitions'
  BY BoundsAssumption DEF TablesWritten, Places, Repetitions, measures, MeasureDCT, Measure
<1>4. Inside'
  BY <1>0 DEF TablesWritten, Inside, tables, doubles, Unwritten, MeasureDCT, Measure
<1>5. WalshTables'
  BY <1>0, <1>s
     DEF TablesWritten, Places, Counter, Inside, WalshTables, Numbers, Rows, Words, Complete,
         HasTable, RowFilled, tables, MeasureDCT, Measure
<1>6. CosineTables'
  BY <1>0, <1>s
     DEF TablesWritten, Places, Counter, Inside, WalshTables, CosineTables, Numbers, Rows,
         Complete, doubles, MeasureDCT, Measure
<1> QED
  BY <1>1, <1>2, <1>3, <1>4, <1>5, <1>6 DEF TablesWritten

(* The results are printed at the end.                                     *)
LEMMA Keepsaffiche_resultats == TablesWritten /\ affiche_resultats => TablesWritten'
<1> SUFFICES ASSUME TablesWritten, affiche_resultats PROVE TablesWritten'
  OBVIOUS
<1>0. n' = n /\ All' = All /\ \A y : RowPlaces(y)' = RowPlaces(y)
  BY Same DEF affiche_resultats
<1>s. n \in Nat \ {0} /\ n * n \in Nat
  BY SizeOfTable DEF TablesWritten
<1>1. Places'
  BY <1>0, <1>s DEF TablesWritten, Places, dim_max_2D, affiche_resultats
<1>2. Counter'
  BY <1>0, <1>s DEF TablesWritten, Places, Counter, HasTable, affiche_resultats
<1>3. Repetitions'
  BY BoundsAssumption DEF TablesWritten, Places, Repetitions, measures, affiche_resultats
<1>4. Inside'
  BY <1>0 DEF TablesWritten, Inside, tables, doubles, Unwritten, affiche_resultats
<1>5. WalshTables'
  BY <1>0, <1>s
     DEF TablesWritten, Places, Counter, Inside, WalshTables, Numbers, Rows, Words, Complete,
         HasTable, RowFilled, tables, affiche_resultats
<1>6. CosineTables'
  BY <1>0, <1>s
     DEF TablesWritten, Places, Counter, Inside, WalshTables, CosineTables, Numbers, Rows,
         Complete, doubles, affiche_resultats
<1> QED
  BY <1>1, <1>2, <1>3, <1>4, <1>5, <1>6 DEF TablesWritten

(* perfWalshDCT needs no table.                                            *)
LEMMA KeepsNoTable == TablesWritten /\ NoTable => TablesWritten'
<1> SUFFICES ASSUME TablesWritten, NoTable PROVE TablesWritten'
  OBVIOUS
<1>0. n' = n /\ All' = All /\ \A y : RowPlaces(y)' = RowPlaces(y)
  BY Same DEF NoTable, AtTable
<1>s. n \in Nat \ {0} /\ n * n \in Nat
  BY SizeOfTable DEF TablesWritten
<1>1. Places'
  BY <1>0, <1>s DEF TablesWritten, Places, dim_max_2D, NoTable, AtTable
<1>2. Counter'
  BY <1>0, <1>s DEF TablesWritten, Places, Counter, HasTable, NoTable, AtTable
<1>3. Repetitions'
  BY BoundsAssumption DEF TablesWritten, Places, Repetitions, measures, NoTable, AtTable
<1>4. Inside'
  BY <1>0 DEF TablesWritten, Inside, tables, doubles, Unwritten, NoTable, AtTable
<1>5. WalshTables'
  BY <1>0, <1>s
     DEF TablesWritten, Places, Counter, Inside, WalshTables, Numbers, Rows, Words, Complete,
         HasTable, RowFilled, tables, NoTable, AtTable
<1>6. CosineTables'
  BY <1>0, <1>s
     DEF TablesWritten, Places, Counter, Inside, WalshTables, CosineTables, Numbers, Rows,
         Complete, doubles, NoTable, AtTable
<1> QED
  BY <1>1, <1>2, <1>3, <1>4, <1>5, <1>6 DEF TablesWritten

(* All rows of the result were written when Walsh_2D_base returns.         *)
LEMMA KeepsWalshReturns == TablesWritten /\ WalshReturns => TablesWritten'
<1> SUFFICES ASSUME TablesWritten, WalshReturns PROVE TablesWritten'
  OBVIOUS
<1>0. n' = n /\ All' = All /\ \A y : RowPlaces(y)' = RowPlaces(y)
  BY Same DEF WalshReturns
<1>s. n \in Nat \ {0} /\ n * n \in Nat
  BY SizeOfTable DEF TablesWritten
<1>1. Places'
  BY <1>0, <1>s DEF TablesWritten, Places, dim_max_2D, WalshReturns
<1>2. Counter'
  BY <1>0, <1>s DEF TablesWritten, Places, Counter, HasTable, WalshReturns
<1>3. Repetitions'
  BY BoundsAssumption DEF TablesWritten, Places, Repetitions, measures, WalshReturns
<1>4. Inside'
  BY <1>0 DEF TablesWritten, Inside, tables, doubles, Unwritten, WalshReturns
<1>w. pc = "walsh" => Complete(W)
  BY <1>s, AllRows
     DEF TablesWritten, Places, Counter, Inside, WalshTables, Rows, Complete, WalshReturns
<1>i. pc = "inverse" => Complete(Wi)
  BY <1>s, AllRows
     DEF TablesWritten, Places, Counter, Inside, WalshTables, Rows, Complete, WalshReturns
<1>5. WalshTables'
  BY <1>w, <1>i, <1>0, <1>s
     DEF TablesWritten, Places, Counter, Inside, WalshTables, Numbers, Rows, Words, Complete,
         HasTable, RowFilled, tables, WalshReturns
<1>6. CosineTables'
  BY <1>0, <1>s
     DEF TablesWritten, Places, Counter, Inside, WalshTables, CosineTables, Numbers, Rows,
         Complete, doubles, WalshReturns
<1> QED
  BY <1>1, <1>2, <1>3, <1>4, <1>5, <1>6 DEF TablesWritten

(* All rows were written when a cosine transform returns.                  *)
LEMMA KeepsCosineReturns == TablesWritten /\ CosineReturns => TablesWritten'
<1> SUFFICES ASSUME TablesWritten, CosineReturns PROVE TablesWritten'
  OBVIOUS
<1>0. n' = n /\ All' = All /\ \A y : RowPlaces(y)' = RowPlaces(y)
  BY Same DEF CosineReturns
<1>s. n \in Nat \ {0} /\ n * n \in Nat
  BY SizeOfTable DEF TablesWritten
<1>1. Places'
  BY <1>0, <1>s DEF TablesWritten, Places, dim_max_2D, CosineReturns
<1>2. Counter'
  BY <1>0, <1>s DEF TablesWritten, Places, Counter, HasTable, CosineReturns
<1>3. Repetitions'
  BY BoundsAssumption DEF TablesWritten, Places, Repetitions, measures, CosineReturns
<1>4. Inside'
  BY <1>0 DEF TablesWritten, Inside, tables, doubles, Unwritten, CosineReturns
<1>5. WalshTables'
  BY <1>0, <1>s
     DEF TablesWritten, Places, Counter, Inside, WalshTables, Numbers, Rows, Words, Complete,
         HasTable, RowFilled, tables, CosineReturns
<1>c. pc = "dct" => Complete(S)
  BY <1>s, AllRows
     DEF TablesWritten, Places, Counter, Inside, CosineTables, Rows, Complete, CosineReturns
<1>6. CosineTables'
  BY <1>c, <1>0, <1>s
     DEF TablesWritten, Places, Counter, Inside, WalshTables, CosineTables, Numbers, Rows,
         Complete, doubles, CosineReturns
<1> QED
  BY <1>1, <1>2, <1>3, <1>4, <1>5, <1>6 DEF TablesWritten

(* One number is added to D, or D is complete.                             *)
LEMMA Keepsgenere_ran_D == TablesWritten /\ genere_ran_D => TablesWritten'
<1> SUFFICES ASSUME TablesWritten, genere_ran_D PROVE TablesWritten'
  OBVIOUS
<1>f. /\ program' = program /\ r' = r /\ test' = test
      /\ it' = it /\ expired' = expired /\ mesures' = mesures
      /\ coeff' = coeff /\ W' = W /\ Wi' = Wi /\ Ddbl' = Ddbl /\ S' = S /\ Didbl' = Didbl
  BY DEF genere_ran_D, tables, doubles, measures
<1>0. n' = n /\ All' = All /\ \A y : RowPlaces(y)' = RowPlaces(y)
  BY <1>f, Same
<1>s. n \in Nat \ {0} /\ n * n \in Nat
  BY SizeOfTable DEF TablesWritten
<1>p. Places /\ Counter /\ Repetitions /\ Inside /\ WalshTables /\ CosineTables
  BY DEF TablesWritten
<1>d. /\ pc \in {"premier", "second", "initiale", "nouvelle"}
      /\ \/ k < n * n /\ k' = k + 1 /\ pc' = pc /\ DOMAIN D' = {k} \cup DOMAIN D
         \/ /\ k = n * n /\ k' = 0 /\ D' = D
            /\ pc = "premier" => pc' = "second"
            /\ pc = "second" => pc' = "coeff"
            /\ pc = "initiale" => pc' = "repeat"
            /\ pc = "nouvelle" => pc' = "measure"
  BY DEF genere_ran_D, DrawnNumber, CountedNumber, Store
<1>k. k \in 0 .. n * n /\ Numbers(D)
  BY <1>p, <1>d DEF Counter, WalshTables
<1>c. k = n * n => Complete(D)
  BY <1>k, <1>s, <1>p DEF Inside, Complete, Numbers, All
<1>i. k < n * n => k \in All
  BY <1>k, <1>s DEF All
<1>n. k < n * n => Numbers(D)'
  BY <1>k, <1>d DEF Numbers
<1>1. Places'
  BY <1>p, <1>f, <1>d, <1>0 DEF Places, dim_max_2D
<1>2. Counter'
  BY <1>p, <1>f, <1>d, <1>0, <1>s, <1>k DEF Places, Counter, HasTable
<1>3. Repetitions'
  BY <1>p, <1>f, <1>d, BoundsAssumption DEF Places, Repetitions
<1>4. Inside'
  BY <1>p, <1>f, <1>d, <1>0, <1>i DEF Inside
<1>5. WalshTables'
  BY <1>p, <1>f, <1>d, <1>0, <1>s, <1>c, <1>n
     DEF Places, Counter, Inside, WalshTables, Numbers, Rows, Words, Complete, HasTable,
         RowFilled
<1>6. CosineTables'
  BY <1>p, <1>f, <1>d, <1>0, <1>s
     DEF Places, Counter, Inside, CosineTables, Numbers, Rows, Complete
<1> QED
  BY <1>1, <1>2, <1>3, <1>4, <1>5, <1>6 DEF TablesWritten

(* The same for the doubles.                                               *)
LEMMA Keepsgenere_ran_double_D == TablesWritten /\ genere_ran_double_D => TablesWritten'
<1> SUFFICES ASSUME TablesWritten, genere_ran_double_D PROVE TablesWritten'
  OBVIOUS
<1>f. /\ program' = program /\ r' = r /\ test' = test
      /\ it' = it /\ expired' = expired /\ mesures' = mesures
      /\ D' = D /\ coeff' = coeff /\ W' = W /\ Wi' = Wi /\ S' = S /\ Didbl' = Didbl
  BY DEF genere_ran_double_D, tables, doubles, measures
<1>0. n' = n /\ All' = All /\ \A y : RowPlaces(y)' = RowPlaces(y)
  BY <1>f, Same
<1>s. n \in Nat \ {0} /\ n * n \in Nat
  BY SizeOfTable DEF TablesWritten
<1>p. Places /\ Counter /\ Repetitions /\ Inside /\ WalshTables /\ CosineTables
  BY DEF TablesWritten
<1>d. /\ pc \in {"initiale_dbl", "nouvelle_dbl"}
      /\ \/ k < n * n /\ k' = k + 1 /\ pc' = pc /\ DOMAIN Ddbl' = {k} \cup DOMAIN Ddbl
         \/ /\ k = n * n /\ k' = 0 /\ Ddbl' = Ddbl
            /\ pc = "initiale_dbl" => pc' = "repeat_dct"
            /\ pc = "nouvelle_dbl" => pc' = "measure_dct"
  BY DEF genere_ran_double_D, Store
<1>k. k \in 0 .. n * n /\ Numbers(Ddbl)
  BY <1>p, <1>d DEF Counter, CosineTables
<1>c. k = n * n => Complete(Ddbl)
  BY <1>k, <1>s, <1>p DEF Inside, Complete, Numbers, All
<1>i. k < n * n => k \in All
  BY <1>k, <1>s DEF All
<1>n. k < n * n => Numbers(Ddbl)'
  BY <1>k, <1>d DEF Numbers
<1>1. Places'
  BY <1>p, <1>f, <1>d, <1>0 DEF Places, dim_max_2D
<1>2. Counter'
  BY <1>p, <1>f, <1>d, <1>0, <1>s, <1>k DEF Places, Counter, HasTable
<1>3. Repetitions'
  BY <1>p, <1>f, <1>d, BoundsAssumption DEF Places, Repetitions
<1>4. Inside'
  BY <1>p, <1>f, <1>d, <1>0, <1>i DEF Inside
<1>5. WalshTables'
  BY <1>p, <1>f, <1>d, <1>0, <1>s
     DEF Places, Counter, Inside, WalshTables, Numbers, Rows, Words, Complete, HasTable,
         RowFilled
<1>6. CosineTables'
  BY <1>p, <1>f, <1>d, <1>0, <1>s, <1>c, <1>n
     DEF Places, Counter, Inside, CosineTables, Numbers, Rows, Complete
<1> QED
  BY <1>1, <1>2, <1>3, <1>4, <1>5, <1>6 DEF TablesWritten

(* One row is added to the result, from complete tables.                   *)
LEMMA KeepsSumRow == TablesWritten /\ SumRow => TablesWritten'
<1> SUFFICES ASSUME TablesWritten, SumRow PROVE TablesWritten'
  OBVIOUS
<1>f. /\ program' = program /\ r' = r /\ test' = test
      /\ it' = it /\ expired' = expired /\ mesures' = mesures
      /\ D' = D /\ coeff' = coeff /\ Ddbl' = Ddbl /\ S' = S /\ Didbl' = Didbl
  BY DEF SumRow, tables, doubles, measures
<1>0. n' = n /\ All' = All /\ \A y : RowPlaces(y)' = RowPlaces(y)
  BY <1>f, Same
<1>s. n \in Nat \ {0} /\ n * n \in Nat
  BY SizeOfTable DEF TablesWritten
<1>p. Places /\ Counter /\ Repetitions /\ Inside /\ WalshTables /\ CosineTables
  BY DEF TablesWritten
<1>d. /\ pc \in {"walsh", "inverse"} /\ program # "wscoeff_s"
      /\ k < n /\ k' = k + 1 /\ pc' = pc
      /\ pc = "walsh" => DOMAIN W' = RowPlaces(k) \cup DOMAIN W /\ Wi' = Wi
      /\ pc = "inverse" => DOMAIN Wi' = RowPlaces(k) \cup DOMAIN Wi /\ W' = W
  BY DEF SumRow, Store
<1>k. k \in 0 .. n - 1
  BY <1>p, <1>d, <1>s DEF Counter
<1>i. RowPlaces(k) \subseteq All
  BY <1>k, <1>p, RowInside
<1>n. /\ pc = "walsh" => Rows(W)'
      /\ pc = "inverse" => Rows(Wi)'
  BY <1>p, <1>d, <1>k, <1>0 DEF WalshTables, Rows
<1>1. Places'
  BY <1>p, <1>f, <1>d, <1>0 DEF Places, dim_max_2D
<1>2. Counter'
  BY <1>p, <1>f, <1>d, <1>0, <1>s, <1>k DEF Places, Counter, HasTable
<1>3. Repetitions'
  BY <1>p, <1>f, <1>d, BoundsAssumption DEF Places, Repetitions
<1>4. Inside'
  BY <1>p, <1>f, <1>d, <1>0, <1>i DEF Inside
<1>5. WalshTables'
  BY <1>p, <1>f, <1>d, <1>0, <1>s, <1>n
     DEF Places, Counter, Inside, WalshTables, Numbers, Rows, Words, Complete, HasTable,
         RowFilled
<1>6. CosineTables'
  BY <1>p, <1>f, <1>d, <1>0, <1>s
     DEF Places, Counter, Inside, CosineTables, Numbers, Rows, Complete
<1> QED
  BY <1>1, <1>2, <1>3, <1>4, <1>5, <1>6 DEF TablesWritten

(* One row is added to the result of the cosines.                          *)
LEMMA KeepsCosineRow == TablesWritten /\ CosineRow => TablesWritten'
<1> SUFFICES ASSUME TablesWritten, CosineRow PROVE TablesWritten'
  OBVIOUS
<1>f. /\ program' = program /\ r' = r /\ test' = test
      /\ it' = it /\ expired' = expired /\ mesures' = mesures
      /\ D' = D /\ coeff' = coeff /\ W' = W /\ Wi' = Wi /\ Ddbl' = Ddbl
  BY DEF CosineRow, tables, doubles, measures
<1>0. n' = n /\ All' = All /\ \A y : RowPlaces(y)' = RowPlaces(y)
  BY <1>f, Same
<1>s. n \in Nat \ {0} /\ n * n \in Nat
  BY SizeOfTable DEF TablesWritten
<1>p. Places /\ Counter /\ Repetitions /\ Inside /\ WalshTables /\ CosineTables
  BY DEF TablesWritten
<1>d. /\ pc \in {"dct", "dcti"}
      /\ k < n /\ k' = k + 1 /\ pc' = pc
      /\ pc = "dct" => DOMAIN S' = RowPlaces(k) \cup DOMAIN S /\ Didbl' = Didbl
      /\ pc = "dcti" => DOMAIN Didbl' = RowPlaces(k) \cup DOMAIN Didbl /\ S' = S
  BY DEF CosineRow, Store
<1>k. k \in 0 .. n - 1
  BY <1>p, <1>d, <1>s DEF Counter
<1>i. RowPlaces(k) \subseteq All
  BY <1>k, <1>p, RowInside
<1>n. pc = "dct" => Rows(S)'
  BY <1>p, <1>d, <1>k, <1>0 DEF CosineTables, Rows
<1>1. Places'
  BY <1>p, <1>f, <1>d, <1>0 DEF Places, dim_max_2D
<1>2. Counter'
  BY <1>p, <1>f, <1>d, <1>0, <1>s, <1>k DEF Places, Counter, HasTable
<1>3. Repetitions'
  BY <1>p, <1>f, <1>d, BoundsAssumption DEF Places, Repetitions
<1>4. Inside'
  BY <1>p, <1>f, <1>d, <1>0, <1>i DEF Inside
<1>5. WalshTables'
  BY <1>p, <1>f, <1>d, <1>0, <1>s
     DEF Places, Counter, Inside, WalshTables, Numbers, Rows, Words, Complete, HasTable,
         RowFilled
<1>6. CosineTables'
  BY <1>p, <1>f, <1>d, <1>0, <1>s, <1>n
     DEF Places, Counter, Inside, CosineTables, Numbers, Rows, Complete
<1> QED
  BY <1>1, <1>2, <1>3, <1>4, <1>5, <1>6 DEF TablesWritten

(* One row is added to the table of coefficients, or it is complete.       *)
LEMMA KeepsTableCorrige == TablesWritten /\ TableCorrige => TablesWritten'
<1> SUFFICES ASSUME TablesWritten, TableCorrige PROVE TablesWritten'
  OBVIOUS
<1>f. /\ program' = program /\ r' = r /\ test' = test
      /\ it' = it /\ expired' = expired /\ mesures' = mesures
      /\ D' = D /\ W' = W /\ Wi' = Wi /\ Ddbl' = Ddbl /\ S' = S /\ Didbl' = Didbl
  BY DEF TableCorrige, NextRow, TableComplete, AtTable, tables, doubles, measures
<1>0. n' = n /\ All' = All /\ \A y : RowPlaces(y)' = RowPlaces(y)
  BY <1>f, Same
<1>s. n \in Nat \ {0} /\ n * n \in Nat
  BY SizeOfTable DEF TablesWritten
<1>p. Places /\ Counter /\ Repetitions /\ Inside /\ WalshTables /\ CosineTables
  BY DEF TablesWritten
<1>d. /\ pc \in {"coeff", "coeff_i"} /\ HasTable /\ program # "wscoeff_s"
      /\ \/ k < n /\ k' = k + 1 /\ pc' = pc /\ DOMAIN coeff' = RowPlaces(RowFilled(k)) \cup DOMAIN coeff
         \/ /\ k = n /\ k' = 0 /\ coeff' = coeff
            /\ pc = "coeff" => pc' = "walsh"
            /\ pc = "coeff_i" => pc' = "inverse"
  BY DEF TableCorrige, NextRow, TableComplete, AtTable, Store, RowFilled, HasTable, tables
<1>k. k \in 0 .. n
  BY <1>p, <1>d, <1>s DEF Counter
<1>r. n * n <= dim_max_2D
  BY <1>p, <1>d DEF Places
<1>i. k < n => RowPlaces(RowFilled(k)) \subseteq All
  BY <1>k, <1>p, <1>r, <1>s, FilledInTable, RowInside
<1>e. \A y : RowFilled(y)' = RowFilled(y)
  BY <1>f DEF RowFilled
<1>q. pc \in Filling /\ program # "wscoeff_s" /\ HasTable =>
       \A y \in 0 .. k - 1 : RowPlaces(RowFilled(y)) \subseteq DOMAIN coeff
  BY <1>p DEF WalshTables
<1>n. k < n => \A y \in 0 .. k' - 1 : RowPlaces(RowFilled(y)) \subseteq DOMAIN coeff'
  BY <1>q, <1>d, <1>k
<1>c. k = n => Complete(coeff)
  <2> SUFFICES ASSUME k = n PROVE Complete(coeff)
    OBVIOUS
  <2>1. \A u \in 0 .. n - 1 : RowPlaces(u) \subseteq DOMAIN coeff
    BY <1>q, <1>d, <1>p, <1>r, EveryRowFilled
  <2> QED
    BY <2>1, <1>p, AllRows DEF Inside, Complete
<1>1. Places'
  BY <1>p, <1>f, <1>d, <1>0 DEF Places, dim_max_2D
<1>2. Counter'
  BY <1>p, <1>f, <1>d, <1>0, <1>s, <1>k DEF Places, Counter, HasTable
<1>3. Repetitions'
  BY <1>p, <1>f, <1>d, BoundsAssumption DEF Places, Repetitions
<1>4. Inside'
  BY <1>p, <1>f, <1>d, <1>0, <1>i DEF Inside
<1>5. WalshTables'
  BY <1>p, <1>f, <1>d, <1>0, <1>s, <1>n, <1>c, <1>e
     DEF Places, Counter, Inside, WalshTables, Numbers, Rows, Words, Complete, HasTable,
         RowFilled
<1>6. CosineTables'
  BY <1>p, <1>f, <1>d, <1>0, <1>s
     DEF Places, Counter, Inside, CosineTables, Numbers, Rows, Complete
<1> QED
  BY <1>1, <1>2, <1>3, <1>4, <1>5, <1>6 DEF TablesWritten

(* The rows come in another order, and none is left out.                   *)
LEMMA KeepsTableHadamard == TablesWritten /\ TableHadamard => TablesWritten'
<1> SUFFICES ASSUME TablesWritten, TableHadamard PROVE TablesWritten'
  OBVIOUS
<1>f. /\ program' = program /\ r' = r /\ test' = test
      /\ it' = it /\ expired' = expired /\ mesures' = mesures
      /\ D' = D /\ W' = W /\ Wi' = Wi /\ Ddbl' = Ddbl /\ S' = S /\ Didbl' = Didbl
  BY DEF TableHadamard, NextRow, TableComplete, AtTable, tables, doubles, measures
<1>0. n' = n /\ All' = All /\ \A y : RowPlaces(y)' = RowPlaces(y)
  BY <1>f, Same
<1>s. n \in Nat \ {0} /\ n * n \in Nat
  BY SizeOfTable DEF TablesWritten
<1>p. Places /\ Counter /\ Repetitions /\ Inside /\ WalshTables /\ CosineTables
  BY DEF TablesWritten
<1>d. /\ pc \in {"coeff", "coeff_i"} /\ HasTable /\ program # "wscoeff_s"
      /\ \/ k < n /\ k' = k + 1 /\ pc' = pc /\ DOMAIN coeff' = RowPlaces(RowFilled(k)) \cup DOMAIN coeff
         \/ /\ k = n /\ k' = 0 /\ coeff' = coeff
            /\ pc = "coeff" => pc' = "walsh"
            /\ pc = "coeff_i" => pc' = "inverse"
  BY DEF TableHadamard, NextRow, TableComplete, AtTable, Store, RowFilled, HasTable, tables
<1>k. k \in 0 .. n
  BY <1>p, <1>d, <1>s DEF Counter
<1>r. n * n <= dim_max_2D
  BY <1>p, <1>d DEF Places
<1>i. k < n => RowPlaces(RowFilled(k)) \subseteq All
  BY <1>k, <1>p, <1>r, <1>s, FilledInTable, RowInside
<1>e. \A y : RowFilled(y)' = RowFilled(y)
  BY <1>f DEF RowFilled
<1>q. pc \in Filling /\ program # "wscoeff_s" /\ HasTable =>
       \A y \in 0 .. k - 1 : RowPlaces(RowFilled(y)) \subseteq DOMAIN coeff
  BY <1>p DEF WalshTables
<1>n. k < n => \A y \in 0 .. k' - 1 : RowPlaces(RowFilled(y)) \subseteq DOMAIN coeff'
  BY <1>q, <1>d, <1>k
<1>c. k = n => Complete(coeff)
  <2> SUFFICES ASSUME k = n PROVE Complete(coeff)
    OBVIOUS
  <2>1. \A u \in 0 .. n - 1 : RowPlaces(u) \subseteq DOMAIN coeff
    BY <1>q, <1>d, <1>p, <1>r, EveryRowFilled
  <2> QED
    BY <2>1, <1>p, AllRows DEF Inside, Complete
<1>1. Places'
  BY <1>p, <1>f, <1>d, <1>0 DEF Places, dim_max_2D
<1>2. Counter'
  BY <1>p, <1>f, <1>d, <1>0, <1>s, <1>k DEF Places, Counter, HasTable
<1>3. Repetitions'
  BY <1>p, <1>f, <1>d, BoundsAssumption DEF Places, Repetitions
<1>4. Inside'
  BY <1>p, <1>f, <1>d, <1>0, <1>i DEF Inside
<1>5. WalshTables'
  BY <1>p, <1>f, <1>d, <1>0, <1>s, <1>n, <1>c, <1>e
     DEF Places, Counter, Inside, WalshTables, Numbers, Rows, Words, Complete, HasTable,
         RowFilled
<1>6. CosineTables'
  BY <1>p, <1>f, <1>d, <1>0, <1>s
     DEF Places, Counter, Inside, CosineTables, Numbers, Rows, Complete
<1> QED
  BY <1>1, <1>2, <1>3, <1>4, <1>5, <1>6 DEF TablesWritten

(* The rows are in order again.                                            *)
LEMMA KeepsTableGray == TablesWritten /\ TableGray => TablesWritten'
<1> SUFFICES ASSUME TablesWritten, TableGray PROVE TablesWritten'
  OBVIOUS
<1>f. /\ program' = program /\ r' = r /\ test' = test
      /\ it' = it /\ expired' = expired /\ mesures' = mesures
      /\ D' = D /\ W' = W /\ Wi' = Wi /\ Ddbl' = Ddbl /\ S' = S /\ Didbl' = Didbl
  BY DEF TableGray, NextRow, TableComplete, AtTable, tables, doubles, measures
<1>0. n' = n /\ All' = All /\ \A y : RowPlaces(y)' = RowPlaces(y)
  BY <1>f, Same
<1>s. n \in Nat \ {0} /\ n * n \in Nat
  BY SizeOfTable DEF TablesWritten
<1>p. Places /\ Counter /\ Repetitions /\ Inside /\ WalshTables /\ CosineTables
  BY DEF TablesWritten
<1>d. /\ pc \in {"coeff", "coeff_i"} /\ HasTable /\ program # "wscoeff_s"
      /\ \/ k < n /\ k' = k + 1 /\ pc' = pc /\ DOMAIN coeff' = RowPlaces(RowFilled(k)) \cup DOMAIN coeff
         \/ /\ k = n /\ k' = 0 /\ coeff' = coeff
            /\ pc = "coeff" => pc' = "walsh"
            /\ pc = "coeff_i" => pc' = "inverse"
  BY DEF TableGray, NextRow, TableComplete, AtTable, Store, RowFilled, HasTable, tables
<1>k. k \in 0 .. n
  BY <1>p, <1>d, <1>s DEF Counter
<1>r. n * n <= dim_max_2D
  BY <1>p, <1>d DEF Places
<1>i. k < n => RowPlaces(RowFilled(k)) \subseteq All
  BY <1>k, <1>p, <1>r, <1>s, FilledInTable, RowInside
<1>e. \A y : RowFilled(y)' = RowFilled(y)
  BY <1>f DEF RowFilled
<1>q. pc \in Filling /\ program # "wscoeff_s" /\ HasTable =>
       \A y \in 0 .. k - 1 : RowPlaces(RowFilled(y)) \subseteq DOMAIN coeff
  BY <1>p DEF WalshTables
<1>n. k < n => \A y \in 0 .. k' - 1 : RowPlaces(RowFilled(y)) \subseteq DOMAIN coeff'
  BY <1>q, <1>d, <1>k
<1>c. k = n => Complete(coeff)
  <2> SUFFICES ASSUME k = n PROVE Complete(coeff)
    OBVIOUS
  <2>1. \A u \in 0 .. n - 1 : RowPlaces(u) \subseteq DOMAIN coeff
    BY <1>q, <1>d, <1>p, <1>r, EveryRowFilled
  <2> QED
    BY <2>1, <1>p, AllRows DEF Inside, Complete
<1>1. Places'
  BY <1>p, <1>f, <1>d, <1>0 DEF Places, dim_max_2D
<1>2. Counter'
  BY <1>p, <1>f, <1>d, <1>0, <1>s, <1>k DEF Places, Counter, HasTable
<1>3. Repetitions'
  BY <1>p, <1>f, <1>d, BoundsAssumption DEF Places, Repetitions
<1>4. Inside'
  BY <1>p, <1>f, <1>d, <1>0, <1>i DEF Inside
<1>5. WalshTables'
  BY <1>p, <1>f, <1>d, <1>0, <1>s, <1>n, <1>c, <1>e
     DEF Places, Counter, Inside, WalshTables, Numbers, Rows, Words, Complete, HasTable,
         RowFilled
<1>6. CosineTables'
  BY <1>p, <1>f, <1>d, <1>0, <1>s
     DEF Places, Counter, Inside, CosineTables, Numbers, Rows, Complete
<1> QED
  BY <1>1, <1>2, <1>3, <1>4, <1>5, <1>6 DEF TablesWritten

(* wscoeff.s counts bytes: a number is added to D every four of them.      *)
LEMMA KeepsPopulate == TablesWritten /\ Populate => TablesWritten'
<1> SUFFICES ASSUME TablesWritten, Populate PROVE TablesWritten'
  OBVIOUS
<1>f. /\ program' = program /\ r' = r /\ test' = test
      /\ it' = it /\ expired' = expired /\ mesures' = mesures
      /\ coeff' = coeff /\ W' = W /\ Wi' = Wi /\ Ddbl' = Ddbl /\ S' = S /\ Didbl' = Didbl
  BY DEF Populate, tables, doubles, measures
<1>0. n' = n /\ All' = All /\ \A y : RowPlaces(y)' = RowPlaces(y)
  BY <1>f, Same
<1>s. n \in Nat \ {0} /\ n * n \in Nat
  BY SizeOfTable DEF TablesWritten
<1>p. Places /\ Counter /\ Repetitions /\ Inside /\ WalshTables /\ CosineTables
  BY DEF TablesWritten
<1>d. /\ pc = "populate" /\ program = "wscoeff_s"
      /\ \/ /\ k # 4 * n * n /\ k' = k + 4 /\ pc' = pc /\ DOMAIN D' = {k \div 4} \cup DOMAIN D
         \/ k = 4 * n * n /\ k' = 0 /\ D' = D /\ pc' = "coeff"
  BY <1>p DEF Populate, Store, Places
<1>m. PICK m \in 0 .. n * n : k = 4 * m
  BY <1>p, <1>d DEF Counter
<1>k. /\ k \div 4 = m
      /\ k # 4 * n * n => m \in All /\ k + 4 = 4 * (m + 1) /\ m + 1 \in 0 .. n * n
      /\ k = 4 * n * n => m = n * n
  <2>1. 4 * n * n = 4 * (n * n)
    BY <1>s
  <2> QED
    BY <1>m, <1>s, <2>1 DEF All
<1>j. \E j \in 0 .. n * n : k' = 4 * j
  <2>1. CASE k = 4 * n * n
    <3>1. 0 \in 0 .. n * n /\ k' = 4 * 0
      BY <1>s, <1>d, <1>m, <1>k, <2>1
    <3> QED
      BY <3>1
  <2>2. CASE k # 4 * n * n
    BY <1>d, <1>k, <2>2
  <2> QED
    BY <2>1, <2>2
<1>c. k = 4 * n * n => Complete(D)
  <2> SUFFICES ASSUME k = 4 * n * n, NEW x \in All PROVE x \in DOMAIN D
    BY <1>p DEF Inside, Complete
  <2>1. Words(D)
    BY <1>p, <1>d DEF WalshTables
  <2>2. PICK N \in Nat : N = n * n
    BY <1>s
  <2>3. x \in 0 .. N - 1 /\ k = 4 * N
    BY <2>2, <1>m, <1>k DEF All
  <2> QED
    BY <2>1, <2>3 DEF Words
<1>n. k # 4 * n * n => Words(D)'
  <2> SUFFICES ASSUME k # 4 * n * n PROVE Words(D)'
    OBVIOUS
  <2>1. Words(D)
    BY <1>p, <1>d DEF WalshTables
  <2>2. \A x \in All : 4 * x < k + 4 => x = m \/ 4 * x < k
    BY <1>m, <1>s DEF All
  <2> QED
    BY <2>1, <2>2, <1>d, <1>k, <1>0 DEF Words
<1>z. pc' = "coeff" => Words(coeff)'
  BY <1>d, <1>0, <1>s DEF Words, All
<1>1. Places'
  BY <1>p, <1>f, <1>d, <1>0 DEF Places, dim_max_2D
<1>2. Counter'
  BY <1>p, <1>f, <1>d, <1>0, <1>s, <1>j, <1>m, <1>k DEF Places, Counter, HasTable
<1>3. Repetitions'
  BY <1>p, <1>f, <1>d, BoundsAssumption DEF Places, Repetitions
<1>4. Inside'
  BY <1>p, <1>f, <1>d, <1>0, <1>k DEF Inside
<1>5. WalshTables'
  BY <1>p, <1>f, <1>d, <1>0, <1>s, <1>m, <1>c, <1>n, <1>z
     DEF Places, Counter, Inside, WalshTables, Numbers, Rows, Words, Complete, HasTable,
         RowFilled
<1>6. CosineTables'
  BY <1>p, <1>f, <1>d, <1>0, <1>s
     DEF Places, Counter, Inside, CosineTables, Numbers, Rows, Complete
<1> QED
  BY <1>1, <1>2, <1>3, <1>4, <1>5, <1>6 DEF TablesWritten

(* The same for its coefficients.                                          *)
LEMMA KeepsMipsCoeff == TablesWritten /\ MipsCoeff => TablesWritten'
<1> SUFFICES ASSUME TablesWritten, MipsCoeff PROVE TablesWritten'
  OBVIOUS
<1>f. /\ program' = program /\ r' = r /\ test' = test
      /\ it' = it /\ expired' = expired /\ mesures' = mesures
      /\ D' = D /\ W' = W /\ Wi' = Wi /\ Ddbl' = Ddbl /\ S' = S /\ Didbl' = Didbl
  BY DEF MipsCoeff, tables, doubles, measures
<1>0. n' = n /\ All' = All /\ \A y : RowPlaces(y)' = RowPlaces(y)
  BY <1>f, Same
<1>s. n \in Nat \ {0} /\ n * n \in Nat
  BY SizeOfTable DEF TablesWritten
<1>p. Places /\ Counter /\ Repetitions /\ Inside /\ WalshTables /\ CosineTables
  BY DEF TablesWritten
<1>d. /\ pc = "coeff" /\ program = "wscoeff_s"
      /\ \/ /\ k # 4 * n * n /\ k' = k + 4 /\ pc' = pc /\ DOMAIN coeff' = {k \div 4} \cup DOMAIN coeff
         \/ k = 4 * n * n /\ k' = 0 /\ coeff' = coeff /\ pc' = "walsh"
  BY <1>p DEF MipsCoeff, Store, Places
<1>m. PICK m \in 0 .. n * n : k = 4 * m
  BY <1>p, <1>d DEF Counter
<1>k. /\ k \div 4 = m
      /\ k # 4 * n * n => m \in All /\ k + 4 = 4 * (m + 1) /\ m + 1 \in 0 .. n * n
      /\ k = 4 * n * n => m = n * n
  <2>1. 4 * n * n = 4 * (n * n)
    BY <1>s
  <2> QED
    BY <1>m, <1>s, <2>1 DEF All
<1>j. \E j \in 0 .. n * n : k' = 4 * j
  <2>1. CASE k = 4 * n * n
    <3>1. 0 \in 0 .. n * n /\ k' = 4 * 0
      BY <1>s, <1>d, <1>m, <1>k, <2>1
    <3> QED
      BY <3>1
  <2>2. CASE k # 4 * n * n
    BY <1>d, <1>k, <2>2
  <2> QED
    BY <2>1, <2>2
<1>c. k = 4 * n * n => Complete(coeff)
  <2> SUFFICES ASSUME k = 4 * n * n, NEW x \in All PROVE x \in DOMAIN coeff
    BY <1>p DEF Inside, Complete
  <2>1. Words(coeff)
    BY <1>p, <1>d DEF WalshTables
  <2>2. PICK N \in Nat : N = n * n
    BY <1>s
  <2>3. x \in 0 .. N - 1 /\ k = 4 * N
    BY <2>2, <1>m, <1>k DEF All
  <2> QED
    BY <2>1, <2>3 DEF Words
<1>n. k # 4 * n * n => Words(coeff)'
  <2> SUFFICES ASSUME k # 4 * n * n PROVE Words(coeff)'
    OBVIOUS
  <2>1. Words(coeff)
    BY <1>p, <1>d DEF WalshTables
  <2>2. \A x \in All : 4 * x < k + 4 => x = m \/ 4 * x < k
    BY <1>m, <1>s DEF All
  <2> QED
    BY <2>1, <2>2, <1>d, <1>k, <1>0 DEF Words
<1>1. Places'
  BY <1>p, <1>f, <1>d, <1>0 DEF Places, dim_max_2D
<1>2. Counter'
  BY <1>p, <1>f, <1>d, <1>0, <1>s, <1>j, <1>m, <1>k DEF Places, Counter, HasTable
<1>3. Repetitions'
  BY <1>p, <1>f, <1>d, BoundsAssumption DEF Places, Repetitions
<1>4. Inside'
  BY <1>p, <1>f, <1>d, <1>0, <1>k DEF Inside
<1>5. WalshTables'
  BY <1>p, <1>f, <1>d, <1>0, <1>s, <1>m, <1>c, <1>n
     DEF Places, Counter, Inside, WalshTables, Numbers, Rows, Words, Complete, HasTable,
         RowFilled
<1>6. CosineTables'
  BY <1>p, <1>f, <1>d, <1>0, <1>s
     DEF Places, Counter, Inside, CosineTables, Numbers, Rows, Complete
<1> QED
  BY <1>1, <1>2, <1>3, <1>4, <1>5, <1>6 DEF TablesWritten

(* The same for its sums.                                                  *)
LEMMA KeepsMipsSum == TablesWritten /\ MipsSum => TablesWritten'
<1> SUFFICES ASSUME TablesWritten, MipsSum PROVE TablesWritten'
  OBVIOUS
<1>f. /\ program' = program /\ r' = r /\ test' = test
      /\ it' = it /\ expired' = expired /\ mesures' = mesures
      /\ D' = D /\ coeff' = coeff /\ Wi' = Wi /\ Ddbl' = Ddbl /\ S' = S /\ Didbl' = Didbl
  BY DEF MipsSum, tables, doubles, measures
<1>0. n' = n /\ All' = All /\ \A y : RowPlaces(y)' = RowPlaces(y)
  BY <1>f, Same
<1>s. n \in Nat \ {0} /\ n * n \in Nat
  BY SizeOfTable DEF TablesWritten
<1>p. Places /\ Counter /\ Repetitions /\ Inside /\ WalshTables /\ CosineTables
  BY DEF TablesWritten
<1>d. /\ pc = "walsh" /\ program = "wscoeff_s"
      /\ \/ /\ k # 4 * n * n /\ k' = k + 4 /\ pc' = pc /\ DOMAIN W' = {k \div 4} \cup DOMAIN W
         \/ k = 4 * n * n /\ k' = k /\ W' = W /\ pc' = "end"
  BY <1>p DEF MipsSum, Store, Places
<1>m. PICK m \in 0 .. n * n : k = 4 * m
  BY <1>p, <1>d DEF Counter
<1>k. /\ k \div 4 = m
      /\ k # 4 * n * n => m \in All /\ k + 4 = 4 * (m + 1) /\ m + 1 \in 0 .. n * n
      /\ k = 4 * n * n => m = n * n
  <2>1. 4 * n * n = 4 * (n * n)
    BY <1>s
  <2> QED
    BY <1>m, <1>s, <2>1 DEF All
<1>j. \E j \in 0 .. n * n : k' = 4 * j
  <2>1. CASE k = 4 * n * n
    <3>1. n * n \in 0 .. n * n /\ k' = 4 * (n * n)
      BY <1>s, <1>d, <1>m, <1>k, <2>1
    <3> QED
      BY <3>1
  <2>2. CASE k # 4 * n * n
    BY <1>d, <1>k, <2>2
  <2> QED
    BY <2>1, <2>2
<1>1. Places'
  BY <1>p, <1>f, <1>d, <1>0 DEF Places, dim_max_2D
<1>2. Counter'
  BY <1>p, <1>f, <1>d, <1>0, <1>s, <1>j, <1>m, <1>k DEF Places, Counter, HasTable
<1>3. Repetitions'
  BY <1>p, <1>f, <1>d, BoundsAssumption DEF Places, Repetitions
<1>4. Inside'
  BY <1>p, <1>f, <1>d, <1>0, <1>k DEF Inside
<1>5. WalshTables'
  BY <1>p, <1>f, <1>d, <1>0, <1>s, <1>m
     DEF Places, Counter, Inside, WalshTables, Numbers, Rows, Words, Complete, HasTable,
         RowFilled
<1>6. CosineTables'
  BY <1>p, <1>f, <1>d, <1>0, <1>s
     DEF Places, Counter, Inside, CosineTables, Numbers, Rows, Complete
<1> QED
  BY <1>1, <1>2, <1>3, <1>4, <1>5, <1>6 DEF TablesWritten

-----------------------------------------------------------------------------
(* The theorem. *)

(* Nothing is written in the beginning, and nothing claimed to be.         *)
LEMMA NothingWritten == Init => TablesWritten
<1> SUFFICES ASSUME Init PROVE TablesWritten
  OBVIOUS
<1>1. Places
  BY DEF Init, Places, Programs
<1>s. n \in Nat \ {0} /\ n * n \in Nat
  BY <1>1, SizeOfTable
<1>2. Counter
  <2>1. \E m \in 0 .. n * n : k = 4 * m
    <3>1. 0 \in 0 .. n * n /\ k = 4 * 0
      BY <1>s DEF Init
    <3> QED
      BY <3>1
  <2> QED
    BY <1>s, <2>1 DEF Init, Counter
<1>3. Repetitions
  BY DEF Init, Repetitions
<1>4. Inside
  BY DEF Init, Inside, Unwritten
<1>5. WalshTables
  BY <1>s DEF Init, WalshTables, Words, All
<1>6. CosineTables
  BY DEF Init, CosineTables
<1> QED
  BY <1>1, <1>2, <1>3, <1>4, <1>5, <1>6 DEF TablesWritten

LEMMA KeepsUnchanged == TablesWritten /\ UNCHANGED vars => TablesWritten'
<1> SUFFICES ASSUME TablesWritten, UNCHANGED vars PROVE TablesWritten'
  OBVIOUS
<1>1. /\ program' = program /\ r' = r /\ pc' = pc /\ test' = test /\ k' = k
      /\ it' = it /\ expired' = expired /\ mesures' = mesures
      /\ D' = D /\ coeff' = coeff /\ W' = W /\ Wi' = Wi
      /\ Ddbl' = Ddbl /\ S' = S /\ Didbl' = Didbl
  BY DEF vars, tables, doubles, measures
<1>2. n' = n /\ All' = All /\ \A y : RowPlaces(y)' = RowPlaces(y) /\ RowFilled(y)' = RowFilled(y)
  BY <1>1, Same DEF RowFilled
<1>3. Places' /\ Counter' /\ Repetitions' /\ Inside'
  BY <1>1, <1>2 DEF TablesWritten, Places, Counter, Repetitions, Inside, HasTable
<1>4. WalshTables' /\ CosineTables'
  BY <1>1, <1>2
     DEF TablesWritten, WalshTables, CosineTables, Numbers, Rows, Words, Complete, HasTable
<1> QED
  BY <1>3, <1>4 DEF TablesWritten

(* How far the tables are written is known at every place of a program.    *)
LEMMA TablesWrittenInvariant == Spec => []TablesWritten
<1>1. TablesWritten /\ [Next]_vars => TablesWritten'
  <2> SUFFICES ASSUME TablesWritten, [Next]_vars PROVE TablesWritten'
    OBVIOUS
  <2>1. CASE genere_ran_D \/ genere_ran_double_D
    BY <2>1, Keepsgenere_ran_D, Keepsgenere_ran_double_D
  <2>2. CASE Walsh_2D_base
    BY <2>2, KeepsTableCorrige, KeepsTableHadamard, KeepsTableGray, KeepsNoTable, KeepsSumRow,
       KeepsWalshReturns
       DEF Walsh_2D_base
  <2>3. CASE Scale \/ Convert \/ Cosines
    BY <2>3, KeepsScale, KeepsConvert, KeepsCosineRow, KeepsCosineReturns DEF Cosines
  <2>4. CASE BeginRepetitions \/ Repeat \/ RepeatDCT \/ MeasureWalsh \/ MeasureDCT
    BY <2>4, KeepsBeginRepetitions, KeepsRepeat, KeepsRepeatDCT, KeepsMeasureWalsh, KeepsMeasureDCT
  <2>5. CASE Mips
    BY <2>5, KeepsPopulate, KeepsMipsCoeff, KeepsMipsSum DEF Mips
  <2>6. CASE Arguments \/ Dimension \/ affiche_resultats
    BY <2>6, KeepsArguments, KeepsDimension, Keepsaffiche_resultats
  <2>7. CASE UNCHANGED vars
    BY <2>7, KeepsUnchanged
  <2> QED
    BY <2>1, <2>2, <2>3, <2>4, <2>5, <2>6, <2>7
       DEF Next, faire_un_test, faire_N_test, Transforms
<1> QED
  BY <1>1, NothingWritten, PTL DEF Spec

(* No coefficient and no number is read before it was written, in all five *)
(* programs and for all sizes: also in the program that fills the rows of  *)
(* its table in the order of reverse_gray_to_binary.  What affiche_resultats*)
(* prints was measured.                                                    *)
THEOREM TypeCorrect == Spec => []TypeOK
<1>1. TablesWritten /\ InWord(rv) => TypeOK
  <2> SUFFICES ASSUME TablesWritten, InWord(rv) PROVE TypeOK
    OBVIOUS
  <2>p. Places /\ Counter /\ Repetitions /\ Inside /\ WalshTables /\ CosineTables
    BY DEF TablesWritten
  <2>1. program \in Programs /\ r \in Sizes /\ test \in {"un", "N"} /\ expired \in BOOLEAN
    BY <2>p DEF Places, Repetitions
  <2>2. rv \in -(Word \div 2) .. Word \div 2 - 1
    BY DEF InWord
  <2>3. it \in 0 .. (NwalMax + NdctMax + 1)
    BY <2>p, BoundsAssumption DEF Places, Repetitions
  <2>4. \A i \in 1 .. 4 : DOMAIN tables[i] \subseteq All
    BY <2>p DEF Inside, tables
  <2>5. \A i \in 1 .. 3 : DOMAIN doubles[i] \subseteq All
    BY <2>p DEF Inside, doubles
  <2>6. /\ pc \in {"walsh", "inverse"} => DOMAIN D = All /\ (program # "perfWalshDCT" => DOMAIN coeff = All)
        /\ pc \in {"coeff_i", "inverse"} => DOMAIN W = All
        /\ pc \in {"convert", "nouvelle"} => DOMAIN Wi = All
    BY <2>p DEF WalshTables, Complete, HasTable
  <2>7. /\ pc \in {"dct", "dcti"} => DOMAIN Ddbl = All
        /\ pc \in {"dcti", "nouvelle_dbl"} => DOMAIN S = All
    BY <2>p DEF CosineTables, Complete
  <2>8. pc = "results" => mesures.niterWbase \in 0 .. NwalMax /\ mesures.niterDCT \in 0 .. NdctMax
    BY <2>p DEF Places, Repetitions
  <2> QED
    BY <2>1, <2>2, <2>3, <2>4, <2>5, <2>6, <2>7, <2>8 DEF TypeOK
<1> QED
  BY <1>1, TablesWrittenInvariant, GeneratorInWord, PTL
=============================================================================
