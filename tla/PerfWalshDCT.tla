---------------------------- MODULE PerfWalshDCT ----------------------------
(***************************************************************************)
(* The programs of APP1.  The four C++ programs transform a table of       *)
(* n x n numbers by the Walsh functions and by cosines, transform the      *)
(* results back, and then repeat this on new numbers to measure it; they   *)
(* differ in the numbers of genere_ran_D and in how Walsh_2D_base gets its *)
(* coefficients.  wscoeff.s is the first part in MIPS assembly.            *)
(***************************************************************************)
EXTENDS Walsh, Cosine, Genrand

CONSTANTS
  Sizes,      (* the values of kr considered                               *)
  NwalMax,    (* the bounds of the repetitions                             *)
  NdctMax

ASSUME BoundsAssumption ==
  /\ Sizes \subseteq 1 .. 15
  /\ NwalMax \in Nat /\ NdctMax \in Nat

Programs ==
  {"perfWalshDCT", "perfWalshDCT_Corrige", "const_perfWalshDCT_Corrige_2",
   "const_perfWalshDCT_Corrige", "wscoeff_s"}

dim_max_2D == 4096

VARIABLES
  program,  (* the program that runs                                       *)
  r,        (* its kr                                                      *)
  pc,       (* the place of the program                                    *)
  test,     (* "un" or "N": the function it is in                          *)
  k,        (* the counter of the loop it is in                            *)
  rv,       (* the state of the generator                                  *)
  D, coeff, W, Wi,  (* the tables, as far as they were written             *)
  Ddbl, S, Didbl,   (* those of the doubles                                *)
  it,       (* the counter of the repetitions                              *)
  expired,  (* the time spent in them reached Tmax                         *)
  mesures   (* niterWbase and niterDCT, -1 before they are written         *)

tables == <<D, coeff, W, Wi>>
doubles == <<Ddbl, S, Didbl>>
measures == <<it, expired, mesures>>
vars == <<program, r, pc, test, k, rv, tables, doubles, measures>>

n == 2 ^ r
All == 0 .. n * n - 1
Unwritten == [x \in {} |-> 0]
RowPlaces(y) == y * n .. y * n + n - 1

(* A table after numbers were stored at these places.                      *)
Store(table, places, value(_)) ==
  [x \in places \cup DOMAIN table |-> IF x \in places THEN value(x) ELSE table[x]]

Init ==
  /\ program \in Programs
  /\ r \in Sizes
  /\ program = "wscoeff_s" => n * n <= dim_max_2D   (* a bound of the model *)
  /\ pc = IF program = "wscoeff_s" THEN "populate" ELSE "main"
  /\ test = "un"
  /\ k = 0
  /\ rv = Seed
  /\ D = Unwritten /\ coeff = Unwritten /\ W = Unwritten /\ Wi = Unwritten
  /\ Ddbl = Unwritten /\ S = Unwritten /\ Didbl = Unwritten
  /\ it = 0
  /\ expired = FALSE
  /\ mesures = [niterWbase |-> -1, niterDCT |-> -1]

-----------------------------------------------------------------------------
(* main and the beginning of faire_un_test: too many arguments or too      *)
(* large a table end the program.                                          *)

Arguments ==
  /\ pc = "main"
  /\ pc' \in {"failed", "dimension"}
  /\ UNCHANGED <<program, r, test, k, rv, tables, doubles, measures>>

Dimension ==
  /\ pc = "dimension"
  /\ pc' = IF n * n > dim_max_2D THEN "failed" ELSE "premier"
  /\ UNCHANGED <<program, r, test, k, rv, tables, doubles, measures>>

-----------------------------------------------------------------------------
(* genere_ran_D and genere_ran_double_D, one number at a time, and the     *)
(* place after each of their calls.                                        *)

increment == CASE program = "const_perfWalshDCT_Corrige_2" -> 100
               [] program = "const_perfWalshDCT_Corrige" -> 1
               [] OTHER -> 0   (* the others draw                          *)

AfterDraw == [premier |-> "second", second |-> "coeff", initiale |-> "repeat",
              nouvelle |-> "measure"]
AfterDrawDouble == [initiale_dbl |-> "repeat_dct", nouvelle_dbl |-> "measure_dct"]

DrawnNumber ==
  /\ rv' = genrand_v32(rv)
  /\ D' = Store(D, {k}, LAMBDA x : HighHalf(rv'))

(* The two "const" programs count instead.                                 *)
CountedNumber ==
  /\ D' = Store(D, {k}, LAMBDA x : 1 + increment * x)
  /\ UNCHANGED rv

genere_ran_D ==
  /\ pc \in DOMAIN AfterDraw
  /\ \/ /\ k < n * n
        /\ IF increment = 0 THEN DrawnNumber ELSE CountedNumber
        /\ k' = k + 1 /\ UNCHANGED pc
     \/ /\ k = n * n
        /\ pc' = AfterDraw[pc]
        /\ k' = 0 /\ UNCHANGED <<D, rv>>
  /\ UNCHANGED <<program, r, test, coeff, W, Wi, doubles, measures>>

genere_ran_double_D ==
  /\ pc \in DOMAIN AfterDrawDouble
  /\ \/ /\ k < n * n
        /\ rv' = genrand_v32(rv)
        /\ Ddbl' = Store(Ddbl, {k}, LAMBDA x : HighHalf(rv'))
        /\ k' = k + 1 /\ UNCHANGED pc
     \/ /\ k = n * n
        /\ pc' = AfterDrawDouble[pc]
        /\ k' = 0 /\ UNCHANGED <<Ddbl, rv>>
  /\ UNCHANGED <<program, r, test, tables, S, Didbl, measures>>

-----------------------------------------------------------------------------
(* Walsh_2D_base of the four programs: the table of coefficients.  *)

(* Two calls of Walsh_2D_base, on D into W and on W into Wi.               *)
AtTable == pc \in {"coeff", "coeff_i"}

NextRow ==
  /\ k < n
  /\ k' = k + 1
  /\ UNCHANGED <<program, r, pc, test, rv, D, W, Wi, doubles, measures>>

TableComplete ==
  /\ k = n
  /\ pc' = IF pc = "coeff" THEN "walsh" ELSE "inverse"
  /\ k' = 0
  /\ UNCHANGED <<program, r, test, rv, tables, doubles, measures>>

TableCorrige ==
  /\ AtTable /\ program = "perfWalshDCT_Corrige"
  /\ \/ NextRow /\ coeff' = Store(coeff, RowPlaces(k), LAMBDA yx : wscoeff(yx % n, k, r))
     \/ TableComplete

TableHadamard ==
  /\ AtTable /\ program = "const_perfWalshDCT_Corrige_2"
  /\ \/ /\ NextRow
        /\ LET hada == cwh(r)
               row == reverse_gray_to_binary(k, r)
           IN coeff' = Store(coeff, RowPlaces(row), LAMBDA yx : hada[k * n + (yx % n)])
     \/ TableComplete

TableGray ==
  /\ AtTable /\ program = "const_perfWalshDCT_Corrige"
  /\ \/ /\ NextRow
        /\ coeff' = Store(coeff, RowPlaces(k),
             LAMBDA yx : wscoeff_hadamard(binary_to_gray_reverse(yx % n, r), k, r))
     \/ TableComplete

(* perfWalshDCT has no table.                                              *)
NoTable ==
  /\ AtTable /\ program = "perfWalshDCT"
  /\ pc' = IF pc = "coeff" THEN "walsh" ELSE "inverse"
  /\ UNCHANGED <<program, r, test, k, rv, tables, doubles, measures>>

Coefficient(u, x) == IF program = "perfWalshDCT" THEN wscoeff(u, x, r) ELSE coeff[u * n + x]

(* The sum for W[uv] with uv = v * n + u, in an int: what wraps on the way *)
(* wraps back if the sum fits.                                             *)
Sum(table, uv) ==
  Wrap(MapThenSumSet(LAMBDA xy : table[xy] * Coefficient(uv % n, xy % n) * Coefficient(uv \div n, xy \div n),
                     All))

(* Mutation of SumRow: the inner counter is incremented in place of k.     *)
SumRowAgain ==
  /\ pc \in {"walsh", "inverse"} /\ program # "wscoeff_s"
  /\ k < n
  /\ IF pc = "walsh"
       THEN W' = Store(W, RowPlaces(k), LAMBDA uv : Sum(D, uv)) /\ UNCHANGED Wi
       ELSE Wi' = Store(Wi, RowPlaces(k), LAMBDA uv : Sum(W, uv)) /\ UNCHANGED W
  /\ UNCHANGED <<program, r, pc, test, k, rv, D, coeff, doubles, measures>>

(* The rows of the result, one at a time.                                  *)
SumRow ==
  /\ pc \in {"walsh", "inverse"} /\ program # "wscoeff_s"
  /\ k < n
  /\ k' = k + 1
  /\ IF pc = "walsh"
       THEN W' = Store(W, RowPlaces(k), LAMBDA uv : Sum(D, uv)) /\ UNCHANGED Wi
       ELSE Wi' = Store(Wi, RowPlaces(k), LAMBDA uv : Sum(W, uv)) /\ UNCHANGED W
  /\ UNCHANGED <<program, r, pc, test, rv, D, coeff, doubles, measures>>

(* Walsh_2D_base returns; its table is on the stack.                       *)
WalshReturns ==
  /\ pc \in {"walsh", "inverse"} /\ program # "wscoeff_s"
  /\ k = n
  /\ k' = 0
  /\ coeff' = Unwritten
  /\ pc' = IF pc = "walsh" THEN "coeff_i" ELSE "scale"
  /\ UNCHANGED <<program, r, test, rv, D, W, Wi, doubles, measures>>

(* Mutation of Scale: the result is divided by n only.                     *)
ScaleByN ==
  /\ pc = "scale"
  /\ Wi' = [xy \in DOMAIN Wi |-> Wi[xy] \div 2 ^ r]
  /\ pc' = IF test = "un" THEN "convert" ELSE "nouvelle"
  /\ UNCHANGED <<program, r, test, k, rv, D, coeff, W, doubles, measures>>

(* Wi[k] >> (2*r)                                                          *)
Scale ==
  /\ pc = "scale"
  /\ Wi' = [xy \in DOMAIN Wi |-> Wi[xy] \div 2 ^ (2 * r)]
  /\ pc' = IF test = "un" THEN "convert" ELSE "nouvelle"
  /\ UNCHANGED <<program, r, test, k, rv, D, coeff, W, doubles, measures>>

-----------------------------------------------------------------------------
(* The cosine transform and its inverse, row by row. *)

Convert ==
  /\ pc = "convert"
  /\ Ddbl' = D
  /\ pc' = "dct"
  /\ UNCHANGED <<program, r, test, k, rv, tables, S, Didbl, measures>>

CosineRow ==
  /\ pc \in {"dct", "dcti"} /\ k < n
  /\ IF pc = "dct"
       THEN /\ S' = Store(S, RowPlaces(k), LAMBDA vu : DCT_2D_base(Ddbl, vu % n, k, n))
            /\ UNCHANGED Didbl
       ELSE /\ Didbl' = Store(Didbl, RowPlaces(k), LAMBDA xy : DCT_2D_basei(S, xy % n, k, n))
            /\ UNCHANGED S
  /\ k' = k + 1
  /\ UNCHANGED <<program, r, pc, test, rv, tables, Ddbl, measures>>

CosineReturns ==
  /\ pc \in {"dct", "dcti"} /\ k = n
  /\ pc' = CASE pc = "dct" -> "dcti"
             [] pc = "dcti" /\ test = "un" -> "returned"
             [] OTHER -> "nouvelle_dbl"
  /\ k' = 0
  /\ UNCHANGED <<program, r, test, rv, tables, doubles, measures>>

-----------------------------------------------------------------------------
(* faire_N_test: tables of its own, and the generator from the start.      *)
BeginRepetitions ==
  /\ pc = "returned"
  /\ test' = "N"
  /\ rv' = Seed
  /\ D' = Unwritten /\ W' = Unwritten /\ Wi' = Unwritten
  /\ Ddbl' = Unwritten /\ S' = Unwritten /\ Didbl' = Unwritten
  /\ pc' = "initiale"
  /\ UNCHANGED <<program, r, k, coeff, measures>>

(* The test of a loop, and what it leaves behind for the next one.         *)
Again(max, body, after) ==
  /\ IF it <= max /\ ~expired
       THEN pc' = body /\ UNCHANGED <<it, expired>>
       ELSE pc' = after /\ it' = 0 /\ expired' = FALSE
  /\ UNCHANGED <<program, r, test, k, rv, tables, doubles, mesures>>

Repeat == pc = "repeat" /\ Again(NwalMax, "coeff", "initiale_dbl")
RepeatDCT == pc = "repeat_dct" /\ Again(NdctMax, "dct", "results")

(* The time is read, the number of the repetition kept.                    *)
Measure(measured) ==
  /\ expired' \in BOOLEAN
  /\ mesures' = measured
  /\ it' = it + 1
  /\ UNCHANGED <<program, r, test, k, rv, tables, doubles>>

MeasureWalsh ==
  /\ pc = "measure" /\ pc' = "repeat"
  /\ Measure([mesures EXCEPT !.niterWbase = it])

MeasureDCT ==
  /\ pc = "measure_dct" /\ pc' = "repeat_dct"
  /\ Measure([mesures EXCEPT !.niterDCT = it])

affiche_resultats ==
  /\ pc = "results"
  /\ pc' = "end"
  /\ UNCHANGED <<program, r, test, k, rv, tables, doubles, measures>>

-----------------------------------------------------------------------------
(* wscoeff.s: its counters count bytes, four for a number. *)

Populate ==
  /\ pc = "populate"
  /\ IF k = 4 * n * n
       THEN pc' = "coeff" /\ k' = 0 /\ UNCHANGED D
       ELSE D' = Store(D, {k \div 4}, LAMBDA x : 1 + 100 * x) /\ k' = k + 4 /\ UNCHANGED pc
  /\ UNCHANGED <<program, r, test, rv, coeff, W, Wi, doubles, measures>>

(* Mutation of MipsCoeff: the loop counts numbers where it adds bytes.     *)
MipsCoeffShort ==
  /\ pc = "coeff" /\ program = "wscoeff_s"
  /\ IF k = n * n
       THEN pc' = "walsh" /\ k' = 0 /\ UNCHANGED coeff
       ELSE /\ coeff' = Store(coeff, {k \div 4}, LAMBDA yx : wscoeff_s(yx \div n, yx % n, r))
            /\ k' = k + 4
            /\ UNCHANGED pc
  /\ UNCHANGED <<program, r, test, rv, D, W, Wi, doubles, measures>>

MipsCoeff ==
  /\ pc = "coeff" /\ program = "wscoeff_s"
  /\ IF k = 4 * n * n
       THEN pc' = "walsh" /\ k' = 0 /\ UNCHANGED coeff
       ELSE /\ coeff' = Store(coeff, {k \div 4}, LAMBDA yx : wscoeff_s(yx \div n, yx % n, r))
            /\ k' = k + 4
            /\ UNCHANGED pc
  /\ UNCHANGED <<program, r, test, rv, D, W, Wi, doubles, measures>>

(* One number of the result per step: the inner loop, whose counter of     *)
(* bytes covers the same range as the outer one's, is the sum.  The        *)
(* instruction add would trap on an overflow, which no sum here comes near.*)
MipsSum ==
  /\ pc = "walsh" /\ program = "wscoeff_s"
  /\ IF k = 4 * n * n
       THEN pc' = "end" /\ UNCHANGED <<k, W>>
       ELSE W' = Store(W, {k \div 4}, LAMBDA uv : Sum(D, uv)) /\ k' = k + 4 /\ UNCHANGED pc
  /\ UNCHANGED <<program, r, test, rv, D, coeff, Wi, doubles, measures>>

-----------------------------------------------------------------------------
Walsh_2D_base == TableCorrige \/ TableHadamard \/ TableGray \/ NoTable \/ SumRow \/ WalshReturns
Cosines == CosineRow \/ CosineReturns
Transforms == genere_ran_D \/ Walsh_2D_base \/ Scale \/ Cosines

faire_un_test == test = "un" /\ (Dimension \/ Transforms \/ Convert)

faire_N_test ==
  \/ BeginRepetitions
  \/ test = "N" /\ (Transforms \/ genere_ran_double_D)
  \/ Repeat \/ RepeatDCT \/ MeasureWalsh \/ MeasureDCT

Mips == Populate \/ MipsCoeff \/ MipsSum

Next == Arguments \/ faire_un_test \/ faire_N_test \/ affiche_resultats \/ Mips

Spec == Init /\ [][Next]_vars /\ WF_vars(Next)

-----------------------------------------------------------------------------
(* The Walsh functions in order of sequency, by the recursion that doubles *)
(* their number: function 2j + p repeats function j, with the other sign   *)
(* in the second half when j + p is odd.                                   *)
Wal ==
  LET wal[s \in 0 .. 6] ==
        IF s = 0 THEN [u \in {0} |-> [x \in {0} |-> 1]]
        ELSE LET half == 2 ^ (s - 1)
             IN [u \in 0 .. 2 * half - 1 |-> [x \in 0 .. 2 * half - 1 |->
                  IF x < half THEN wal[s - 1][u \div 2][x]
                  ELSE Sign(u \div 2 + u) * wal[s - 1][u \div 2][x - half]]]
  IN [s \in Sizes |-> wal[s]]

(* Properties. *)

(* No coefficient and no number is read before it was written: the tables  *)
(* are complete where they are used, and the measures when they are        *)
(* printed.                                                                *)
TypeOK ==
  /\ program \in Programs
  /\ r \in Sizes
  /\ test \in {"un", "N"}
  /\ rv \in -(Word \div 2) .. Word \div 2 - 1
  /\ it \in 0 .. (NwalMax + NdctMax + 1)
  /\ expired \in BOOLEAN
  /\ \A i \in 1 .. 4 : DOMAIN tables[i] \subseteq All
  /\ \A i \in 1 .. 3 : DOMAIN doubles[i] \subseteq All
  /\ pc \in {"walsh", "inverse"} => DOMAIN D = All /\ (program # "perfWalshDCT" => DOMAIN coeff = All)
  /\ pc \in {"coeff_i", "inverse"} => DOMAIN W = All
  /\ pc \in {"convert", "nouvelle"} => DOMAIN Wi = All
  /\ pc \in {"dct", "dcti"} => DOMAIN Ddbl = All
  /\ pc \in {"dcti", "nouvelle_dbl"} => DOMAIN S = All
  /\ pc = "results" => mesures.niterWbase \in 0 .. NwalMax /\ mesures.niterDCT \in 0 .. NdctMax

(* Every program computes the Walsh transform of its numbers, and the      *)
(* coefficients are in the order that the comments of wscoeff and cwh call *)
(* sequential.                                                             *)
TransformOfD ==
  pc = "coeff_i" \/ (pc = "end" /\ program = "wscoeff_s") =>
    \A uv \in All :
      W[uv] = MapThenSumSet(LAMBDA xy : D[xy] * Wal[r][uv % n][xy % n] * Wal[r][uv \div n][xy \div n], All)

(* The transform of the transform, divided by n * n, is what was           *)
(* transformed: nothing is lost in the division, and no sum is too large   *)
(* for an int.                                                             *)
InverseRestores ==
  pc = "convert" \/ (pc = "nouvelle" /\ k = 0) => Wi = D

(* DCT_2D_basei is the inverse of DCT_2D_base: with exact arithmetic the   *)
(* numbers are back, in the units of Cosine.                               *)
CosineInverseRestores ==
  pc = "returned" \/ (pc = "nouvelle_dbl" /\ k = 0) =>
    \A xy \in All : Didbl[xy] = Number(64 * n * n * Ddbl[xy], n)

(* The generator never comes to a number that it maps to itself, as 0 is,  *)
(* from which on all numbers drawn would be the same.                      *)
NeverStuck == genrand_v32(rv) # rv

(* "Nombre de fois maximum que le calcul (Walsh) est repete"               *)
(* (perfWalshDCT.cpp:36): after it repetitions the loop is at its test.    *)
RepeatedAtMostMax ==
  /\ pc = "repeat" => it <= NwalMax
  /\ pc = "repeat_dct" => it <= NdctMax

(* The repetitions end, also when the time does not pass.                  *)
Terminates == <>(pc \in {"end", "failed"})
=============================================================================
