------------------------- MODULE PerfWalshInvariants -------------------------
(***************************************************************************)
(* The inductive invariant of PerfWalshDCT from which its type correctness *)
(* follows: how far the tables were written at every place of a program.   *)
(***************************************************************************)
EXTENDS PerfWalshDCT

Filling == {"coeff", "coeff_i"}
Summing == {"walsh", "inverse"}
CosineLoops == {"dct", "dcti"}
Before == {"main", "dimension", "premier", "second", "populate"}
OnePlaces == Before \cup {"convert", "returned", "failed"}
Drawing == DOMAIN AfterDraw
DrawingDouble == DOMAIN AfterDrawDouble
Repetition == {"measure", "nouvelle"}
RepetitionDCT == {"measure_dct", "nouvelle_dbl"}

(* Only perfWalshDCT computes a coefficient whenever it needs it.          *)
HasTable == program # "perfWalshDCT"

(* The row of the table of coefficients that is filled in the turn y.      *)
RowFilled(y) == IF program = "const_perfWalshDCT_Corrige_2" THEN reverse_gray_to_binary(y, r) ELSE y

(* Which program and which of its two functions is at which place.         *)
Places ==
  /\ program \in Programs /\ r \in Sizes /\ test \in {"un", "N"}
  /\ program = "wscoeff_s" =>
       pc \in {"populate", "coeff", "walsh", "end"} /\ test = "un" /\ n * n <= dim_max_2D
  /\ pc = "populate" => program = "wscoeff_s"
  /\ pc \notin {"main", "dimension", "failed"} => n * n <= dim_max_2D
  /\ pc \in OnePlaces => test = "un"
  /\ pc \in {"initiale", "repeat", "initiale_dbl", "repeat_dct", "results"} \cup Repetition \cup RepetitionDCT
       => test = "N"
  /\ pc \in OnePlaces \cup Filling \cup Summing \cup CosineLoops \cup Repetition \cup RepetitionDCT
            \cup {"scale", "initiale", "repeat", "initiale_dbl", "repeat_dct", "results", "end"}

(* The counter of a loop stays in its bounds, and is 0 between the loops.  *)
Counter ==
  /\ k \in Nat
  /\ pc \in Drawing \cup DrawingDouble => k \in 0 .. n * n
  /\ program = "wscoeff_s" => \E m \in 0 .. n * n : k = 4 * m
  /\ program # "wscoeff_s" /\ pc \in Filling => k \in 0 .. n /\ (HasTable \/ k = 0)
  /\ program # "wscoeff_s" /\ pc \in Summing => k \in 0 .. n
  /\ pc \in CosineLoops => k \in 0 .. n
  /\ pc \in {"main", "dimension", "scale", "convert", "returned", "repeat", "measure",
             "repeat_dct", "measure_dct"} => k = 0

(* How many repetitions there were, and that each was measured.            *)
Repetitions ==
  /\ it \in Nat /\ expired \in BOOLEAN
  /\ DOMAIN mesures = {"niterWbase", "niterDCT"}
  /\ test = "un" => it = 0 /\ ~expired
  /\ pc \in {"initiale", "initiale_dbl", "results", "end"} => it = 0 /\ ~expired
  /\ test = "N" =>
       /\ pc \in Filling \cup Summing \cup {"scale"} \cup Repetition => it <= NwalMax
       /\ pc = "repeat" => it <= NwalMax + 1
       /\ pc \in CosineLoops \cup RepetitionDCT => it <= NdctMax
       /\ pc = "repeat_dct" => it <= NdctMax + 1
       /\ pc \in {"repeat", "repeat_dct"} /\ it = 0 => ~expired
       /\ pc = "repeat" /\ it > 0 => mesures.niterWbase \in 0 .. NwalMax
       /\ pc \in CosineLoops \cup RepetitionDCT \cup {"initiale_dbl", "repeat_dct", "results"} =>
            mesures.niterWbase \in 0 .. NwalMax
       /\ pc = "repeat_dct" /\ it > 0 => mesures.niterDCT \in 0 .. NdctMax
       /\ pc = "results" => mesures.niterDCT \in 0 .. NdctMax

(* What was written of each table.                                         *)
Numbers(table) == \A x \in 0 .. k - 1 : x \in DOMAIN table
Rows(table) == \A y \in 0 .. k - 1 : RowPlaces(y) \subseteq DOMAIN table
Words(table) == \A x \in All : 4 * x < k => x \in DOMAIN table
Complete(table) == DOMAIN table = All

Inside ==
  /\ DOMAIN D \subseteq All /\ DOMAIN coeff \subseteq All /\ DOMAIN W \subseteq All /\ DOMAIN Wi \subseteq All
  /\ DOMAIN Ddbl \subseteq All /\ DOMAIN S \subseteq All /\ DOMAIN Didbl \subseteq All

WalshTables ==
  /\ pc \in Drawing => Numbers(D)
  /\ pc = "populate" => Words(D)
  /\ pc \in Filling \cup Summing \cup {"scale", "convert", "repeat", "measure"} => Complete(D)
  /\ pc \in Filling /\ program # "wscoeff_s" /\ HasTable =>
       \A y \in 0 .. k - 1 : RowPlaces(RowFilled(y)) \subseteq DOMAIN coeff
  /\ pc = "coeff" /\ program = "wscoeff_s" => Words(coeff)
  /\ pc \in Summing /\ HasTable => Complete(coeff)
  /\ pc = "walsh" /\ program # "wscoeff_s" => Rows(W)
  /\ pc \in {"coeff_i", "inverse", "scale"} => Complete(W)
  /\ pc = "inverse" => Rows(Wi)
  /\ pc \in {"scale", "convert", "nouvelle"} => Complete(Wi)

CosineTables ==
  /\ pc \in DrawingDouble => Numbers(Ddbl)
  /\ pc \in CosineLoops \cup {"repeat_dct", "measure_dct"} => Complete(Ddbl)
  /\ pc = "dct" => Rows(S)
  /\ pc \in {"dcti", "nouvelle_dbl"} => Complete(S)

TablesWritten == Places /\ Counter /\ Repetitions /\ Inside /\ WalshTables /\ CosineTables
=============================================================================
