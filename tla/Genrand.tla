------------------------------ MODULE Genrand ------------------------------
(***************************************************************************)
(* The pseudo-random numbers of APP1.  genrand_v32 multiplies ints of 32   *)
(* bits; the product overflows and, as the programs are compiled, wraps.   *)
(* The constants stand for the width of the words: a short word is where   *)
(* TLC can compute.                                                        *)
(***************************************************************************)
EXTENDS Integers

CONSTANTS
  HalfWord,    (* 2^16: D keeps the high half of a number                  *)
  Multiplier   (* 16807                                                    *)

(* What the proofs need to know of 2^16 and 16807, and room for the seed.  *)
ASSUME GenrandAssumption ==
  /\ HalfWord \in Nat /\ HalfWord >= 16 /\ HalfWord % 4 = 0
  /\ Multiplier \in Nat /\ Multiplier % 8 = 7

Word == HalfWord * HalfWord
Modulus == Word \div 2 - 1
Seed == 99

(* The int that the program stores for the integer v.                      *)
Wrap(v) == ((v + Word \div 2) % Word) - Word \div 2

(* Mutation of genrand_v32: an even multiplier, 16808.                     *)
genrand_v32Even(x) ==
  LET ax == Wrap((Multiplier + 1) * x)
  IN IF ax >= 0 THEN ax % Modulus ELSE -((-ax) % Modulus)

(* The remainder has the sign of the product.                              *)
genrand_v32(x) ==
  LET ax == Wrap(Multiplier * x)
  IN IF ax >= 0 THEN ax % Modulus ELSE -((-ax) % Modulus)

(* s >> 16, also of a negative number.                                     *)
HighHalf(s) == s \div HalfWord
=============================================================================
