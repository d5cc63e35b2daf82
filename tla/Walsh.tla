------------------------------- MODULE Walsh -------------------------------
(***************************************************************************)
(* The coefficients of the Walsh transform in APP1, as its programs        *)
(* compute them for n = 2^r: bit by bit (wscoeff, and its translation to   *)
(* MIPS), by the recursive Hadamard matrix whose rows are put in order of  *)
(* sequency (cwh), and one by one from that matrix (wscoeff_hadamard).     *)
(* The tables are one array, row after row, as in the code.                *)
(***************************************************************************)
EXTENDS Integers, FiniteSetsExt

Bit(x, i) == (x \div 2 ^ i) % 2

(* The number with these r bits.                                           *)
FromBits(bit, r) == CHOOSE x \in 0 .. 2 ^ r - 1 : \A i \in 0 .. r - 1 : Bit(x, i) = bit[i]

Sign(ex) == IF ex % 2 = 1 THEN -1 ELSE 1

wscoeff(u, x, r) ==
  LET q(i) == Bit(u, r - i) + Bit(u, r - i - 1)
      ex == Bit(u, r - 1) * Bit(x, 0)
              + MapThenSumSet(LAMBDA i : (q(i) % 2) * Bit(x, i), 1 .. r - 1)
  IN Sign(ex)

(* Mutation of wscoeff_s: the loop is left one turn early.                 *)
wscoeff_sShort(u, x, r) ==
  LET v0[i \in 0 .. r] ==
        IF i = 0 THEN 0
        ELSE IF i = 1 THEN Bit(u, r - 1) * Bit(x, 0)
        ELSE v0[i - 1] + ((Bit(u, r - i + 1) + Bit(u, r - i)) % 2) * Bit(x, i - 1)
  IN Sign(v0[r - 1])

(* The same in MIPS: v0[i] is the register $v0 when the counter $t2 is i.  *)
wscoeff_s(u, x, r) ==
  LET v0[i \in 1 .. r] ==
        IF i = 1 THEN Bit(u, r - 1) * Bit(x, 0)
        ELSE v0[i - 1] + ((Bit(u, r - i + 1) + Bit(u, r - i)) % 2) * Bit(x, i - 1)
  IN Sign(v0[r])

(* The matrix of size 2^r, made of four copies of the one of half the size.*)
cwh(r) ==
  LET A[s \in 0 .. r] ==
        IF s = 0 THEN [k \in {0} |-> 1]
        ELSE LET n == 2 ^ s
                 half == n \div 2
             IN [k \in 0 .. n * n - 1 |->
                  LET y == k \div n
                      x == k % n
                      a == A[s - 1][(y % half) * half + (x % half)]
                  IN IF y >= half /\ x >= half THEN -a ELSE a]
  IN A[r]

(* One element of that matrix.                                             *)
wscoeff_hadamard(row, col, r) ==
  LET h[s \in 0 .. r] ==
        IF s = 0 THEN 1
        ELSE IF Bit(row, s - 1) = 1 /\ Bit(col, s - 1) = 1 THEN -h[s - 1]
        ELSE h[s - 1]
  IN h[r]

(* The r low bits of x in the opposite order.                              *)
Flip(x, r) == FromBits([i \in 0 .. r - 1 |-> Bit(x, r - 1 - i)], r)

(* The number whose code is gray, for codes of 7 bits.                     *)
GrayToBinary(gray) ==
  LET result[i \in 0 .. 6] ==
        IF i = 6 THEN Bit(gray, 6) ELSE (Bit(gray, i) + result[i + 1]) % 2
  IN FromBits(result, 7)

(* Mutation of reverse_gray_to_binary: the bits are not reversed.          *)
gray_to_binary(x, r) == GrayToBinary(x)

reverse_gray_to_binary(x, r) == GrayToBinary(Flip(x, r))

binary_to_gray_reverse(x, r) ==
  Flip(FromBits([i \in 0 .. r - 1 |-> (Bit(x, i) + Bit(x, i + 1)) % 2], r), r)
=============================================================================
