------------------------------- MODULE Cosine -------------------------------
(***************************************************************************)
(* The cosine transform of APP1 in exact numbers instead of doubles.  All  *)
(* that its formulas add up are products of integers and of cosines of     *)
(* multiples of pi/2n, sqrt(2)/2 being one of them.  The function f from   *)
(* 0 .. n-1 to the integers stands for the number                          *)
(*                                                                         *)
(*   f[0] + f[1] * 2 cos(pi/2n) + ... + f[n-1] * 2 cos((n-1) pi/2n)        *)
(*                                                                         *)
(* Because n is a power of 2 different functions are different numbers.    *)
(* The order of a sum of exact numbers does not matter, and the sums over  *)
(* x and y are nested here.                                                *)
(***************************************************************************)
EXTENDS Integers, FiniteSetsExt

Number(c, n) == [j \in 0 .. n - 1 |-> IF j = 0 THEN c ELSE 0]

(* The factor of z^j in f, where 2 cos(j * pi/2n) is z^j + z^-j and z^2n   *)
(* is -1.                                                                  *)
Factor(f, j, n) ==
  LET i == j % (4 * n)
      h == IF i > 2 * n THEN 4 * n - i ELSE i
  IN IF h < n THEN f[h] ELSE IF h = n THEN 0 ELSE -f[2 * n - h]

(* f * 2 cos(i * pi/2n)                                                    *)
Times2Cos(f, i, n) == [j \in 0 .. n - 1 |-> Factor(f, j - i, n) + Factor(f, j + i, n)]

(* f * 2 Cu                                                                *)
Times2Cu(f, u, n) ==
  IF u = 0 THEN Times2Cos(f, n \div 2, n) ELSE [j \in 0 .. n - 1 |-> 2 * f[j]]

Total(f, n) == [j \in 0 .. n - 1 |-> MapThenSumSet(LAMBDA x : f[x][j], 0 .. n - 1)]

(* 8n times the number that DCT_2D_base stores in S[v*n+u].                *)
DCT_2D_base(D, u, v, n) ==
  LET Line(y) == Total([x \in 0 .. n - 1 |-> Times2Cos(Number(D[y * n + x], n), (2 * x + 1) * u, n)], n)
      Sums == Total([y \in 0 .. n - 1 |-> Times2Cos(Line(y), (2 * y + 1) * v, n)], n)
  IN Times2Cu(Times2Cu(Sums, u, n), v, n)

(* Mutation of DCT_2D_basei: Cu is left out.                               *)
DCT_2D_baseiFlat(S, x, y, n) ==
  LET Line(v) == Total([u \in 0 .. n - 1 |-> Times2Cos(Times2Cu(S[v * n + u], 1, n), (2 * x + 1) * u, n)], n)
  IN Total([v \in 0 .. n - 1 |-> Times2Cos(Times2Cu(Line(v), v, n), (2 * y + 1) * v, n)], n)

(* 8n times the number that DCT_2D_basei stores in Di[y*n+x].              *)
DCT_2D_basei(S, x, y, n) ==
  LET Line(v) == Total([u \in 0 .. n - 1 |-> Times2Cos(Times2Cu(S[v * n + u], u, n), (2 * x + 1) * u, n)], n)
  IN Total([v \in 0 .. n - 1 |-> Times2Cos(Times2Cu(Line(v), v, n), (2 * y + 1) * v, n)], n)
=============================================================================
