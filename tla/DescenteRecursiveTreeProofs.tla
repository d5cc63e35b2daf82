-------------------- MODULE DescenteRecursiveTreeProofs --------------------
(***************************************************************************)
(* Proofs that the descent builds the tree of an expression exactly for    *)
(* the texts that are expressions, and writes the value of the tree.       *)
(***************************************************************************)
EXTENDS DescenteRecursiveProofs

(* A non-empty set of integers with a lower bound has a least element.     *)
LEMMA LeastAbove ==
  ASSUME NEW S, NEW a \in Int, S # {}, \A k \in S : k \in Int /\ a <= k
  PROVE  Min(S) \in S /\ \A k \in S : Min(S) <= k
<1> DEFINE T == {d \in Nat : a + d \in S}
<1>1. T # {}
  <2>1. PICK k \in S : k \in Int /\ a <= k
    OBVIOUS
  <2>2. k - a \in Nat /\ a + (k - a) = k
    BY <2>1
  <2> QED
    BY <2>1, <2>2
<1>2. PICK d \in T : \A y \in T : d <= y
  BY <1>1, LeastNumber
<1>3. a + d \in S /\ d \in Nat
  BY <1>2
<1>4. ASSUME NEW k \in S PROVE a + d <= k
  <2>1. k \in Int /\ a <= k
    OBVIOUS
  <2>2. k - a \in Nat /\ a + (k - a) = k
    BY <2>1
  <2>3. d <= k - a
    BY <1>2, <2>2
  <2> HIDE DEF T
  <2> QED
    BY <1>3, <2>1, <2>3
<1> HIDE DEF T
<1>5. \E x \in S : \A k \in S : x <= k
  BY <1>3, <1>4
<1> QED
  BY <1>5 DEF Min

-----------------------------------------------------------------------------
(* Depths. *)

Signs(t, c, i, k) == {m \in i .. k - 1 : t[m] = <<c>>}

LEMMA SignsFinite ==
  ASSUME NEW t, NEW c, NEW i \in Int, NEW k \in Int
  PROVE  IsFiniteSet(Signs(t, c, i, k)) /\ Cardinality(Signs(t, c, i, k)) \in Nat
<1>1. k - 1 \in Int
  OBVIOUS
<1>2. IsFiniteSet(i .. k - 1)
  BY <1>1, FS_Interval
<1>3. Signs(t, c, i, k) \subseteq i .. k - 1
  BY DEF Signs
<1> QED
  BY <1>2, <1>3, FS_Subset, FS_CardinalityType

LEMMA DepthOfSigns ==
  ASSUME NEW t, NEW i \in Int, NEW k \in Int
  PROVE  /\ Depth(t, i, k) = Cardinality(Signs(t, "(", i, k)) - Cardinality(Signs(t, ")", i, k))
         /\ Depth(t, i, k) \in Int
<1>1. Depth(t, i, k) = Cardinality(Signs(t, "(", i, k)) - Cardinality(Signs(t, ")", i, k))
  BY Zenon DEF Depth, Signs
<1>2. Cardinality(Signs(t, "(", i, k)) \in Nat /\ Cardinality(Signs(t, ")", i, k)) \in Nat
  BY SignsFinite
<1> QED
  BY <1>1, <1>2

LEMMA SignsAdd ==
  ASSUME NEW t, NEW c, NEW i \in Int, NEW k \in Int, NEW m \in Int, i <= k, k <= m
  PROVE  Cardinality(Signs(t, c, i, m)) = Cardinality(Signs(t, c, i, k)) + Cardinality(Signs(t, c, k, m))
<1>1. Signs(t, c, i, m) = Signs(t, c, i, k) \cup Signs(t, c, k, m)
  <2>1. \A q : q \in i .. m - 1 <=> q \in i .. k - 1 \/ q \in k .. m - 1
    OBVIOUS
  <2> QED
    BY <2>1, Zenon DEF Signs
<1>2. Signs(t, c, i, k) \cap Signs(t, c, k, m) = {}
  BY DEF Signs
<1>3. /\ IsFiniteSet(Signs(t, c, i, k)) /\ Cardinality(Signs(t, c, i, k)) \in Nat
      /\ IsFiniteSet(Signs(t, c, k, m)) /\ Cardinality(Signs(t, c, k, m)) \in Nat
  BY SignsFinite
<1>4. Cardinality(Signs(t, c, i, k) \cup Signs(t, c, k, m)) =
        Cardinality(Signs(t, c, i, k)) + Cardinality(Signs(t, c, k, m))
        - Cardinality(Signs(t, c, i, k) \cap Signs(t, c, k, m))
  BY <1>3, FS_Union
<1>5. Cardinality(Signs(t, c, i, k) \cap Signs(t, c, k, m)) = 0
  BY <1>2, FS_EmptySet
<1> QED
  BY <1>1, <1>3, <1>4, <1>5

(* The depths of two neighbouring spans add up.                            *)
LEMMA DepthAdds ==
  ASSUME NEW t, NEW i \in Int, NEW k \in Int, NEW m \in Int, i <= k, k <= m
  PROVE  Depth(t, i, m) = Depth(t, i, k) + Depth(t, k, m)
<1> DEFINE C(c, a, b) == Cardinality(Signs(t, c, a, b))
<1>1. \A c : C(c, i, k) \in Nat /\ C(c, k, m) \in Nat /\ C(c, i, m) = C(c, i, k) + C(c, k, m)
  <2> TAKE c
  <2> QED
    BY SignsFinite, SignsAdd
<1>2. /\ Depth(t, i, m) = C("(", i, m) - C(")", i, m)
      /\ Depth(t, i, k) = C("(", i, k) - C(")", i, k)
      /\ Depth(t, k, m) = C("(", k, m) - C(")", k, m)
  BY DepthOfSigns
<1> HIDE DEF C
<1> QED
  BY <1>1, <1>2

(* One terminal changes the depth by at most 1.                            *)
LEMMA DepthOfOne ==
  ASSUME NEW t, NEW k \in Int
  PROVE  /\ Depth(t, k, k) = 0
         /\ Depth(t, k, k + 1) =
              IF t[k] = <<"(">> THEN 1 ELSE IF t[k] = <<")">> THEN -1 ELSE 0
<1> DEFINE C(c, b) == Cardinality(Signs(t, c, k, b))
<1>1. Cardinality({}) = 0 /\ Cardinality({k}) = 1
  BY FS_EmptySet, FS_Singleton
<1>2. \A c : C(c, k) = 0
  <2> TAKE c
  <2>1. Signs(t, c, k, k) = {}
    BY DEF Signs
  <2> QED
    BY <1>1, <2>1
<1>3. \A c : C(c, k + 1) = IF t[k] = <<c>> THEN 1 ELSE 0
  <2> TAKE c
  <2>1. \A q : q \in k .. (k + 1) - 1 <=> q = k
    OBVIOUS
  <2>2. CASE t[k] = <<c>>
    <3>1. Signs(t, c, k, k + 1) = {k}
      BY <2>1, <2>2, Zenon DEF Signs
    <3> QED
      BY <1>1, <2>2, <3>1
  <2>3. CASE t[k] # <<c>>
    <3>1. Signs(t, c, k, k + 1) = {}
      BY <2>1, <2>3, Zenon DEF Signs
    <3> QED
      BY <1>1, <2>3, <3>1
  <2> QED
    BY <2>2, <2>3
<1>4. <<"(">> # <<")">>
  OBVIOUS
<1>5. /\ Depth(t, k, k) = C("(", k) - C(")", k)
      /\ Depth(t, k, k + 1) = C("(", k + 1) - C(")", k + 1)
  <2>1. k + 1 \in Int
    OBVIOUS
  <2> QED
    BY <2>1, DepthOfSigns
<1> HIDE DEF C
<1> QED
  BY <1>2, <1>3, <1>4, <1>5
-----------------------------------------------------------------------------
(* Spans of terminals. *)

(* Where the operator applied last is, if there is one.                    *)
LEMMA SplitBounds ==
  ASSUME NEW t, NEW a \in Nat \ {0}, NEW b \in Int
  PROVE  \/ Split(t, a, b) = 0
         \/ /\ Split(t, a, b) \in a .. b /\ Split(t, a, b) > 0
            /\ t[Split(t, a, b)] \in Sums \cup Products
            /\ Depth(t, a, Split(t, a, b)) = 0
<1>1. ASSUME NEW ops, Outside(t, a, b, ops) # {}
      PROVE  Min(Outside(t, a, b, ops)) \in Outside(t, a, b, ops)
  <2>1. \A k \in Outside(t, a, b, ops) : k \in Int /\ a <= k
    BY DEF Outside
  <2> QED
    BY <1>1, <2>1, LeastAbove
<1>2. ASSUME NEW ops, NEW k \in Outside(t, a, b, ops)
      PROVE  k \in a .. b /\ k > 0 /\ t[k] \in ops /\ Depth(t, a, k) = 0
  BY DEF Outside
<1>3. CASE Outside(t, a, b, Sums) # {}
  <2>1. Split(t, a, b) \in Outside(t, a, b, Sums)
    BY <1>1, <1>3 DEF Split
  <2> QED
    BY <1>2, <2>1
<1>4. CASE Outside(t, a, b, Sums) = {} /\ Outside(t, a, b, Products) # {}
  <2>1. Split(t, a, b) \in Outside(t, a, b, Products)
    BY <1>1, <1>4 DEF Split
  <2> QED
    BY <1>2, <2>1
<1>5. CASE Outside(t, a, b, Sums) = {} /\ Outside(t, a, b, Products) = {}
  BY <1>5 DEF Split
<1> QED
  BY <1>3, <1>4, <1>5

(* The first operator outside parentheses is the least one.                *)
LEMMA FirstOutside ==
  ASSUME NEW t, NEW a \in Nat \ {0}, NEW b \in Int, NEW ops, NEW k \in a .. b,
         Outside(t, a, k - 1, ops) = {}, t[k] \in ops, Depth(t, a, k) = 0
  PROVE  k \in Outside(t, a, b, ops) /\ Min(Outside(t, a, b, ops)) = k
<1>1. k \in Outside(t, a, b, ops)
  BY DEF Outside
<1>2. \A m \in Outside(t, a, b, ops) : m \in Int /\ a <= m /\ k <= m
  <2> TAKE m \in Outside(t, a, b, ops)
  <2>1. m \in a .. b /\ t[m] \in ops /\ Depth(t, a, m) = 0
    BY DEF Outside
  <2>2. m < k => m \in a .. k - 1
    BY <2>1
  <2>3. ~(m < k)
    BY <2>1, <2>2 DEF Outside
  <2> QED
    BY <2>1, <2>3
<1>3. Min(Outside(t, a, b, ops)) \in Outside(t, a, b, ops)
      /\ Min(Outside(t, a, b, ops)) <= k
  BY <1>1, <1>2, LeastAbove
<1>4. k <= Min(Outside(t, a, b, ops)) /\ Min(Outside(t, a, b, ops)) \in Int
  BY <1>2, <1>3
<1> QED
  BY <1>1, <1>3, <1>4

(* Behind a closed span no parenthesis is open.                            *)
LEMMA DepthBehind ==
  ASSUME NEW t, NEW a \in Int, NEW k \in Int, a <= k, Closed(t, a, k - 1)
  PROVE  Depth(t, a, k) = 0
<1>1. (k - 1) + 1 = k
  OBVIOUS
<1> QED
  BY <1>1 DEF Closed

(* Depths counted from before a closed span and a terminal that is no      *)
(* parenthesis are the ones counted from behind them.                      *)
LEMMA DepthFurther ==
  ASSUME NEW t, NEW a \in Int, NEW k \in Int, a <= k, NEW m \in Int, k + 1 <= m,
         Closed(t, a, k - 1), t[k] \notin {<<"(">>, <<")">>}
  PROVE  Depth(t, a, m) = Depth(t, k + 1, m)
<1>0. k + 1 \in Int /\ k <= m /\ k <= k + 1
  OBVIOUS
<1>1. Depth(t, a, k) = 0
  BY DepthBehind
<1>2. Depth(t, a, m) = Depth(t, a, k) + Depth(t, k, m)
  BY <1>0, DepthAdds
<1>3. Depth(t, k, m) = Depth(t, k, k + 1) + Depth(t, k + 1, m)
  BY <1>0, DepthAdds
<1>4. Depth(t, k, k + 1) = 0
  BY DepthOfOne
<1>5. Depth(t, k + 1, m) \in Int
  BY <1>0, DepthOfSigns
<1> QED
  BY <1>1, <1>2, <1>3, <1>4, <1>5

(* Two closed spans with a terminal between that is no parenthesis.        *)
LEMMA Joined ==
  ASSUME NEW t, NEW a \in Int, NEW b \in Int, NEW k \in a .. b,
         Closed(t, a, k - 1), Closed(t, k + 1, b), t[k] \notin {<<"(">>, <<")">>}
  PROVE  Closed(t, a, b)
<1>0. k \in Int /\ k - 1 \in Int /\ k + 1 \in Int /\ b + 1 \in Int /\ (k - 1) + 1 = k /\ a <= k /\ k <= b
  OBVIOUS
<1>1. \A m \in a .. k : Depth(t, a, m) >= 0
  BY <1>0 DEF Closed
<1>2. Depth(t, k + 1, b + 1) = 0 /\ \A m \in k + 1 .. b + 1 : Depth(t, k + 1, m) >= 0
  BY DEF Closed
<1>4. ASSUME NEW m \in k + 1 .. b + 1 PROVE Depth(t, a, m) = Depth(t, k + 1, m)
  <2>1. m \in Int /\ k + 1 <= m
    BY <1>0
  <2> QED
    BY <1>0, <2>1, DepthFurther
<1>5. \A m \in a .. b + 1 : m \in a .. k \/ m \in k + 1 .. b + 1
  BY <1>0
<1>6. \A m \in a .. b + 1 : Depth(t, a, m) >= 0
  BY <1>1, <1>2, <1>4, <1>5
<1>7. b + 1 \in k + 1 .. b + 1
  BY <1>0
<1> QED
  BY <1>2, <1>4, <1>6, <1>7 DEF Closed

(* A closed span in parentheses.                                           *)
LEMMA InParentheses ==
  ASSUME NEW t, NEW a \in Int, NEW b \in Int, a < b,
         Closed(t, a + 1, b - 1), t[a] = <<"(">>, t[b] = <<")">>
  PROVE  Closed(t, a, b) /\ \A m \in a + 1 .. b : Depth(t, a, m) >= 1
<1>0. a + 1 \in Int /\ b - 1 \in Int /\ b + 1 \in Int /\ (b - 1) + 1 = b /\ a + 1 <= b /\ a <= a + 1 /\ b <= b + 1
  OBVIOUS
<1>1. Depth(t, a + 1, b) = 0 /\ \A m \in a + 1 .. b : Depth(t, a + 1, m) >= 0
  BY <1>0 DEF Closed
<1>2. Depth(t, a, a) = 0 /\ Depth(t, a, a + 1) = 1
  BY DepthOfOne
<1>3. Depth(t, b, b + 1) = -1
  <2>1. <<")">> # <<"(">>
    OBVIOUS
  <2> QED
    BY <2>1, DepthOfOne
<1>4. ASSUME NEW m \in a + 1 .. b PROVE Depth(t, a, m) = 1 + Depth(t, a + 1, m) /\ Depth(t, a + 1, m) \in Int
  <2>1. m \in Int /\ a + 1 <= m
    BY <1>0
  <2> QED
    BY <1>0, <1>2, <2>1, DepthAdds, DepthOfSigns
<1>5. \A m \in a + 1 .. b : Depth(t, a, m) >= 1
  BY <1>1, <1>4
<1>6. Depth(t, a, b + 1) = 0
  <2>1. b \in a + 1 .. b /\ a <= b
    BY <1>0
  <2>2. Depth(t, a, b + 1) = Depth(t, a, b) + Depth(t, b, b + 1)
    BY <1>0, <2>1, DepthAdds
  <2> QED
    BY <1>1, <1>3, <1>4, <2>1, <2>2
<1>7. \A m \in a .. b + 1 : m = a \/ m \in a + 1 .. b \/ m = b + 1
  BY <1>0
<1>8. \A m \in a .. b + 1 : Depth(t, a, m) >= 0
  <2> TAKE m \in a .. b + 1
  <2>1. CASE m \in a + 1 .. b
    BY <1>1, <1>4, <2>1
  <2> QED
    BY <1>2, <1>6, <1>7, <2>1
<1> QED
  BY <1>5, <1>6, <1>8 DEF Closed

(* Without an operator outside parentheses nothing is applied last.        *)
LEMMA NoSplit ==
  ASSUME NEW t, NEW a, NEW b,
         Outside(t, a, b, Sums \cup Products) = {}
  PROVE  Split(t, a, b) = 0
<1>1. Outside(t, a, b, Sums) = {} /\ Outside(t, a, b, Products) = {}
  BY DEF Outside
<1> QED
  BY <1>1 DEF Split

(* What Readings() says of a span depends on the spans inside it only.     *)
LEMMA ReadLooksInside ==
  ASSUME NEW t, Len(t) \in Nat, NEW i \in 1 .. Len(t) + 1, NEW j \in 0 .. Len(t), NEW f, NEW g,
         \A s \in Spans(t) : s[2] - s[1] < j - i => f[s] = g[s]
  PROVE  /\ ReadSpan(t, i, j, f) = ReadSpan(t, i, j, g)
         /\ i > j => ReadSpan(t, i, j, f) = {}
<1> DEFINE k == Split(t, i, j)
<1>0. i \in Nat \ {0} /\ j \in Int
  OBVIOUS
<1>1. k = 0 \/ (k \in i .. j /\ k > 0)
  BY <1>0, SplitBounds
<1> HIDE DEF k
<1>2. CASE k \in i .. j /\ k > 0
  <2>1. /\ k - 1 \in 0 .. Len(t) /\ k + 1 \in 1 .. Len(t) + 1
        /\ (k - 1) - i < j - i /\ j - (k + 1) < j - i
        /\ ~(i > j)
    BY <1>0, <1>2
  <2>2. <<i, k - 1>> \in Spans(t) /\ <<k + 1, j>> \in Spans(t)
    BY <2>1 DEF Spans
  <2>3. f[<<i, k - 1>>] = g[<<i, k - 1>>] /\ f[<<k + 1, j>>] = g[<<k + 1, j>>]
    BY <2>1, <2>2
  <2> QED
    BY <1>2, <2>1, <2>3, Zenon DEF ReadSpan, k
<1>3. CASE k = 0
  <2>0. ~(k > 0)
    BY <1>3
  <2>1. ASSUME Enclosed(t, i, j)
        PROVE  f[<<i + 1, j - 1>>] = g[<<i + 1, j - 1>>]
    <3>1. i < j
      BY <2>1 DEF Enclosed
    <3>2. i + 1 \in 1 .. Len(t) + 1 /\ j - 1 \in 0 .. Len(t) /\ (j - 1) - (i + 1) < j - i
      BY <1>0, <3>1
    <3>3. <<i + 1, j - 1>> \in Spans(t)
      BY <3>2 DEF Spans
    <3> QED
      BY <3>2, <3>3
  <2>2. ReadSpan(t, i, j, f) = ReadSpan(t, i, j, g)
    BY <2>0, <2>1, Zenon DEF ReadSpan, k
  <2>3. i > j => i # j /\ ~Enclosed(t, i, j)
    BY <1>0 DEF Enclosed
  <2>4. i > j => ReadSpan(t, i, j, f) = {}
    BY <2>0, <2>3, Zenon DEF ReadSpan, k
  <2> QED
    BY <2>2, <2>4
<1> QED
  BY <1>1, <1>2, <1>3

(* The recursion of Readings() ends. *)
LEMMA ReadingsExist ==
  ASSUME NEW t, Len(t) \in Nat
  PROVE  \E f : f = [s \in Spans(t) |-> ReadSpan(t, s[1], s[2], f)]
<1> DEFINE Within(d) == {s \in Spans(t) : s[2] - s[1] < d}
           Solves(f, d) == f = [s \in Within(d) |-> ReadSpan(t, s[1], s[2], f)]
           Unsolved == {d \in Nat : ~ \E f : Solves(f, d)}
<1>0. \A s \in Spans(t) : s[1] \in 1 .. Len(t) + 1 /\ s[2] \in 0 .. Len(t)
  BY DEF Spans
<1>1. 0 \notin Unsolved
  <2> DEFINE f == [s \in Within(0) |-> {}]
  <2>1. \A s \in Within(0) : ReadSpan(t, s[1], s[2], f) = {}
    <3> TAKE s \in Within(0)
    <3>1. s[1] \in 1 .. Len(t) + 1 /\ s[2] \in 0 .. Len(t) /\ s[1] > s[2]
      BY <1>0
    <3> HIDE DEF f
    <3> QED
      BY <3>1, ReadLooksInside
  <2>2. Solves(f, 0)
    BY <2>1
  <2> QED
    BY <2>2
<1>2. ASSUME NEW d \in Nat, d \notin Unsolved
      PROVE  d + 1 \notin Unsolved
  <2>1. PICK f : Solves(f, d)
    BY <1>2
  <2> DEFINE g == [s \in Within(d + 1) |-> ReadSpan(t, s[1], s[2], f)]
  <2>2. \A s \in Within(d) : s \in Within(d + 1)
    BY <1>0
  <2>3. \A s \in Within(d) : f[s] = g[s]
    <3> TAKE s \in Within(d)
    <3>1. f = [z \in Within(d) |-> ReadSpan(t, z[1], z[2], f)]
      BY <2>1
    <3> HIDE DEF Within
    <3>2. f[s] = ReadSpan(t, s[1], s[2], f)
      BY <3>1, Zenon
    <3>3. g[s] = ReadSpan(t, s[1], s[2], f)
      BY <2>2
    <3> QED
      BY <3>2, <3>3
  <2>4. \A s \in Within(d + 1) : ReadSpan(t, s[1], s[2], f) = ReadSpan(t, s[1], s[2], g)
    <3> TAKE s \in Within(d + 1)
    <3> HIDE DEF g
    <3>1. s[1] \in 1 .. Len(t) + 1 /\ s[2] \in 0 .. Len(t) /\ s[2] - s[1] < d + 1
      BY <1>0
    <3>2. \A z \in Spans(t) : z[2] - z[1] < s[2] - s[1] => z \in Within(d)
      BY <1>0, <3>1
    <3>3. \A z \in Spans(t) : z[2] - z[1] < s[2] - s[1] => f[z] = g[z]
      BY <2>3, <3>2
    <3> QED
      BY <3>1, <3>3, ReadLooksInside
  <2>5. Solves(g, d + 1)
    BY <2>4
  <2> QED
    BY <2>5
<1>3. Unsolved = {}
  <2> SUFFICES ASSUME Unsolved # {} PROVE FALSE
    OBVIOUS
  <2>1. PICK k \in Unsolved : \A y \in Unsolved : k <= y
    BY LeastNumber
  <2>2. k \in Nat /\ k # 0
    BY <1>1
  <2>3. k - 1 \in Nat /\ ~(k <= k - 1) /\ (k - 1) + 1 = k
    BY <2>2
  <2> HIDE DEF Unsolved
  <2>4. k - 1 \notin Unsolved
    BY <2>1, <2>3
  <2> QED
    BY <2>3, <2>4, <1>2
<1>4. PICK f : Solves(f, Len(t) + 1)
  <2>1. Len(t) + 1 \in Nat
    OBVIOUS
  <2> QED
    BY <1>3, <2>1
<1>5. Within(Len(t) + 1) = Spans(t)
  BY <1>0
<1> QED
  BY <1>4, <1>5

LEMMA ReadingsUnfold ==
  ASSUME NEW t, Len(t) \in Nat, NEW i \in 1 .. Len(t) + 1, NEW j \in 0 .. Len(t)
  PROVE  Readings(t)[<<i, j>>] = ReadSpan(t, i, j, Readings(t))
<1> DEFINE Solves(f) == f = [s \in Spans(t) |-> ReadSpan(t, s[1], s[2], f)]
           f == CHOOSE h : Solves(h)
<1>1. Solves(f)
  <2>1. \E h : Solves(h)
    BY ReadingsExist
  <2> QED
    BY <2>1
<1>2. Readings(t) = f
  BY Zenon DEF Readings
<1>3. PICK h : Solves(h) /\ Readings(t) = h
  BY <1>1, <1>2
<1> HIDE DEF f
<1>4. <<i, j>> \in Spans(t) /\ <<i, j>>[1] = i /\ <<i, j>>[2] = j
  BY DEF Spans
<1>5. h = [s \in Spans(t) |-> ReadSpan(t, s[1], s[2], h)]
  BY <1>3
<1>6. h[<<i, j>>] = ReadSpan(t, <<i, j>>[1], <<i, j>>[2], h)
  BY <1>4, <1>5, Zenon
<1> QED
  BY <1>3, <1>4, <1>6

(* What Exacts() says of a span depends on the spans inside it only.       *)
LEMMA ExactLooksInside ==
  ASSUME NEW t, Len(t) \in Nat, NEW i \in 1 .. Len(t) + 1, NEW j \in 0 .. Len(t), NEW f, NEW g,
         \A s \in Spans(t) : s[2] - s[1] < j - i => f[s] = g[s]
  PROVE  /\ ExactSpan(t, i, j, f) = ExactSpan(t, i, j, g)
         /\ i > j => ExactSpan(t, i, j, f) = {}
<1> DEFINE k == Split(t, i, j)
<1>0. i \in Nat \ {0} /\ j \in Int
  OBVIOUS
<1>1. k = 0 \/ (k \in i .. j /\ k > 0)
  BY <1>0, SplitBounds
<1> HIDE DEF k
<1>2. CASE k \in i .. j /\ k > 0
  <2>1. /\ k - 1 \in 0 .. Len(t) /\ k + 1 \in 1 .. Len(t) + 1
        /\ (k - 1) - i < j - i /\ j - (k + 1) < j - i
        /\ ~(i > j)
    BY <1>0, <1>2
  <2>2. <<i, k - 1>> \in Spans(t) /\ <<k + 1, j>> \in Spans(t)
    BY <2>1 DEF Spans
  <2>3. f[<<i, k - 1>>] = g[<<i, k - 1>>] /\ f[<<k + 1, j>>] = g[<<k + 1, j>>]
    BY <2>1, <2>2
  <2> QED
    BY <1>2, <2>1, <2>3, Zenon DEF ExactSpan, k
<1>3. CASE k = 0
  <2>0. ~(k > 0)
    BY <1>3
  <2>1. ASSUME Enclosed(t, i, j)
        PROVE  f[<<i + 1, j - 1>>] = g[<<i + 1, j - 1>>]
    <3>1. i < j
      BY <2>1 DEF Enclosed
    <3>2. i + 1 \in 1 .. Len(t) + 1 /\ j - 1 \in 0 .. Len(t) /\ (j - 1) - (i + 1) < j - i
      BY <1>0, <3>1
    <3>3. <<i + 1, j - 1>> \in Spans(t)
      BY <3>2 DEF Spans
    <3> QED
      BY <3>2, <3>3
  <2>2. ExactSpan(t, i, j, f) = ExactSpan(t, i, j, g)
    BY <2>0, <2>1, Zenon DEF ExactSpan, k
  <2>3. i > j => i # j /\ ~Enclosed(t, i, j)
    BY <1>0 DEF Enclosed
  <2>4. i > j => ExactSpan(t, i, j, f) = {}
    BY <2>0, <2>3, Zenon DEF ExactSpan, k
  <2> QED
    BY <2>2, <2>4
<1> QED
  BY <1>1, <1>2, <1>3

(* The recursion of Exacts() ends. *)
LEMMA ExactsExist ==
  ASSUME NEW t, Len(t) \in Nat
  PROVE  \E f : f = [s \in Spans(t) |-> ExactSpan(t, s[1], s[2], f)]
<1> DEFINE Within(d) == {s \in Spans(t) : s[2] - s[1] < d}
           Solves(f, d) == f = [s \in Within(d) |-> ExactSpan(t, s[1], s[2], f)]
           Unsolved == {d \in Nat : ~ \E f : Solves(f, d)}
<1>0. \A s \in Spans(t) : s[1] \in 1 .. Len(t) + 1 /\ s[2] \in 0 .. Len(t)
  BY DEF Spans
<1>1. 0 \notin Unsolved
  <2> DEFINE f == [s \in Within(0) |-> {}]
  <2>1. \A s \in Within(0) : ExactSpan(t, s[1], s[2], f) = {}
    <3> TAKE s \in Within(0)
    <3>1. s[1] \in 1 .. Len(t) + 1 /\ s[2] \in 0 .. Len(t) /\ s[1] > s[2]
      BY <1>0
    <3> HIDE DEF f
    <3> QED
      BY <3>1, ExactLooksInside
  <2>2. Solves(f, 0)
    BY <2>1
  <2> QED
    BY <2>2
<1>2. ASSUME NEW d \in Nat, d \notin Unsolved
      PROVE  d + 1 \notin Unsolved
  <2>1. PICK f : Solves(f, d)
    BY <1>2
  <2> DEFINE g == [s \in Within(d + 1) |-> ExactSpan(t, s[1], s[2], f)]
  <2>2. \A s \in Within(d) : s \in Within(d + 1)
    BY <1>0
  <2>3. \A s \in Within(d) : f[s] = g[s]
    <3> TAKE s \in Within(d)
    <3>1. f = [z \in Within(d) |-> ExactSpan(t, z[1], z[2], f)]
      BY <2>1
    <3> HIDE DEF Within
    <3>2. f[s] = ExactSpan(t, s[1], s[2], f)
      BY <3>1, Zenon
    <3>3. g[s] = ExactSpan(t, s[1], s[2], f)
      BY <2>2
    <3> QED
      BY <3>2, <3>3
  <2>4. \A s \in Within(d + 1) : ExactSpan(t, s[1], s[2], f) = ExactSpan(t, s[1], s[2], g)
    <3> TAKE s \in Within(d + 1)
    <3> HIDE DEF g
    <3>1. s[1] \in 1 .. Len(t) + 1 /\ s[2] \in 0 .. Len(t) /\ s[2] - s[1] < d + 1
      BY <1>0
    <3>2. \A z \in Spans(t) : z[2] - z[1] < s[2] - s[1] => z \in Within(d)
      BY <1>0, <3>1
    <3>3. \A z \in Spans(t) : z[2] - z[1] < s[2] - s[1] => f[z] = g[z]
      BY <2>3, <3>2
    <3> QED
      BY <3>1, <3>3, ExactLooksInside
  <2>5. Solves(g, d + 1)
    BY <2>4
  <2> QED
    BY <2>5
<1>3. Unsolved = {}
  <2> SUFFICES ASSUME Unsolved # {} PROVE FALSE
    OBVIOUS
  <2>1. PICK k \in Unsolved : \A y \in Unsolved : k <= y
    BY LeastNumber
  <2>2. k \in Nat /\ k # 0
    BY <1>1
  <2>3. k - 1 \in Nat /\ ~(k <= k - 1) /\ (k - 1) + 1 = k
    BY <2>2
  <2> HIDE DEF Unsolved
  <2>4. k - 1 \notin Unsolved
    BY <2>1, <2>3
  <2> QED
    BY <2>3, <2>4, <1>2
<1>4. PICK f : Solves(f, Len(t) + 1)
  <2>1. Len(t) + 1 \in Nat
    OBVIOUS
  <2> QED
    BY <1>3, <2>1
<1>5. Within(Len(t) + 1) = Spans(t)
  BY <1>0
<1> QED
  BY <1>4, <1>5

LEMMA ExactsUnfold ==
  ASSUME NEW t, Len(t) \in Nat, NEW i \in 1 .. Len(t) + 1, NEW j \in 0 .. Len(t)
  PROVE  Exacts(t)[<<i, j>>] = ExactSpan(t, i, j, Exacts(t))
<1> DEFINE Solves(f) == f = [s \in Spans(t) |-> ExactSpan(t, s[1], s[2], f)]
           f == CHOOSE h : Solves(h)
<1>1. Solves(f)
  <2>1. \E h : Solves(h)
    BY ExactsExist
  <2> QED
    BY <2>1
<1>2. Exacts(t) = f
  BY Zenon DEF Exacts
<1>3. PICK h : Solves(h) /\ Exacts(t) = h
  BY <1>1, <1>2
<1> HIDE DEF f
<1>4. <<i, j>> \in Spans(t) /\ <<i, j>>[1] = i /\ <<i, j>>[2] = j
  BY DEF Spans
<1>5. h = [s \in Spans(t) |-> ExactSpan(t, s[1], s[2], h)]
  BY <1>3
<1>6. h[<<i, j>>] = ExactSpan(t, <<i, j>>[1], <<i, j>>[2], h)
  BY <1>4, <1>5, Zenon
<1> QED
  BY <1>3, <1>4, <1>6

(* What holds of a span when it holds of all shorter ones holds of all.    *)
LEMMA SpanInduction ==
  ASSUME NEW t, Len(t) \in Nat, NEW Good,
         \A i \in 1 .. Len(t) + 1, j \in 0 .. Len(t) :
           (\A a \in 1 .. Len(t) + 1, b \in 0 .. Len(t) : b - a < j - i => <<a, b>> \in Good)
             => <<i, j>> \in Good
  PROVE  \A i \in 1 .. Len(t) + 1, j \in 0 .. Len(t) : <<i, j>> \in Good
<1> DEFINE Wrong == {d \in Nat : \E i \in 1 .. Len(t) + 1, j \in 0 .. Len(t) :
                       d = j - i + Len(t) + 1 /\ <<i, j>> \notin Good}
<1>1. Wrong = {}
  <2> SUFFICES ASSUME Wrong # {} PROVE FALSE
    OBVIOUS
  <2>1. PICK d \in Wrong : \A y \in Wrong : d <= y
    BY LeastNumber
  <2>2. PICK i \in 1 .. Len(t) + 1, j \in 0 .. Len(t) :
           d = j - i + Len(t) + 1 /\ <<i, j>> \notin Good
    BY <2>1
  <2>3. ASSUME NEW a \in 1 .. Len(t) + 1, NEW b \in 0 .. Len(t), b - a < j - i
        PROVE  <<a, b>> \in Good
    <3>1. b - a + Len(t) + 1 \in Nat /\ ~(d <= b - a + Len(t) + 1)
      BY <2>2, <2>3, SMTT(30)
    <3>2. b - a + Len(t) + 1 \notin Wrong
      BY <2>1, <3>1, Zenon
    <3> QED
      BY <3>1, <3>2
  <2> QED
    BY <2>2, <2>3
<1> TAKE i \in 1 .. Len(t) + 1, j \in 0 .. Len(t)
<1>2. j - i + Len(t) + 1 \in Nat
  OBVIOUS
<1>3. j - i + Len(t) + 1 \notin Wrong
  BY <1>1
<1> QED
  BY <1>2, <1>3

(* Signs of operators and parentheses among the terminals.                 *)
LEMMA SignTerminals ==
  /\ \A x \in Sums \cup Products : ~Begins(x) /\ ~Ends(x) /\ x # <<"(">> /\ x # <<")">>
  /\ Begins(<<"(">>) /\ ~Ends(<<"(">>) /\ ~Begins(<<")">>) /\ Ends(<<")">>)
  /\ \A x : x[1] \notin Operators =>
       Begins(x) /\ Ends(x) /\ x \notin Sums \cup Products /\ x # <<"(">> /\ x # <<")">>
<1>1. \A c : <<c>>[1] = c
  OBVIOUS
<1>2. /\ "+" \in Operators /\ "-" \in Operators /\ "*" \in Operators /\ "/" \in Operators
      /\ "(" \in Operators /\ ")" \in Operators
  BY DEF Operators
<1>3. /\ "(" # ")" /\ "+" # "(" /\ "+" # ")" /\ "-" # "(" /\ "-" # ")"
      /\ "*" # "(" /\ "*" # ")" /\ "/" # "(" /\ "/" # ")"
  OBVIOUS
<1>4. \A x : x \in Sums \cup Products <=>
               x = <<"+">> \/ x = <<"-">> \/ x = <<"*">> \/ x = <<"/">>
  BY DEF Sums, Products
<1>5. \A x : x[1] \notin Operators => x \notin Sums \cup Products /\ x # <<"(">> /\ x # <<")">>
  BY <1>1, <1>2, <1>4
<1>6. \A x \in Sums \cup Products : x # <<"(">> /\ x # <<")">> /\ x[1] \in Operators
  BY <1>1, <1>2, <1>3, <1>4
<1>7. <<"(">> # <<")">>
  OBVIOUS
<1> QED
  BY <1>1, <1>2, <1>5, <1>6, <1>7 DEF Begins, Ends

(* What a text that has a reading looks like.                              *)
Alternates(t, i, j) ==
  /\ i <= j
  /\ Begins(t[i]) /\ Ends(t[j])
  /\ Closed(t, i, j)
  /\ \A k \in i .. j - 1 : Ends(t[k]) <=> ~Begins(t[k + 1])

LEMMA OneAlternates ==
  ASSUME NEW t, NEW i \in Int, t[i][1] \notin Operators
  PROVE  Alternates(t, i, i)
<1>1. Begins(t[i]) /\ Ends(t[i]) /\ t[i] # <<"(">> /\ t[i] # <<")">>
  BY SignTerminals
<1>2. Depth(t, i, i) = 0 /\ Depth(t, i, i + 1) = 0
  BY <1>1, DepthOfOne
<1>3. \A k \in i .. i + 1 : k = i \/ k = i + 1
  OBVIOUS
<1>4. Closed(t, i, i)
  BY <1>2, <1>3 DEF Closed
<1>5. \A k \in i .. i - 1 : FALSE
  OBVIOUS
<1> QED
  BY <1>1, <1>4, <1>5 DEF Alternates

LEMMA JoinedAlternate ==
  ASSUME NEW t, NEW i \in Int, NEW j \in Int, NEW k \in i .. j,
         Alternates(t, i, k - 1), Alternates(t, k + 1, j), t[k] \in Sums \cup Products
  PROVE  Alternates(t, i, j)
<1>1. ~Begins(t[k]) /\ ~Ends(t[k]) /\ t[k] \notin {<<"(">>, <<")">>}
  BY SignTerminals
<1>2. Closed(t, i, j)
  <2>1. Closed(t, i, k - 1) /\ Closed(t, k + 1, j)
    BY DEF Alternates
  <2> QED
    BY <1>1, <2>1, Joined
<1>3. \A m \in i .. j - 1 : Ends(t[m]) <=> ~Begins(t[m + 1])
  <2> TAKE m \in i .. j - 1
  <2>0. m \in Int /\ k \in Int
    OBVIOUS
  <2>1. CASE m \in i .. (k - 1) - 1
    BY <2>1 DEF Alternates
  <2>2. CASE m = k - 1
    <3>1. m + 1 = k
      BY <2>0, <2>2
    <3>2. Ends(t[m])
      BY <2>2 DEF Alternates
    <3> QED
      BY <1>1, <3>1, <3>2
  <2>3. CASE m = k
    <3>1. Begins(t[m + 1])
      BY <2>3 DEF Alternates
    <3> QED
      BY <1>1, <2>3, <3>1
  <2>4. CASE m \in k + 1 .. j - 1
    BY <2>4 DEF Alternates
  <2>5. m \in i .. (k - 1) - 1 \/ m = k - 1 \/ m = k \/ m \in k + 1 .. j - 1
    BY <2>0
  <2> QED
    BY <2>1, <2>2, <2>3, <2>4, <2>5
<1> QED
  BY <1>2, <1>3 DEF Alternates

LEMMA EnclosedAlternates ==
  ASSUME NEW t, NEW i \in Int, NEW j \in Int, Enclosed(t, i, j), Alternates(t, i + 1, j - 1)
  PROVE  Alternates(t, i, j)
<1>1. i < j /\ t[i] = <<"(">> /\ t[j] = <<")">>
  BY DEF Enclosed
<1>2. Begins(t[i]) /\ ~Ends(t[i]) /\ ~Begins(t[j]) /\ Ends(t[j])
  BY <1>1, SignTerminals
<1>3. Closed(t, i, j)
  <2>1. Closed(t, i + 1, j - 1)
    BY DEF Alternates
  <2> QED
    BY <1>1, <2>1, InParentheses
<1>4. \A m \in i .. j - 1 : Ends(t[m]) <=> ~Begins(t[m + 1])
  <2> TAKE m \in i .. j - 1
  <2>1. CASE m = i
    BY <1>2, <2>1 DEF Alternates
  <2>2. CASE m = j - 1
    <3>1. m + 1 = j
      BY <2>2
    <3> QED
      BY <1>2, <2>2, <3>1 DEF Alternates
  <2>3. CASE m \in i + 1 .. (j - 1) - 1
    BY <2>3 DEF Alternates
  <2>4. m = i \/ m = j - 1 \/ m \in i + 1 .. (j - 1) - 1
    BY <1>1
  <2> QED
    BY <2>1, <2>2, <2>3, <2>4
<1> QED
  BY <1>1, <1>2, <1>3, <1>4 DEF Alternates

LEMMA ReadingsAlternate ==
  ASSUME NEW t, Len(t) \in Nat, NEW a \in 1 .. Len(t) + 1, NEW b \in 0 .. Len(t),
         Readings(t)[<<a, b>>] # {}
  PROVE  Alternates(t, a, b)
<1> DEFINE Good == {s \in Spans(t) : Readings(t)[s] # {} => Alternates(t, s[1], s[2])}
<1>1. ASSUME NEW i \in 1 .. Len(t) + 1, NEW j \in 0 .. Len(t),
             \A c \in 1 .. Len(t) + 1, d \in 0 .. Len(t) : d - c < j - i => <<c, d>> \in Good
      PROVE  <<i, j>> \in Good
  <2>0. i \in Nat \ {0} /\ i \in Int /\ j \in Int
    OBVIOUS
  <2>1. \A c \in 1 .. Len(t) + 1, d \in 0 .. Len(t) :
           d - c < j - i /\ Readings(t)[<<c, d>>] # {} => Alternates(t, c, d)
    BY <1>1
  <2> HIDE DEF Good
  <2>2. SUFFICES ASSUME Readings(t)[<<i, j>>] # {} PROVE Alternates(t, i, j)
    BY DEF Good, Spans
  <2>3. ReadSpan(t, i, j, Readings(t)) # {}
    BY <2>2, ReadingsUnfold
  <2> DEFINE k == Split(t, i, j)
  <2>4. k = 0 \/ (k \in i .. j /\ k > 0 /\ t[k] \in Sums \cup Products)
    BY <2>0, SplitBounds
  <2>5. CASE k \in i .. j /\ k > 0 /\ t[k] \in Sums \cup Products
    <3>1. Readings(t)[<<i, k - 1>>] # {} /\ Readings(t)[<<k + 1, j>>] # {}
      BY <2>3, <2>5 DEF ReadSpan
    <3> HIDE DEF k
    <3>2. /\ k - 1 \in 0 .. Len(t) /\ k + 1 \in 1 .. Len(t) + 1
          /\ (k - 1) - i < j - i /\ j - (k + 1) < j - i
      BY <2>0, <2>5
    <3>3. Alternates(t, i, k - 1) /\ Alternates(t, k + 1, j)
      BY <2>1, <3>1, <3>2
    <3> QED
      BY <2>0, <2>5, <3>3, JoinedAlternate
  <2>6. CASE k = 0
    <3>1. ~(k > 0)
      BY <2>6
    <3>2. CASE i = j /\ t[i][1] \notin Operators
      BY <2>0, <3>2, OneAlternates
    <3>3. CASE ~(i = j /\ t[i][1] \notin Operators)
      <4>1. Enclosed(t, i, j) /\ Readings(t)[<<i + 1, j - 1>>] # {}
        BY <2>3, <3>1, <3>3, Zenon DEF ReadSpan
      <4>2. /\ i + 1 \in 1 .. Len(t) + 1 /\ j - 1 \in 0 .. Len(t)
            /\ (j - 1) - (i + 1) < j - i
        BY <2>0, <4>1 DEF Enclosed
      <4>3. Alternates(t, i + 1, j - 1)
        BY <2>1, <4>1, <4>2
      <4> QED
        BY <2>0, <4>1, <4>3, EnclosedAlternates
    <3> QED
      BY <3>2, <3>3
  <2> QED
    BY <2>4, <2>5, <2>6
<1> HIDE DEF Good
<1>2. <<a, b>> \in Good
  BY <1>1, SpanInduction
<1> QED
  BY <1>2 DEF Good

(* A value is said only of an expression.                                  *)
LEMMA ExactsAreReadings ==
  ASSUME NEW t, Len(t) \in Nat, NEW a \in 1 .. Len(t) + 1, NEW b \in 0 .. Len(t),
         Exacts(t)[<<a, b>>] # {}
  PROVE  Readings(t)[<<a, b>>] # {}
<1> DEFINE Good == {s \in Spans(t) : Exacts(t)[s] # {} => Readings(t)[s] # {}}
<1>1. ASSUME NEW i \in 1 .. Len(t) + 1, NEW j \in 0 .. Len(t),
             \A c \in 1 .. Len(t) + 1, d \in 0 .. Len(t) : d - c < j - i => <<c, d>> \in Good
      PROVE  <<i, j>> \in Good
  <2>0. i \in Nat \ {0} /\ i \in Int /\ j \in Int
    OBVIOUS
  <2>1. \A c \in 1 .. Len(t) + 1, d \in 0 .. Len(t) :
           d - c < j - i /\ Exacts(t)[<<c, d>>] # {} => Readings(t)[<<c, d>>] # {}
    BY <1>1
  <2> HIDE DEF Good
  <2>2. SUFFICES ASSUME Exacts(t)[<<i, j>>] # {} PROVE Readings(t)[<<i, j>>] # {}
    BY DEF Good, Spans
  <2>3. ExactSpan(t, i, j, Exacts(t)) # {}
    BY <2>2, ExactsUnfold
  <2> DEFINE k == Split(t, i, j)
  <2>4. k = 0 \/ (k \in i .. j /\ k > 0)
    BY <2>0, SplitBounds
  <2>5. ReadSpan(t, i, j, Readings(t)) # {}
    <3>1. CASE k \in i .. j /\ k > 0
      <4>1. Exacts(t)[<<i, k - 1>>] # {} /\ Exacts(t)[<<k + 1, j>>] # {}
        BY <2>3, <3>1 DEF ExactSpan
      <4>2. /\ k - 1 \in 0 .. Len(t) /\ k + 1 \in 1 .. Len(t) + 1
            /\ (k - 1) - i < j - i /\ j - (k + 1) < j - i
        <5> HIDE DEF k
        <5> QED
          BY <2>0, <3>1
      <4>3. Readings(t)[<<i, k - 1>>] # {} /\ Readings(t)[<<k + 1, j>>] # {}
        BY <2>1, <4>1, <4>2
      <4>4. Readings(t)[<<i, k - 1>>] \X Readings(t)[<<k + 1, j>>] # {}
        <5>1. PICK x, y : x \in Readings(t)[<<i, k - 1>>] /\ y \in Readings(t)[<<k + 1, j>>]
          BY <4>3
        <5>2. <<x, y>> \in Readings(t)[<<i, k - 1>>] \X Readings(t)[<<k + 1, j>>]
          BY <5>1
        <5> QED
          BY <5>2
      <4> QED
        BY <3>1, <4>4 DEF ReadSpan
    <3>2. CASE k = 0
      <4>1. ~(k > 0)
        BY <3>2
      <4>2. CASE i = j /\ t[i][1] \notin Operators
        BY <4>1, <4>2 DEF ReadSpan
      <4>3. CASE ~(i = j /\ t[i][1] \notin Operators)
        <5>1. Enclosed(t, i, j) /\ Exacts(t)[<<i + 1, j - 1>>] # {}
          BY <2>3, <4>1, <4>3, Zenon DEF ExactSpan
        <5>2. /\ i + 1 \in 1 .. Len(t) + 1 /\ j - 1 \in 0 .. Len(t)
              /\ (j - 1) - (i + 1) < j - i
          BY <2>0, <5>1 DEF Enclosed
        <5>3. Readings(t)[<<i + 1, j - 1>>] # {}
          BY <2>1, <5>1, <5>2
        <5> QED
          BY <4>1, <4>3, <5>1, <5>3, Zenon DEF ReadSpan
      <4> QED
        BY <4>2, <4>3
    <3> QED
      BY <2>4, <3>1, <3>2
  <2> QED
    BY <2>5, ReadingsUnfold
<1> HIDE DEF Good
<1>2. <<a, b>> \in Good
  BY <1>1, SpanInduction
<1> QED
  BY <1>2 DEF Good

-----------------------------------------------------------------------------
(* The text and the value of a tree. *)

(* EvalAST() of one node, from that of its children.                       *)
Eval(nodes, i, eval) ==
  IF nodes[i].gauche = 0
    THEN IF nodes[i].terminal.type = "CONSTANTE" THEN {ParseInt(nodes[i].terminal.chaine)} ELSE {}
    ELSE Applied(nodes[i].terminal.chaine, eval[nodes[i].gauche], eval[nodes[i].droit])

(* A node looks at its own terminal and at its children.                   *)
LEMMA LectLooksBelow ==
  ASSUME NEW nodes, Tree(nodes), NEW i \in 1 .. Len(nodes), NEW more, more[i] = nodes[i],
         NEW f, NEW g, \A m \in 1 .. i - 1 : f[m] = g[m]
  PROVE  Lect(nodes, i, f) = Lect(more, i, g)
<1>1. nodes[i].gauche = 0 \/ (nodes[i].gauche \in 1 .. i - 1 /\ nodes[i].droit \in 1 .. i - 1)
  BY DEF Tree
<1>2. CASE nodes[i].gauche = 0
  BY <1>2, Zenon DEF Lect
<1>3. CASE nodes[i].gauche # 0
  <2>1. f[nodes[i].gauche] = g[nodes[i].gauche] /\ f[nodes[i].droit] = g[nodes[i].droit]
    BY <1>1, <1>3
  <2> QED
    BY <1>3, <2>1, Zenon DEF Lect
<1> QED
  BY <1>2, <1>3

LEMMA EvalLooksBelow ==
  ASSUME NEW nodes, Tree(nodes), NEW i \in 1 .. Len(nodes), NEW more, more[i] = nodes[i],
         NEW f, NEW g, \A m \in 1 .. i - 1 : f[m] = g[m]
  PROVE  Eval(nodes, i, f) = Eval(more, i, g)
<1>1. nodes[i].gauche = 0 \/ (nodes[i].gauche \in 1 .. i - 1 /\ nodes[i].droit \in 1 .. i - 1)
  BY DEF Tree
<1>2. CASE nodes[i].gauche = 0
  BY <1>2 DEF Eval
<1>3. CASE nodes[i].gauche # 0
  <2>1. f[nodes[i].gauche] = g[nodes[i].gauche] /\ f[nodes[i].droit] = g[nodes[i].droit]
    BY <1>1, <1>3
  <2> QED
    BY <1>3, <2>1, Zenon DEF Eval
<1> QED
  BY <1>2, <1>3

(* The recursion of EvalAST() ends. *)
LEMMA EvalExists ==
  ASSUME NEW nodes, Tree(nodes)
  PROVE  \E f : f = [i \in 1 .. Len(nodes) |-> Eval(nodes, i, f)]
<1> DEFINE Solves(f, b) == f = [i \in 1 .. b |-> Eval(nodes, i, f)]
           Unsolved == {b \in Nat : b <= Len(nodes) /\ ~ \E f : Solves(f, b)}
<1>0. Len(nodes) \in Nat
  BY LenProperties DEF Tree
<1>1. 0 \notin Unsolved
  <2> DEFINE f == [i \in {} |-> i]
  <2>1. 1 .. 0 = {}
    OBVIOUS
  <2>2. Solves(f, 0)
    BY <2>1
  <2> QED
    BY <2>2
<1>2. ASSUME NEW b \in Nat, b \notin Unsolved, b + 1 <= Len(nodes)
      PROVE  b + 1 \notin Unsolved
  <2>1. PICK f : Solves(f, b)
    BY <1>0, <1>2
  <2> DEFINE g == [i \in 1 .. b + 1 |-> Eval(nodes, i, f)]
  <2>2. \A i \in 1 .. b : i \in 1 .. b + 1 /\ g[i] = f[i]
    <3> TAKE i \in 1 .. b
    <3>1. f[i] = Eval(nodes, i, f)
      BY <2>1, Zenon
    <3> QED
      BY <3>1
  <2>3. \A i \in 1 .. b + 1 : Eval(nodes, i, f) = Eval(nodes, i, g)
    <3> TAKE i \in 1 .. b + 1
    <3> HIDE DEF g
    <3>1. i \in 1 .. Len(nodes) /\ \A m \in 1 .. i - 1 : m \in 1 .. b
      BY <1>0, <1>2
    <3>2. \A m \in 1 .. i - 1 : f[m] = g[m]
      BY <2>2, <3>1
    <3> QED
      BY <3>1, <3>2, EvalLooksBelow
  <2>4. Solves(g, b + 1)
    BY <2>3
  <2> QED
    BY <2>4
<1>3. Unsolved = {}
  <2> SUFFICES ASSUME Unsolved # {} PROVE FALSE
    OBVIOUS
  <2>1. PICK k \in Unsolved : \A y \in Unsolved : k <= y
    BY LeastNumber
  <2>2. k \in Nat /\ k # 0 /\ k <= Len(nodes)
    BY <1>1
  <2>3. k - 1 \in Nat /\ ~(k <= k - 1) /\ (k - 1) + 1 = k
    BY <2>2
  <2> HIDE DEF Unsolved
  <2>4. k - 1 \notin Unsolved
    BY <2>1, <2>3
  <2> QED
    BY <2>2, <2>3, <2>4, <1>2
<1> QED
  BY <1>0, <1>3

LEMMA LectUnfolds ==
  ASSUME NEW nodes, Tree(nodes), NEW i \in 1 .. Len(nodes)
  PROVE  LectAST(nodes)[i] = Lect(nodes, i, LectAST(nodes))
<1> DEFINE Solves(f) == f = [k \in 1 .. Len(nodes) |-> Lect(nodes, k, f)]
           f == CHOOSE h : Solves(h)
<1>0. DOMAIN nodes = 1 .. Len(nodes)
  BY LenProperties DEF Tree
<1>1. Solves(f)
  <2>1. \E h : Solves(h)
    BY LectExists
  <2> QED
    BY <2>1
<1>2. LectAST(nodes) = f
  BY <1>0, Zenon DEF LectAST, Lect
<1>3. PICK h : Solves(h) /\ LectAST(nodes) = h
  BY <1>1, <1>2
<1> HIDE DEF f
<1>4. h = [k \in 1 .. Len(nodes) |-> Lect(nodes, k, h)]
  BY <1>3
<1>5. h[i] = Lect(nodes, i, h)
  BY <1>4, Zenon
<1> QED
  BY <1>3, <1>5

(* A node that is added changes nothing below it.                          *)
LEMMA LectKept ==
  ASSUME NEW nodes, Tree(nodes), NEW more, Tree(more), Len(nodes) <= Len(more),
         \A k \in 1 .. Len(nodes) : more[k] = nodes[k], NEW i \in 1 .. Len(nodes)
  PROVE  LectAST(more)[i] = LectAST(nodes)[i]
<1> DEFINE Wrong == {k \in Nat : k \in 1 .. Len(nodes) /\ LectAST(more)[k] # LectAST(nodes)[k]}
<1>0. Len(nodes) \in Nat /\ Len(more) \in Nat
  BY LenProperties DEF Tree
<1>1. Wrong = {}
  <2> SUFFICES ASSUME Wrong # {} PROVE FALSE
    OBVIOUS
  <2>1. PICK k \in Wrong : \A y \in Wrong : k <= y
    BY LeastNumber
  <2>2. k \in 1 .. Len(nodes) /\ k \in 1 .. Len(more) /\ LectAST(more)[k] # LectAST(nodes)[k]
    BY <1>0, <2>1
  <2>3. ASSUME NEW m \in 1 .. k - 1 PROVE LectAST(nodes)[m] = LectAST(more)[m]
    <3>1. m \in Nat /\ m \in 1 .. Len(nodes) /\ ~(k <= m)
      BY <1>0, <2>2
    <3>2. m \notin Wrong
      BY <2>1, <3>1, Zenon
    <3> QED
      BY <3>1, <3>2
  <2>4. Lect(nodes, k, LectAST(nodes)) = Lect(more, k, LectAST(more))
    BY <2>2, <2>3, LectLooksBelow
  <2> QED
    BY <2>2, <2>4, LectUnfolds
<1>2. i \in Nat
  BY <1>0
<1> QED
  BY <1>1, <1>2

LEMMA EvalUnfolds ==
  ASSUME NEW nodes, Tree(nodes), NEW i \in 1 .. Len(nodes)
  PROVE  EvalAST(nodes)[i] = Eval(nodes, i, EvalAST(nodes))
<1> DEFINE Solves(f) == f = [k \in 1 .. Len(nodes) |-> Eval(nodes, k, f)]
           f == CHOOSE h : Solves(h)
<1>0. DOMAIN nodes = 1 .. Len(nodes)
  BY LenProperties DEF Tree
<1>1. Solves(f)
  <2>1. \E h : Solves(h)
    BY EvalExists
  <2> QED
    BY <2>1
<1>2. EvalAST(nodes) = f
  BY <1>0, Zenon DEF EvalAST, Eval
<1>3. PICK h : Solves(h) /\ EvalAST(nodes) = h
  BY <1>1, <1>2
<1> HIDE DEF f
<1>4. h = [k \in 1 .. Len(nodes) |-> Eval(nodes, k, h)]
  BY <1>3
<1>5. h[i] = Eval(nodes, i, h)
  BY <1>4, Zenon
<1> QED
  BY <1>3, <1>5

LEMMA EvalKept ==
  ASSUME NEW nodes, Tree(nodes), NEW more, Tree(more), Len(nodes) <= Len(more),
         \A k \in 1 .. Len(nodes) : more[k] = nodes[k], NEW i \in 1 .. Len(nodes)
  PROVE  EvalAST(more)[i] = EvalAST(nodes)[i]
<1> DEFINE Wrong == {k \in Nat : k \in 1 .. Len(nodes) /\ EvalAST(more)[k] # EvalAST(nodes)[k]}
<1>0. Len(nodes) \in Nat /\ Len(more) \in Nat
  BY LenProperties DEF Tree
<1>1. Wrong = {}
  <2> SUFFICES ASSUME Wrong # {} PROVE FALSE
    OBVIOUS
  <2>1. PICK k \in Wrong : \A y \in Wrong : k <= y
    BY LeastNumber
  <2>2. k \in 1 .. Len(nodes) /\ k \in 1 .. Len(more) /\ EvalAST(more)[k] # EvalAST(nodes)[k]
    BY <1>0, <2>1
  <2>3. ASSUME NEW m \in 1 .. k - 1 PROVE EvalAST(nodes)[m] = EvalAST(more)[m]
    <3>1. m \in Nat /\ m \in 1 .. Len(nodes) /\ ~(k <= m)
      BY <1>0, <2>2
    <3>2. m \notin Wrong
      BY <2>1, <3>1, Zenon
    <3> QED
      BY <3>1, <3>2
  <2>4. Eval(nodes, k, EvalAST(nodes)) = Eval(more, k, EvalAST(more))
    BY <2>2, <2>3, EvalLooksBelow
  <2> QED
    BY <2>2, <2>4, EvalUnfolds
<1>2. i \in Nat
  BY <1>0
<1> QED
  BY <1>1, <1>2

-----------------------------------------------------------------------------
(* The arithmetic of int. *)

LEMMA ProductNat == ASSUME NEW x \in Nat, NEW y \in Nat PROVE x * y \in Nat
OBVIOUS

LEMMA SquaresGrow ==
  ASSUME NEW b \in Nat, NEW r \in Nat, r * r < b * b
  PROVE  r < b
<1>1. SUFFICES ASSUME NEW d \in Nat, r = b + d PROVE FALSE
  <2>1. b <= r => r - b \in Nat /\ r = b + (r - b)
    OBVIOUS
  <2> QED
    BY <2>1
<1>2. r * r = b * b + b * d + d * r
  BY <1>1
<1>3. b * d \in Nat /\ d * r \in Nat
  BY ProductNat
<1> QED
  BY <1>2, <1>3

LEMMA SignOfFactor ==
  ASSUME NEW v \in Int, NEW b \in Nat, b > 0, v * b > -b
  PROVE  v \in Nat
<1>1. SUFFICES ASSUME NEW d \in Nat, v = -1 - d PROVE FALSE
  <2>1. v <= -1 => -1 - v \in Nat /\ v = -1 - (-1 - v)
    OBVIOUS
  <2> QED
    BY <2>1
<1>2. v * b = -b - d * b
  BY <1>1
<1>3. d * b \in Nat
  BY ProductNat
<1> QED
  BY <1>2, <1>3

LEMMA DivUnique ==
  ASSUME NEW y \in Nat, y > 0, NEW q \in Nat, NEW r \in 0 .. y - 1
  PROVE  (q * y + r) \div y = q
OBVIOUS

(* The quotient rounded towards 0 is the only one whose remainder has the  *)
(* sign of the dividend: of natural numbers, and of all.                   *)
LEMMA NaturalQuotient ==
  ASSUME NEW a \in Nat, NEW b \in Nat, NEW v \in Int, NEW r \in Int,
         a = v * b + r, r * r < b * b, r * a >= 0
  PROVE  b > 0 /\ a \div b = v
<1>0. v * b \in Int /\ r * r \in Int /\ r * a \in Int
  OBVIOUS
<1>1. b > 0
  <2>1. SUFFICES ASSUME b = 0 PROVE FALSE
    OBVIOUS
  <2>2. r * r < 0
    BY <2>1
  <2>3. CASE r \in Nat
    BY <2>2, <2>3, ProductNat
  <2>4. CASE -r \in Nat
    <3>1. (-r) * (-r) \in Nat /\ (-r) * (-r) = r * r
      BY <2>4, ProductNat
    <3> QED
      BY <2>2, <3>1
  <2> QED
    BY <2>3, <2>4
<1>2. CASE r \in Nat
  <2>1. r < b
    BY <1>2, SquaresGrow
  <2>2. v * b > -b
    BY <1>0, <2>1
  <2>3. v \in Nat
    BY <1>1, <2>2, SignOfFactor
  <2>4. r \in 0 .. b - 1
    BY <1>2, <2>1
  <2> QED
    BY <1>1, <2>3, <2>4, DivUnique
<1>3. CASE r < 0
  <2>1. PICK s \in Nat : s = -r /\ s > 0
    BY <1>3
  <2>2. s * s = r * r
    BY <2>1
  <2>3. s < b
    BY <2>1, <2>2, SquaresGrow
  <2>4. a = 0
    <3>1. SUFFICES ASSUME NEW d \in Nat, a = d + 1 PROVE FALSE
      <4>1. a # 0 => a - 1 \in Nat /\ a = (a - 1) + 1
        OBVIOUS
      <4> QED
        BY <4>1
    <3>2. r * a = -(s * d) - s
      BY <2>1, <3>1
    <3>3. s * d \in Nat
      BY ProductNat
    <3> QED
      BY <2>1, <3>2, <3>3
  <2>5. v * b = s
    BY <1>0, <2>1, <2>4
  <2>6. v \in Nat
    <3>1. v * b > -b
      BY <1>1, <2>5
    <3> QED
      BY <1>1, <3>1, SignOfFactor
  <2>7. v # 0
    <3>1. 0 * b = 0
      OBVIOUS
    <3> QED
      BY <2>1, <2>5, <3>1
  <2>8. PICK d \in Nat : v = d + 1
    <3>1. v - 1 \in Nat /\ v = (v - 1) + 1
      BY <2>6, <2>7
    <3> QED
      BY <3>1
  <2>9. v * b = d * b + b /\ d * b \in Nat
    BY <2>8, ProductNat
  <2> QED
    BY <2>3, <2>5, <2>9
<1> QED
  BY <1>1, <1>2, <1>3

LEMMA QuotientExact ==
  ASSUME NEW a \in Int, NEW b \in Int, NEW v \in Int, NEW r \in Int,
         a = v * b + r, r * r < b * b, r * a >= 0
  PROVE  b # 0 /\ Quotient(a, b) = v
<1>0. \A x, y \in Int : /\ (-x) * y = -(x * y) /\ x * (-y) = -(x * y) /\ (-x) * (-y) = x * y
                        /\ x * y \in Int
  OBVIOUS
<1>1. CASE a >= 0 /\ b >= 0
  <2>1. b > 0 /\ a \div b = v
    BY <1>1, NaturalQuotient
  <2> QED
    BY <1>1, <2>1 DEF Quotient
<1>2. CASE a >= 0 /\ b < 0
  <2>1. PICK c \in Nat, w \in Int : c = -b /\ w = -v
    BY <1>2
  <2>2. w * c = v * b /\ c * c = b * b
    BY <1>0, <2>1
  <2>3. a = w * c + r /\ r * r < c * c
    BY <2>2
  <2>4. c > 0 /\ a \div c = w
    BY <1>2, <2>3, NaturalQuotient
  <2>5. Quotient(a, b) = -(a \div c)
    BY <1>2, <2>1 DEF Quotient
  <2> QED
    BY <2>1, <2>4, <2>5
<1>3. CASE a < 0 /\ b >= 0
  <2>1. PICK d \in Nat, w \in Int, s \in Int : d = -a /\ w = -v /\ s = -r
    BY <1>3
  <2>2. w * b = -(v * b) /\ s * s = r * r /\ s * d = r * a /\ v * b \in Int
    BY <1>0, <2>1
  <2>3. d = w * b + s /\ s * s < b * b /\ s * d >= 0
    BY <2>1, <2>2
  <2>4. b > 0 /\ d \div b = w
    BY <1>3, <2>3, NaturalQuotient
  <2>5. Quotient(a, b) = -(d \div b)
    BY <1>3, <2>1, <2>4 DEF Quotient
  <2> QED
    BY <2>1, <2>4, <2>5
<1>4. CASE a < 0 /\ b < 0
  <2>1. PICK d \in Nat, c \in Nat, s \in Int : d = -a /\ c = -b /\ s = -r
    BY <1>4
  <2>2. v * c = -(v * b) /\ s * s = r * r /\ s * d = r * a /\ c * c = b * b /\ v * b \in Int
    BY <1>0, <2>1
  <2>3. d = v * c + s /\ s * s < c * c /\ s * d >= 0
    BY <2>1, <2>2
  <2>4. c > 0 /\ d \div c = v
    BY <2>3, NaturalQuotient
  <2>5. Quotient(a, b) = d \div c
    BY <1>4, <2>1 DEF Quotient
  <2> QED
    BY <2>1, <2>4, <2>5
<1> QED
  BY <1>1, <1>2, <1>3, <1>4

(* A result that fits an int is the one of the integers.                   *)
LEMMA WrapExact ==
  ASSUME NEW v \in Ints
  PROVE  Wrap(v) = v
<1>1. IntMax \in Nat /\ v \in Int
  BY IntMaxAssumption DEF Ints
<1>2. PICK m \in Nat : m = 2 * IntMax + 2
  BY <1>1
<1>3. v + IntMax + 1 \in 0 .. m - 1
  BY <1>1, <1>2 DEF Ints
<1>4. \A k \in Nat : \A y \in 0 .. k - 1 : y % k = y
  OBVIOUS
<1>5. (v + IntMax + 1) % m = v + IntMax + 1
  BY <1>3, <1>4
<1> QED
  BY <1>1, <1>2, <1>5 DEF Wrap

LEMMA ApplyExact ==
  ASSUME NEW a \in Ints, NEW b \in Ints, NEW op \in Sums \cup Products, NEW v \in Result(op, a, b)
  PROVE  /\ v \in Ints
         /\ op # <<"/">> \/ b # 0
         /\ Apply(op, a, b) = v
<1>1. IntMax \in Nat /\ a \in Int /\ b \in Int /\ v \in Int /\ v \in Ints
  BY IntMaxAssumption DEF Ints, Result
<1>2. /\ <<"+">> # <<"-">> /\ <<"+">> # <<"*">> /\ <<"+">> # <<"/">>
      /\ <<"-">> # <<"*">> /\ <<"-">> # <<"/">> /\ <<"*">> # <<"/">>
  OBVIOUS
<1>3. Wrap(v) = v
  BY <1>1, WrapExact
<1>4. CASE op = <<"+">>
  <2>1. v = a + b
    BY <1>2, <1>4 DEF Result
  <2> QED
    BY <1>1, <1>2, <1>3, <1>4, <2>1 DEF Apply
<1>5. CASE op = <<"-">>
  <2>1. v = a - b
    BY <1>2, <1>5 DEF Result
  <2> QED
    BY <1>1, <1>2, <1>3, <1>5, <2>1 DEF Apply
<1>6. CASE op = <<"*">>
  <2>1. v = a * b
    BY <1>2, <1>6 DEF Result
  <2> QED
    BY <1>1, <1>2, <1>3, <1>6, <2>1 DEF Apply
<1>7. CASE op = <<"/">>
  <2>1. PICK r \in -IntMax .. IntMax : a = v * b + r /\ r * r < b * b /\ r * a >= 0
    BY <1>2, <1>7 DEF Result
  <2>2. r \in Int
    BY <1>1
  <2>3. b # 0 /\ Quotient(a, b) = v
    BY <1>1, <2>1, <2>2, QuotientExact
  <2> QED
    BY <1>1, <1>2, <1>3, <1>7, <2>3 DEF Apply
<1> QED
  BY <1>4, <1>5, <1>6, <1>7 DEF Sums, Products

-----------------------------------------------------------------------------
(* Trees that stand for spans of the text. *)

(* Fewer operators are outside parentheses than more.                      *)
LEMMA StandsWeaker ==
  ASSUME NEW nodes, NEW node, NEW t, NEW a, NEW b, NEW ops, NEW fewer, fewer \subseteq ops,
         Stands(nodes, node, t, a, b, ops)
  PROVE  Stands(nodes, node, t, a, b, fewer)
<1>1. Outside(t, a, b, fewer) \subseteq Outside(t, a, b, ops)
  BY DEF Outside
<1>2. Outside(t, a, b, fewer) = {}
  BY <1>1 DEF Stands
<1> QED
  BY <1>2 DEF Stands

(* A node that is added changes nothing of the others.                     *)
LEMMA StandsKept ==
  ASSUME NEW nodes, Tree(nodes), NEW more, Tree(more), Len(nodes) <= Len(more),
         \A k \in 1 .. Len(nodes) : more[k] = nodes[k],
         NEW node, NEW t, NEW a, NEW b, NEW ops, Stands(nodes, node, t, a, b, ops)
  PROVE  Stands(more, node, t, a, b, ops)
<1>1. node \in 1 .. Len(nodes) /\ Len(nodes) \in Nat /\ Len(more) \in Nat
  BY LenProperties DEF Stands, Tree
<1>2. LectAST(more)[node] = LectAST(nodes)[node] /\ EvalAST(more)[node] = EvalAST(nodes)[node]
  BY <1>1, LectKept, EvalKept
<1>3. node \in 1 .. Len(more)
  BY <1>1
<1> QED
  BY <1>2, <1>3 DEF Stands

(* A leaf is a span of one terminal.                                       *)
LEMMA LeafStands ==
  ASSUME NEW t, Len(t) \in Nat, NEW nodes, Tree(nodes), NEW i \in 1 .. Len(nodes),
         nodes[i].gauche = 0, NEW a \in 1 .. Len(t), nodes[i].terminal.chaine = t[a],
         t[a][1] \notin Operators, nodes[i].terminal.type = "CONSTANTE" <=> Digit(t[a][1])
  PROVE  Stands(nodes, i, t, a, a, Sums \cup Products)
<1>0. a \in 1 .. Len(t) + 1 /\ a \in 0 .. Len(t) /\ a \in Int /\ a \in 1 .. a
  OBVIOUS
<1>1. Outside(t, a, a, Sums \cup Products) = {}
  <2>1. \A k \in a .. a : k = a
    BY <1>0
  <2>2. t[a] \notin Sums \cup Products
    BY SignTerminals
  <2> QED
    BY <2>1, <2>2 DEF Outside
<1>2. Split(t, a, a) = 0 /\ ~(0 > 0)
  <2>1. ~(0 > 0)
    OBVIOUS
  <2> QED
    BY <1>1, <2>1, NoSplit, Zenon
<1>3. Closed(t, a, a)
  BY <1>0, OneAlternates DEF Alternates
<1>4. Readings(t)[<<a, a>>] = {t[a]}
  <2>1. ReadSpan(t, a, a, Readings(t)) = {t[a]}
    BY <1>2, Zenon DEF ReadSpan
  <2> QED
    BY <1>0, <2>1, ReadingsUnfold
<1>5. Exacts(t)[<<a, a>>] = {v \in Ints : Digit(t[a][1]) /\ v = Numeral(t[a])}
  <2>1. ExactSpan(t, a, a, Exacts(t)) = {v \in Ints : Digit(t[a][1]) /\ v = Numeral(t[a])}
    BY <1>2, Zenon DEF ExactSpan
  <2> QED
    BY <1>0, <2>1, ExactsUnfold
<1>6. LectAST(nodes)[i] = t[a]
  <2>1. LectAST(nodes)[i] = Lect(nodes, i, LectAST(nodes))
    BY LectUnfolds
  <2> QED
    BY <2>1 DEF Lect
<1>7. EvalAST(nodes)[i] = IF Digit(t[a][1]) THEN {ParseInt(t[a])} ELSE {}
  <2>1. EvalAST(nodes)[i] = Eval(nodes, i, EvalAST(nodes))
    BY EvalUnfolds
  <2> QED
    BY <2>1 DEF Eval
<1>8. ASSUME NEW v \in Exacts(t)[<<a, a>>] PROVE v \in Ints /\ EvalAST(nodes)[i] = {v}
  <2>1. v \in Ints /\ Digit(t[a][1]) /\ v = Numeral(t[a])
    BY <1>5
  <2>2. v <= IntMax
    BY <2>1, IntMaxAssumption DEF Ints
  <2>3. ParseInt(t[a]) = v
    BY <2>1, <2>2 DEF ParseInt
  <2> QED
    BY <1>7, <2>1, <2>3
<1>9. EvalAST(nodes)[i] # {} => \A k \in a .. a : t[k][1] \notin Letters
  <2> SUFFICES ASSUME EvalAST(nodes)[i] # {}, NEW k \in a .. a PROVE t[k][1] \notin Letters
    OBVIOUS
  <2>1. k = a /\ Digit(t[k][1])
    BY <1>0, <1>7
  <2> QED
    BY <2>1, NoDigitIsAnOperator
<1> QED
  BY <1>0, <1>1, <1>3, <1>4, <1>6, <1>8, <1>9 DEF Stands

(* Parentheses are not in the tree.                                        *)
LEMMA ParenthesesStand ==
  ASSUME NEW t, Len(t) \in Nat, NEW nodes, NEW node, NEW a \in 1 .. Len(t), NEW b \in 1 .. Len(t),
         Stands(nodes, node, t, a + 1, b - 1, {}), t[a] = <<"(">>, t[b] = <<")">>
  PROVE  Stands(nodes, node, t, a, b, Sums \cup Products)
<1>0. a + 1 \in 1 .. b - 1 /\ a < b /\ a \in 1 .. b /\ a \in Int /\ b \in Int
  BY DEF Stands
<1>1. Closed(t, a, b) /\ \A m \in a + 1 .. b : Depth(t, a, m) >= 1
  <2>1. Closed(t, a + 1, b - 1)
    BY DEF Stands
  <2> QED
    BY <1>0, <2>1, InParentheses
<1>2. Outside(t, a, b, Sums \cup Products) = {}
  <2> SUFFICES ASSUME NEW k \in a .. b, t[k] \in Sums \cup Products, Depth(t, a, k) = 0
               PROVE  FALSE
    BY DEF Outside
  <2>1. k # a
    BY SignTerminals
  <2>2. k \in a + 1 .. b
    BY <1>0, <2>1
  <2> QED
    BY <1>1, <2>2
<1>3. Split(t, a, b) = 0 /\ ~(0 > 0) /\ a # b
  <2>1. ~(0 > 0) /\ a # b
    BY <1>0
  <2> QED
    BY <1>2, <2>1, NoSplit, Zenon
<1>4. Enclosed(t, a, b)
  BY <1>0 DEF Enclosed
<1>5. a \in 1 .. Len(t) + 1 /\ b \in 0 .. Len(t)
  OBVIOUS
<1>6. Readings(t)[<<a, b>>] = Readings(t)[<<a + 1, b - 1>>]
  <2>1. ReadSpan(t, a, b, Readings(t)) = Readings(t)[<<a + 1, b - 1>>]
    BY <1>3, <1>4, Zenon DEF ReadSpan
  <2> QED
    BY <1>5, <2>1, ReadingsUnfold
<1>7. Exacts(t)[<<a, b>>] = Exacts(t)[<<a + 1, b - 1>>]
  <2>1. ExactSpan(t, a, b, Exacts(t)) = Exacts(t)[<<a + 1, b - 1>>]
    BY <1>3, <1>4, Zenon DEF ExactSpan
  <2> QED
    BY <1>5, <2>1, ExactsUnfold
<1>8. EvalAST(nodes)[node] # {} => \A k \in a .. b : t[k][1] \notin Letters
  <2> SUFFICES ASSUME EvalAST(nodes)[node] # {}, NEW k \in a .. b PROVE t[k][1] \notin Letters
    OBVIOUS
  <2>1. t[a][1] = "(" /\ t[b][1] = ")"
    OBVIOUS
  <2>2. "(" \notin Letters /\ ")" \notin Letters
    BY DEF Letters, Upper, Lower
  <2>3. k = a \/ k = b \/ k \in a + 1 .. b - 1
    BY <1>0
  <2>4. CASE k \in a + 1 .. b - 1
    BY <2>4 DEF Stands
  <2> QED
    BY <2>1, <2>2, <2>3, <2>4
<1>9. /\ node \in 1 .. Len(nodes)
      /\ Readings(t)[<<a, b>>] = {LectAST(nodes)[node]}
      /\ \A v \in Exacts(t)[<<a, b>>] : v \in Ints /\ EvalAST(nodes)[node] = {v}
  BY <1>6, <1>7 DEF Stands
<1> QED
  BY <1>0, <1>1, <1>2, <1>8, <1>9 DEF Stands

(* A node joins the spans of its children with its operator, which is the  *)
(* one applied last.                                                       *)
LEMMA NodeJoins ==
  ASSUME NEW t, Len(t) \in Nat, NEW nodes, Tree(nodes), NEW i \in 1 .. Len(nodes),
         NEW a \in 1 .. Len(t), NEW b \in 1 .. Len(t), NEW k \in a .. b,
         nodes[i].gauche # 0, nodes[i].terminal.chaine = t[k], t[k] \in Sums \cup Products,
         NEW opsLeft, Stands(nodes, nodes[i].gauche, t, a, k - 1, opsLeft),
         NEW opsRight, Stands(nodes, nodes[i].droit, t, k + 1, b, opsRight),
         NEW ops, Outside(t, a, b, ops) = {}, Split(t, a, b) = k
  PROVE  Stands(nodes, i, t, a, b, ops)
<1> DEFINE g == nodes[i].gauche
           d == nodes[i].droit
<1>0. a \in 1 .. b /\ k > 0 /\ a \in 1 .. Len(t) + 1 /\ b \in 0 .. Len(t) /\ a \in Int /\ b \in Int
  OBVIOUS
<1>1. Closed(t, a, b)
  <2>1. Closed(t, a, k - 1) /\ Closed(t, k + 1, b)
    BY DEF Stands
  <2>2. t[k] \notin {<<"(">>, <<")">>}
    BY SignTerminals
  <2> QED
    BY <1>0, <2>1, <2>2, Joined
<1>2. LectAST(nodes)[i] =
        <<"(">> \o LectAST(nodes)[g] \o t[k] \o LectAST(nodes)[d] \o <<")">>
  <2>1. LectAST(nodes)[i] = Lect(nodes, i, LectAST(nodes))
    BY LectUnfolds
  <2> QED
    BY <2>1, Zenon DEF Lect
<1>3. EvalAST(nodes)[i] = Applied(t[k], EvalAST(nodes)[g], EvalAST(nodes)[d])
  <2>1. EvalAST(nodes)[i] = Eval(nodes, i, EvalAST(nodes))
    BY EvalUnfolds
  <2> QED
    BY <2>1, Zenon DEF Eval
<1>4. Readings(t)[<<a, k - 1>>] = {LectAST(nodes)[g]} /\ Readings(t)[<<k + 1, b>>] = {LectAST(nodes)[d]}
  BY DEF Stands
<1>5. Readings(t)[<<a, b>>] = {LectAST(nodes)[i]}
  <2>1. ReadSpan(t, a, b, Readings(t)) =
          {<<"(">> \o p[1] \o t[k] \o p[2] \o <<")">> :
             p \in Readings(t)[<<a, k - 1>>] \X Readings(t)[<<k + 1, b>>]}
    BY <1>0, Zenon DEF ReadSpan
  <2>2. PICK x, y : x = LectAST(nodes)[g] /\ y = LectAST(nodes)[d]
    OBVIOUS
  <2>3. PICK p : {x} \X {y} = {p} /\ p[1] = x /\ p[2] = y
    <3>1. {x} \X {y} = {<<x, y>>} /\ <<x, y>>[1] = x /\ <<x, y>>[2] = y
      OBVIOUS
    <3> QED
      BY <3>1
  <2>4. Readings(t)[<<a, k - 1>>] \X Readings(t)[<<k + 1, b>>] = {p}
    BY <1>4, <2>2, <2>3
  <2>5. ReadSpan(t, a, b, Readings(t)) = {<<"(">> \o x \o t[k] \o y \o <<")">>}
    BY <2>1, <2>3, <2>4, ZenonT(60)
  <2>6. Readings(t)[<<a, b>>] = ReadSpan(t, a, b, Readings(t))
    BY <1>0, ReadingsUnfold
  <2> QED
    BY <1>2, <2>2, <2>5, <2>6, Zenon
<1>6. ASSUME NEW v \in Exacts(t)[<<a, b>>] PROVE v \in Ints /\ EvalAST(nodes)[i] = {v}
  <2>1. Exacts(t)[<<a, b>>] = UNION {Result(t[k], p[1], p[2]) :
           p \in Exacts(t)[<<a, k - 1>>] \X Exacts(t)[<<k + 1, b>>]}
    <3>1. ExactSpan(t, a, b, Exacts(t)) = UNION {Result(t[k], p[1], p[2]) :
             p \in Exacts(t)[<<a, k - 1>>] \X Exacts(t)[<<k + 1, b>>]}
      BY <1>0, Zenon DEF ExactSpan
    <3> QED
      BY <1>0, <3>1, ExactsUnfold
  <2>2. PICK x \in Exacts(t)[<<a, k - 1>>], y \in Exacts(t)[<<k + 1, b>>] : v \in Result(t[k], x, y)
    BY <2>1, SMTT(30)
  <2>3. x \in Ints /\ y \in Ints /\ EvalAST(nodes)[g] = {x} /\ EvalAST(nodes)[d] = {y}
    BY <2>2 DEF Stands
  <2>4. v \in Ints /\ (t[k] # <<"/">> \/ y # 0) /\ Apply(t[k], x, y) = v
    BY <2>2, <2>3, ApplyExact
  <2>5. PICK p : {q \in {x} \X {y} : t[k] # <<"/">> \/ q[2] # 0} = {p} /\ p[1] = x /\ p[2] = y
    <3>1. {q \in {x} \X {y} : t[k] # <<"/">> \/ q[2] # 0} = {<<x, y>>}
      BY <2>4
    <3>2. <<x, y>>[1] = x /\ <<x, y>>[2] = y
      OBVIOUS
    <3> QED
      BY <3>1, <3>2
  <2>6. Applied(t[k], {x}, {y}) = {Apply(t[k], x, y)}
    BY <2>5, Zenon DEF Applied
  <2> QED
    BY <1>3, <2>3, <2>4, <2>6
<1>7. EvalAST(nodes)[i] # {} => \A m \in a .. b : t[m][1] \notin Letters
  <2> SUFFICES ASSUME EvalAST(nodes)[i] # {}, NEW m \in a .. b PROVE t[m][1] \notin Letters
    OBVIOUS
  <2>1. EvalAST(nodes)[g] # {} /\ EvalAST(nodes)[d] # {}
    BY <1>3 DEF Applied
  <2>2. CASE m \in a .. k - 1
    BY <2>1, <2>2 DEF Stands
  <2>3. CASE m \in k + 1 .. b
    BY <2>1, <2>3 DEF Stands
  <2>4. CASE m = k
    <3>1. \A c : <<c>>[1] = c
      OBVIOUS
    <3>2. "+" \notin Letters /\ "-" \notin Letters /\ "*" \notin Letters /\ "/" \notin Letters
      BY DEF Letters, Upper, Lower
    <3> QED
      BY <2>4, <3>1, <3>2 DEF Sums, Products
  <2>5. m \in a .. k - 1 \/ m = k \/ m \in k + 1 .. b
    BY <1>0
  <2> QED
    BY <2>2, <2>3, <2>4, <2>5
<1> QED
  BY <1>0, <1>1, <1>5, <1>6, <1>7 DEF Stands

(* The products before a sum: what is outside the parentheses of a span    *)
(* that an operator cuts in two.                                           *)
LEMMA OutsideJoined ==
  ASSUME NEW t, NEW a \in Int, NEW b \in Int, NEW k \in a .. b, NEW ops,
         Closed(t, a, k - 1), Closed(t, k + 1, b), t[k] \in Sums \cup Products, t[k] \notin ops,
         Outside(t, a, k - 1, ops) = {}, Outside(t, k + 1, b, ops) = {}
  PROVE  Outside(t, a, b, ops) = {}
<1>0. t[k] \notin {<<"(">>, <<")">>}
  BY SignTerminals
<1> SUFFICES ASSUME NEW m \in a .. b, t[m] \in ops, Depth(t, a, m) = 0 PROVE FALSE
  BY DEF Outside
<1>2. CASE m \in a .. k - 1
  BY <1>2 DEF Outside
<1>3. CASE m \in k + 1 .. b
  <2>1. m \in Int /\ k + 1 <= m /\ k \in Int /\ a <= k
    BY <1>3
  <2>2. Depth(t, a, m) = Depth(t, k + 1, m)
    <3> HIDE <1>3
    <3>1. Closed(t, a, k - 1)
      OBVIOUS
    <3> QED
      BY ONLY <1>0, <2>1, <3>1, DepthFurther
  <2> QED
    BY <1>3, <2>2 DEF Outside
<1>4. m \in a .. k - 1 \/ m = k \/ m \in k + 1 .. b
  OBVIOUS
<1> QED
  BY <1>2, <1>3, <1>4

LEMMA ProductStands ==
  ASSUME NEW t, Len(t) \in Nat, NEW nodes, Tree(nodes), NEW i \in 1 .. Len(nodes),
         NEW a \in 1 .. Len(t), NEW b \in 1 .. Len(t), NEW k \in a .. b,
         nodes[i].gauche # 0, nodes[i].terminal.chaine = t[k], t[k] \in Products,
         Stands(nodes, nodes[i].gauche, t, a, k - 1, Sums \cup Products),
         Stands(nodes, nodes[i].droit, t, k + 1, b, Sums)
  PROVE  Stands(nodes, i, t, a, b, Sums)
<1>0. a \in Nat \ {0} /\ a \in Int /\ b \in Int
  OBVIOUS
<1>1. Closed(t, a, k - 1) /\ Closed(t, k + 1, b)
  BY DEF Stands
<1>2. t[k] \notin Sums /\ t[k] \in Sums \cup Products
  BY DEF Sums, Products
<1>3. Outside(t, a, k - 1, Products) = {} /\ Outside(t, a, k - 1, Sums) = {}
      /\ Outside(t, k + 1, b, Sums) = {}
  BY DEF Stands, Outside
<1>4. Outside(t, a, b, Sums) = {}
  BY <1>0, <1>1, <1>2, <1>3, OutsideJoined
<1>5. Depth(t, a, k) = 0
  <2>1. k \in Int /\ a <= k
    BY <1>0
  <2> QED
    BY <1>0, <1>1, <2>1, DepthBehind
<1>6. k \in Outside(t, a, b, Products) /\ Min(Outside(t, a, b, Products)) = k
  <2>1. k \in a .. b /\ t[k] \in Products /\ Outside(t, a, k - 1, Products) = {}
    BY <1>3
  <2> QED
    BY <1>0, <2>1, <1>5, FirstOutside
<1>7. Split(t, a, b) = k
  BY <1>4, <1>6 DEF Split
<1> QED
  BY <1>2, <1>4, <1>7, NodeJoins

LEMMA SumStands ==
  ASSUME NEW t, Len(t) \in Nat, NEW nodes, Tree(nodes), NEW i \in 1 .. Len(nodes),
         NEW a \in 1 .. Len(t), NEW b \in 1 .. Len(t), NEW k \in a .. b,
         nodes[i].gauche # 0, nodes[i].terminal.chaine = t[k], t[k] \in Sums,
         Stands(nodes, nodes[i].gauche, t, a, k - 1, Sums),
         Stands(nodes, nodes[i].droit, t, k + 1, b, {})
  PROVE  Stands(nodes, i, t, a, b, {})
<1>0. a \in Nat \ {0} /\ a \in Int /\ b \in Int
  OBVIOUS
<1>1. Closed(t, a, k - 1) /\ Closed(t, k + 1, b)
  BY DEF Stands
<1>2. t[k] \in Sums \cup Products
  OBVIOUS
<1>3. Outside(t, a, k - 1, Sums) = {}
  BY DEF Stands
<1>4. Outside(t, a, b, {}) = {}
  BY DEF Outside
<1>5. Depth(t, a, k) = 0
  <2>1. k \in Int /\ a <= k
    BY <1>0
  <2> QED
    BY <1>0, <1>1, <2>1, DepthBehind
<1>6. k \in Outside(t, a, b, Sums) /\ Min(Outside(t, a, b, Sums)) = k
  <2>1. k \in a .. b /\ t[k] \in Sums /\ Outside(t, a, k - 1, Sums) = {}
    BY <1>3
  <2> QED
    BY <1>0, <2>1, <1>5, FirstOutside
<1>7. Split(t, a, b) = k
  BY <1>6 DEF Split
<1> QED
  BY <1>2, <1>4, <1>7, NodeJoins
-----------------------------------------------------------------------------
(* The terminals that the descent reads. *)

LEMMA TerminalsCounted ==
  ASSUME texte \in Seq(STRING)
  PROVE  /\ Len(Terminals) = PieceNumber(texte, Len(texte)) /\ Len(Terminals) \in Nat
         /\ DOMAIN Terminals = 1 .. Len(Terminals)
<1>1. PICK N \in Nat : N = PieceNumber(texte, Len(texte))
  BY LenProperties, PieceNumbers
<1>2. Pieces(texte) = [k \in 1 .. N |-> Pieces(texte)[k]]
  BY <1>1 DEF Pieces
<1>3. << >> \in Seq(STRING) /\ Len(<< >>) = 0 /\ \A k \in 1 .. 0 : FALSE
  OBVIOUS
<1>4. Len(Pieces(texte)) = N
  BY <1>2, <1>3, Agrees
<1>5. DOMAIN Pieces(texte) = 1 .. N
  BY <1>2
<1> QED
  BY <1>1, <1>4, <1>5 DEF Terminals

(* The characters of a piece are all digits, or none of them is.           *)
LEMMA SameClass ==
  ASSUME NEW t, NEW from \in Nat, NEW b \in Nat, from <= b,
         \A i \in from + 1 .. b : Continues(t, i)
  PROVE  Digit(t[from]) <=> Digit(t[b])
<1> DEFINE Wrong == {i \in Nat : i \in from .. b /\ ~(Digit(t[from]) <=> Digit(t[i]))}
<1>1. Wrong = {}
  <2> SUFFICES ASSUME Wrong # {} PROVE FALSE
    OBVIOUS
  <2>1. PICK i \in Wrong : \A j \in Wrong : i <= j
    BY LeastNumber
  <2>2. i \in Nat /\ i # from /\ i \in from + 1 .. b /\ i - 1 \in from .. b /\ i - 1 \in Nat
    BY <2>1
  <2>3. i - 1 \notin Wrong
    <3>1. ~(i <= i - 1)
      BY <2>2
    <3> QED
      BY <2>1, <3>1, Zenon
  <2>4. Continues(t, i)
    BY <2>2
  <2>5. Digit(t[i]) <=> Digit(t[i - 1])
    BY <2>4, NoDigitIsAnOperator, Zenon DEF Continues
  <2>6. Digit(t[from]) <=> Digit(t[i - 1])
    BY <2>2, <2>3
  <2> HIDE DEF Digit
  <2> QED
    BY <2>1, <2>5, <2>6
<1>2. b \in Nat /\ b \in from .. b /\ b \notin Wrong
  BY <1>1
<1> QED
  BY <1>2

(* At the end of the text a call finds an empty terminal, unless the text  *)
(* ends behind "_".                                                        *)
LEMMA EndOfText ==
  ASSUME NEW t, Len(t) \in Nat, NEW from \in 1 .. Len(t) + 1, from > Len(t),
         NEW s \in 0 .. 3, s # 3
  PROVE  ProchainTerminal(t, from, s) = Found(SubSeq(t, from, from - 1), TypeIn(s), from, s)
<1> DEFINE Solves(f) == f = [p \in from .. Len(t) + 1 |-> [e \in 0 .. 3 |-> Scan(t, from, p, e, f)]]
           scan == CHOOSE f : Solves(f)
<1>0. Len(t) \in Nat /\ from \in Nat
  OBVIOUS
<1>1. Solves(scan)
  <2>1. \E f : Solves(f)
    BY <1>0, ScanExists
  <2> QED
    BY <2>1
<1>2. ProchainTerminal(t, from, s) = scan[from][s]
  BY DEF ProchainTerminal
<1>3. PICK f : Solves(f) /\ ProchainTerminal(t, from, s) = f[from][s]
  BY <1>1, <1>2
<1>4. from \in from .. Len(t) + 1
  OBVIOUS
<1>5. f[from][s] = Scan(t, from, from, s, f)
  BY <1>3, <1>4
<1>6. from > Len(t) /\ ~(from <= Len(t))
  OBVIOUS
<1>7. Scan(t, from, from, s, f) = Found(SubSeq(t, from, from - 1), TypeIn(s), from, s)
  BY <1>6, Zenon DEF Scan
<1> QED
  BY <1>3, <1>5, <1>7

LEMMA NextTerminal ==
  ASSUME TerminalAtHand, pc \in Parsing \cup {"start"}, BehindPiece,
         NEW where \in Parsing, Read(where), UNCHANGED texte
  PROVE  \/ pc' = "null" /\ ~WellFormed(texte)
         \/ pc' = where /\ Suivant.ok /\ BehindPiece' /\ Numbered'
              /\ Rank' = PieceNumber(texte, ptr - 1) + 1
<1>1. /\ texte \in Seq(STRING) /\ Len(texte) \in Nat
      /\ ptr \in 1 .. Len(texte) + 1 /\ etat \in 0 .. 3 /\ ptr \in Nat
      /\ ptr <= Len(texte) => etat = 0
  BY TextIsASequence DEF TerminalAtHand
<1>2. /\ etat # 3
      /\ ptr <= Len(texte) => ~Continues(texte, ptr)
      /\ \A i \in 1 .. ptr - 1 : Sound(texte, i)
  BY DEF BehindPiece
<1>3. PICK r : r = Suivant
  OBVIOUS
<1>4. /\ ptr' = r.ptr /\ etat' = r.etat
      /\ courant' = IF r.ok THEN r.terminal ELSE courant
      /\ pc' = IF r.ok THEN where ELSE "null"
  BY <1>3 DEF Read
<1>5. ASSUME r.ok
      PROVE  /\ Before' = ptr - 1 /\ Rank' = PieceNumber(texte, ptr - 1) + 1
             /\ courant' \in Terminal /\ ptr' \in Nat
             /\ courant'.type # "OPERATEUR" => \A i \in ptr .. ptr' - 1 : texte[i] \notin Operators
  <2>1. where # "null"
    BY DEF Parsing
  <2>2. /\ courant' \in Terminal
        /\ ptr' - 1 - Len(courant'.chaine) = ptr - 1
        /\ ptr' \in ptr .. Len(texte) + 1
        /\ courant'.type \in {"CONSTANTE", "VARIABLE"} =>
             \A i \in ptr .. ptr' - 1 : texte[i] \notin Operators
    BY <1>4, <1>5, <2>1, ReadReads
  <2>3. Before' = ptr - 1
    BY <2>2 DEF Before
  <2>4. courant'.type # "OPERATEUR" => courant'.type \in {"CONSTANTE", "VARIABLE"}
    BY <2>2 DEF Terminal, Types
  <2>5. ptr' \in Nat
    BY <1>1, <2>2
  <2> QED
    BY <2>2, <2>3, <2>4, <2>5 DEF Rank
<1>6. PICK N \in Nat : N = PieceNumber(texte, Len(texte)) /\ N = Len(Terminals)
  BY <1>1, TerminalsCounted
<1>7. Len(Terminals') = N /\ Terminals' = Terminals
  BY <1>6 DEF Terminals
<1>8. CASE ptr > Len(texte)
  <2>1. r = Found(SubSeq(texte, ptr, ptr - 1), TypeIn(etat), ptr, etat)
    BY <1>1, <1>2, <1>3, <1>8, EndOfText DEF Suivant
  <2>2. r.ok /\ r.ptr = ptr /\ r.etat = etat /\ r.terminal.chaine = SubSeq(texte, ptr, ptr - 1)
    BY <2>1 DEF Found
  <2>3. SubSeq(texte, ptr, ptr - 1) = << >>
    <3>1. ptr - 1 \in ptr - 1 .. Len(texte) /\ (ptr - 1) + 1 - ptr = 0
      BY <1>1
    <3>2. SubSeq(texte, ptr, ptr - 1) \in Seq(STRING) /\ Len(SubSeq(texte, ptr, ptr - 1)) = 0
      BY <1>1, <3>1, PieceOfText
    <3> QED
      BY <3>2
  <2>4. ptr - 1 = Len(texte) /\ ptr = Len(texte) + 1
    BY <1>1, <1>8
  <2>5. BehindPiece'
    BY <1>2, <1>4, <2>2 DEF BehindPiece
  <2>6. Rank' = N + 1
    BY <1>5, <1>6, <2>2, <2>4
  <2>7. courant'.chaine = << >> /\ ptr' = Len(texte') + 1
    BY <1>4, <2>2, <2>3, <2>4
  <2>8. Numbered'
    BY <1>7, <2>6, <2>7 DEF Numbered
  <2> QED
    BY <1>3, <1>4, <1>5, <2>2, <2>5, <2>8
<1>9. CASE ptr <= Len(texte)
  <2>1. ptr \in 1 .. Len(texte) /\ Cuts(texte, ptr, r)
    BY <1>1, <1>2, <1>3, <1>9, ProchainTerminalCuts DEF Suivant
  <2>2. CASE ~r.ok
    <3>1. PICK i \in ptr .. Len(texte) : ~Sound(texte, i)
      BY <2>1, <2>2 DEF Cuts
    <3>2. i \in 1 .. Len(texte)
      BY <1>1
    <3>3. ~WellFormed(texte)
      BY <3>1, <3>2 DEF WellFormed, Sound
    <3> QED
      BY <1>4, <2>2, <3>3
  <2>3. CASE r.ok
    <3>1. /\ r.ptr - 1 \in ptr .. Len(texte)
          /\ r.terminal.chaine = SubSeq(texte, ptr, r.ptr - 1)
          /\ \A i \in ptr .. r.ptr - 1 : Sound(texte, i)
          /\ \A i \in ptr + 1 .. r.ptr - 1 : Continues(texte, i)
          /\ r.ptr <= Len(texte) => ~Continues(texte, r.ptr)
          /\ r.etat # 3
          /\ r.terminal.type = "OPERATEUR" => texte[ptr] \in Operators
          /\ r.terminal.type = "CONSTANTE" => Digit(texte[r.ptr - 1])
          /\ r.terminal.type = "VARIABLE" => ~Digit(texte[r.ptr - 1])
      BY <2>1, <2>3 DEF Cuts
    <3>2. r.ptr \in Nat
      BY <1>4, <1>5, <2>3
    <3>3. PICK b \in ptr .. Len(texte) : b = r.ptr - 1 /\ b + 1 = r.ptr
      BY <1>1, <3>1, <3>2
    <3>4. b \in Nat /\ ptr <= b /\ ptr \in ptr .. b
      BY <1>1
    <3>5. /\ PieceNumber(texte, b) = PieceNumber(texte, ptr - 1) + 1
          /\ PieceNumber(texte, b) \in 1 .. N
          /\ Pieces(texte)[PieceNumber(texte, b)] = SubSeq(texte, ptr, b)
      <4>1. /\ ~Continues(texte, ptr)
            /\ \A i \in ptr + 1 .. b : Continues(texte, i)
            /\ b + 1 <= Len(texte) => ~Continues(texte, b + 1)
        BY <1>2, <1>9, <3>1, <3>3
      <4> QED
        BY <1>1, <1>6, <2>1, <4>1, PieceRead
    <3>6. Digit(texte[ptr]) <=> Digit(texte[b])
      <4>1. \A i \in ptr + 1 .. b : Continues(texte, i)
        BY <3>1, <3>3
      <4> QED
        BY <1>1, <3>4, <4>1, SameClass
    <3>7. PICK c : c = courant' /\ c = r.terminal /\ c \in Terminal
      BY <1>4, <1>5, <2>3
    <3>8. c.chaine # << >> /\ c.chaine[1] = texte[ptr]
      <4>1. \A i \in ptr .. b : texte[i] \in STRING
        <5>1. \A i \in ptr .. b : i \in 1 .. Len(texte)
          BY <1>1
        <5> QED
          BY <1>1, <5>1, ElementOfSeq
      <4>2. /\ ptr \in Int /\ b \in Int /\ 1 \in 1 .. b - ptr + 1 /\ ptr + 1 - 1 = ptr
            /\ b - ptr + 1 # 0 /\ Len(<< >>) = 0
        BY <1>1, <3>4
      <4>3. /\ Len(SubSeq(texte, ptr, b)) = b - ptr + 1
            /\ SubSeq(texte, ptr, b)[1] = texte[ptr]
        <5>1. /\ Len(SubSeq(texte, ptr, b)) = IF ptr <= b THEN b - ptr + 1 ELSE 0
              /\ \A i \in 1 .. b - ptr + 1 : SubSeq(texte, ptr, b)[i] = texte[ptr + i - 1]
          BY <4>1, <4>2, SubSeqProperties
        <5> QED
          BY <3>4, <4>2, <5>1
      <4>4. SubSeq(texte, ptr, b) = c.chaine
        BY <3>1, <3>3, <3>7
      <4> QED
        BY <4>2, <4>3, <4>4
    <3>9. c.type \in {"OPERATEUR", "CONSTANTE", "VARIABLE"}
      BY <3>7 DEF Terminal, Types
    <3>10. texte[ptr] \in Operators <=> c.type = "OPERATEUR"
      <4>1. c.type # "OPERATEUR" => texte[ptr] \notin Operators
        BY <1>4, <1>5, <2>3, <3>3, <3>4, <3>7
      <4> QED
        BY <3>1, <3>7, <4>1
    <3>11. c.type = "CONSTANTE" <=> Digit(texte[ptr])
      <4>1. Digit(texte[ptr]) => texte[ptr] \notin Operators
        BY NoDigitIsAnOperator
      <4>2. c.type = "CONSTANTE" => Digit(texte[b])
        BY <3>1, <3>3, <3>7
      <4>3. c.type = "VARIABLE" => ~Digit(texte[b])
        BY <3>1, <3>3, <3>7
      <4> QED
        BY <3>6, <3>9, <3>10, <4>1, <4>2, <4>3, Zenon
    <3>12. BehindPiece'
      <4>1. \A i \in 1 .. b : i \in 1 .. ptr - 1 \/ i \in ptr .. b
        BY <1>1
      <4>2. \A i \in 1 .. b : Sound(texte, i)
        BY <1>2, <3>1, <3>3, <4>1
      <4>3. ptr' - 1 = b
        BY <1>4, <3>3
      <4> QED
        BY <1>4, <3>1, <4>2, <4>3 DEF BehindPiece
    <3>13. Rank' = PieceNumber(texte, b) /\ Rank' = PieceNumber(texte, ptr - 1) + 1
      BY <1>5, <2>3, <3>5
    <3>14. Operand' <=> c.type # "OPERATEUR"
      BY <3>7, <3>9 DEF Operand
    <3>15. PieceNumber(texte', ptr' - 1) = Rank'
      BY <1>4, <3>3, <3>13
    <3>16. courant'.chaine = Terminals'[Rank'] /\ Rank' \in 1 .. Len(Terminals')
      BY <1>6, <1>7, <3>1, <3>3, <3>5, <3>7, <3>13 DEF Terminals
    <3>17. Numbered'
      BY <3>7, <3>8, <3>10, <3>11, <3>14, <3>15, <3>16 DEF Numbered
    <3> QED
      BY <1>3, <1>4, <2>3, <3>12, <3>13, <3>17
  <2> QED
    BY <2>2, <2>3
<1> QED
  BY <1>1, <1>8, <1>9

(* Before the first terminal nothing was read.                             *)
LEMMA StartBehindPiece ==
  ASSUME TerminalAtHand, pc = "start", main = "DescenteRecursive", ptr <= Len(texte)
  PROVE  BehindPiece /\ PieceNumber(texte, ptr - 1) = 0
<1>1. ptr = 1 /\ etat = 0
  BY DEF TerminalAtHand
<1>2. ~Continues(texte, 1) /\ 1 .. 1 - 1 = {} /\ 1 - 1 = 0 /\ 0 # 3
  BY DEF Continues
<1>3. PieceNumber(texte, 0) = 0
  BY PieceNumbers
<1> QED
  BY <1>1, <1>2, <1>3 DEF BehindPiece

(* A step of the descent reads the next terminal or keeps the one at hand, *)
(* or it is the last one.                                                  *)
LEMMA ReadsOrKeeps ==
  ASSUME main = "DescenteRecursive", [Next]_vars
  PROVE  /\ main' = main /\ texte' = texte
         /\ \/ pc = "start" /\ ptr <= Len(texte) /\ Read("T_V")
            \/ pc \in Parsing /\ \E where \in Parsing : Read(where)
            \/ pc \in Parsing /\ UNCHANGED <<ptr, etat, courant>>
            \/ pc' \notin Parsing
<1> USE DEF lexer, parser, output
<1>0. "T_V" \in Parsing /\ "T_U" \in Parsing /\ "null" \notin Parsing /\ "exit" \notin Parsing
      /\ "tree" \notin Parsing /\ "written" \notin Parsing /\ "start" \notin Parsing
  BY DEF Parsing
<1>1. CASE AnalSynt
  BY <1>0, <1>1 DEF AnalSynt, ResteTerminal, Throw
<1>2. CASE Leaf
  BY <1>0, <1>2 DEF Leaf
<1>3. CASE Open
  BY <1>0, <1>3 DEF Open
<1>4. CASE NoOperand
  BY <1>0, <1>4 DEF NoOperand, Throw
<1>5. CASE Close
  <2>1. pc \in Parsing
    BY <1>5 DEF Close, Parsing
  <2> QED
    BY <1>0, <1>5, <2>1 DEF Close, Throw
<1>6. CASE AfterV
  <2>1. pc \in Parsing
    BY <1>6 DEF AfterV, Parsing
  <2> QED
    BY <1>0, <1>6, <2>1 DEF AfterV
<1>7. CASE UReturns
  <2>1. pc \in Parsing
    BY <1>7 DEF UReturns, Parsing
  <2> QED
    BY <1>7, <2>1 DEF UReturns
<1>8. CASE AfterU
  <2>1. pc \in Parsing /\ main' = main /\ texte' = texte
    BY <1>8 DEF AfterU, Parsing
  <2>2. CASE Additive
    BY <1>0, <1>8, <2>1, <2>2 DEF AfterU
  <2>3. CASE ~Additive /\ Misplaced
    BY <1>0, <1>8, <2>1, <2>3 DEF AfterU, Throw
  <2>4. CASE ~Additive /\ ~Misplaced
    BY <1>8, <2>1, <2>4 DEF AfterU
  <2> QED
    BY <2>2, <2>3, <2>4
<1>9. CASE ExpReturns
  <2>1. pc \in Parsing
    BY <1>9 DEF ExpReturns, Parsing
  <2> QED
    BY <1>9, <2>1 DEF ExpReturns
<1>10. CASE AnalSyntReturns
  BY <1>0, <1>10 DEF AnalSyntReturns
<1>11. CASE WriteResult
  <2>1. pc' \in {"written", "exit"} /\ main' = main /\ texte' = texte
    BY <1>11 DEF WriteResult
  <2> QED
    BY <1>0, <2>1
<1>12. CASE UNCHANGED vars
  BY <1>12 DEF vars
<1>13. ~LexOne /\ ~LexEnd
  BY DEF LexOne, LexEnd
<1> QED
  BY <1>1, <1>2, <1>3, <1>4, <1>5, <1>6, <1>7, <1>8, <1>9, <1>10, <1>11, <1>12, <1>13
     DEF Next, T_V, T_U, T_EXP

LEMMA ReadInit == Init => TerminalsRead
BY DEF Init, TerminalsRead, Parsing

LEMMA ReadStep == TerminalAtHand /\ TerminalsRead /\ [Next]_vars => TerminalsRead'
<1> SUFFICES ASSUME TerminalAtHand, TerminalsRead, [Next]_vars PROVE TerminalsRead'
  OBVIOUS
<1>1. CASE main # "DescenteRecursive"
  <2>1. main' = main
    BY DEF Next, T_V, T_U, T_EXP, LexOne, LexEnd, AnalSynt, Leaf, Open, NoOperand, Close, AfterV,
           UReturns, AfterU, ExpReturns, AnalSyntReturns, WriteResult, vars
  <2> QED
    BY <1>1, <2>1 DEF TerminalsRead
<1>2. CASE main = "DescenteRecursive"
  <2>0. main' = main /\ texte' = texte /\ "null" \notin Parsing /\ "T_V" \in Parsing
    BY <1>2, ReadsOrKeeps DEF Parsing
  <2>1. CASE pc = "start" /\ ptr <= Len(texte) /\ Read("T_V")
    <3>1. BehindPiece
      BY <1>2, <2>1, StartBehindPiece
    <3>2. (pc' = "null") \/ (BehindPiece' /\ Numbered')
      BY <2>0, <2>1, <3>1, NextTerminal
    <3> QED
      BY <2>0, <3>2 DEF TerminalsRead
  <2>2. CASE pc \in Parsing /\ \E where \in Parsing : Read(where)
    <3>1. BehindPiece
      BY <1>2, <2>2 DEF TerminalsRead
    <3>2. PICK where \in Parsing : Read(where)
      BY <2>2
    <3>3. (pc' = "null") \/ (BehindPiece' /\ Numbered')
      BY <2>0, <2>2, <3>1, <3>2, NextTerminal
    <3> QED
      BY <2>0, <3>3 DEF TerminalsRead
  <2>3. CASE pc \in Parsing /\ UNCHANGED <<ptr, etat, courant>>
    <3>1. BehindPiece /\ Numbered
      BY <1>2, <2>3 DEF TerminalsRead
    <3>2. BehindPiece' /\ Numbered'
      BY <2>0, <2>3, <3>1 DEF BehindPiece, Numbered, Rank, Before, Terminals, Operand
    <3> QED
      BY <3>2 DEF TerminalsRead
  <2>4. CASE pc' \notin Parsing
    BY <2>4 DEF TerminalsRead
  <2> QED
    BY <1>2, <2>1, <2>2, <2>3, <2>4, ReadsOrKeeps
<1> QED
  BY <1>1, <1>2

-----------------------------------------------------------------------------
(* The calls that wait. *)

LEMMA DepthNext ==
  ASSUME NEW t, NEW r \in Nat \ {0}
  PROVE  /\ Depth(t, 1, r) \in Int
         /\ Depth(t, 1, r + 1) = Depth(t, 1, r) +
              IF t[r] = <<"(">> THEN 1 ELSE IF t[r] = <<")">> THEN -1 ELSE 0
<1>1. r \in Int /\ r + 1 \in Int /\ 1 <= r /\ r <= r + 1
  OBVIOUS
<1>2. Depth(t, 1, r + 1) = Depth(t, 1, r) + Depth(t, r, r + 1)
  BY <1>1, DepthAdds
<1>3. Depth(t, 1, r) \in Int
  BY <1>1, DepthOfSigns
<1>4. Depth(t, r, r + 1) = IF t[r] = <<"(">> THEN 1 ELSE IF t[r] = <<")">> THEN -1 ELSE 0
  BY <1>1, DepthOfOne
<1> QED
  BY <1>2, <1>3, <1>4

LEMMA WaitKept ==
  ASSUME NEW nodes, Tree(nodes), NEW more, Tree(more), Len(nodes) <= Len(more),
         \A k \in 1 .. Len(nodes) : more[k] = nodes[k],
         NEW calls, NEW t, NEW ends, Wait(calls, nodes, t, ends)
  PROVE  Wait(calls, more, t, ends)
<1>1. ASSUME NEW node, NEW a, NEW b, NEW ops, Stands(nodes, node, t, a, b, ops)
      PROVE  Stands(more, node, t, a, b, ops)
  BY <1>1, StandsKept
<1>2. ASSUME NEW call, NEW from, NEW at, Waits(call, nodes, t, from, at)
      PROVE  Waits(call, more, t, from, at)
  BY <1>1, <1>2 DEF Waits
<1> QED
  BY <1>2 DEF Wait

(* A call joins the calls that wait, and one leaves them.                  *)
LEMMA WaitJoins ==
  ASSUME NEW calls \in Seq(Appel), NEW call \in Appel, NEW nodes, NEW t, Len(t) \in Nat,
         NEW ends \in [0 .. Len(calls) -> 0 .. Len(t)], Wait(calls, nodes, t, ends),
         NEW at \in 0 .. Len(t), Waits(call, nodes, t, ends[Len(calls)] + 1, at),
         NEW more, more = Append(calls, call)
  PROVE  \E e \in [0 .. Len(more) -> 0 .. Len(t)] :
           Wait(more, nodes, t, e) /\ e[Len(more)] = at
<1>1. PICK l \in Nat : l = Len(calls)
  BY LenProperties
<1>2. /\ Len(more) = l + 1 /\ more[l + 1] = call
      /\ \A k \in 1 .. l : more[k] = calls[k]
  BY <1>1, AppendProperties
<1>3. PICK e : e = [k \in 0 .. l + 1 |-> IF k = l + 1 THEN at ELSE ends[k]]
  OBVIOUS
<1>4. /\ e \in [0 .. l + 1 -> 0 .. Len(t)]
      /\ e[l + 1] = at /\ \A k \in 0 .. l : e[k] = ends[k]
  BY <1>1, <1>3
<1>5. ASSUME NEW k \in 1 .. l + 1 PROVE Waits(more[k], nodes, t, e[k - 1] + 1, e[k])
  <2>1. CASE k \in 1 .. l
    <3>1. k \in 0 .. l /\ k - 1 \in 0 .. l
      BY <1>1, <2>1
    <3>2. e[k] = ends[k] /\ e[k - 1] = ends[k - 1] /\ more[k] = calls[k]
      BY <1>2, <1>4, <2>1, <3>1
    <3>3. Waits(calls[k], nodes, t, ends[k - 1] + 1, ends[k])
      BY <1>1, <2>1 DEF Wait
    <3> QED
      BY <3>2, <3>3
  <2>2. CASE k = l + 1
    <3>1. k - 1 = l /\ l \in 0 .. l
      BY <1>1, <2>2
    <3>2. e[k] = at /\ e[k - 1] = ends[l] /\ more[k] = call
      BY <1>2, <1>4, <2>2, <3>1
    <3> QED
      BY <1>1, <3>2
  <2> QED
    BY <1>1, <2>1, <2>2
<1>6. e[0] = 0
  BY <1>1, <1>4 DEF Wait
<1> QED
  BY <1>1, <1>2, <1>4, <1>5, <1>6 DEF Wait

LEMMA WaitLeaves ==
  ASSUME NEW calls, NEW number \in Nat, Calls(calls, number), calls # << >>,
         NEW nodes, NEW t, Len(t) \in Nat,
         NEW ends \in [0 .. Len(calls) -> 0 .. Len(t)], Wait(calls, nodes, t, ends)
  PROVE  /\ ends[Len(calls)] \in 0 .. Len(t)
         /\ \E e \in [0 .. Len(Front(calls)) -> 0 .. Len(t)] :
              /\ Wait(Front(calls), nodes, t, e)
              /\ Waits(Last(calls), nodes, t, e[Len(Front(calls))] + 1, ends[Len(calls)])
<1>1. PICK l, front :
         /\ l \in Nat /\ Len(calls) = l + 1 /\ front = Front(calls) /\ Len(front) = l
         /\ \A k \in 1 .. l : front[k] = calls[k]
         /\ Last(calls) = calls[l + 1]
  <2>1. /\ Len(calls) \in Nat \ {0} /\ Len(Front(calls)) = Len(calls) - 1
        /\ \A k \in 1 .. Len(calls) - 1 : Front(calls)[k] = calls[k]
        /\ Last(calls) = calls[Len(calls)]
    BY CallLeaves
  <2>2. PICK l \in Nat : Len(calls) = l + 1 /\ l = Len(calls) - 1
    BY <2>1
  <2> QED
    BY <2>1, <2>2
<1>2. PICK e : e = [k \in 0 .. l |-> ends[k]]
  OBVIOUS
<1>3. e \in [0 .. l -> 0 .. Len(t)] /\ \A k \in 0 .. l : e[k] = ends[k]
  BY <1>1, <1>2
<1>4. ASSUME NEW k \in 1 .. l PROVE Waits(front[k], nodes, t, e[k - 1] + 1, e[k])
  <2>1. k \in 0 .. l /\ k - 1 \in 0 .. l /\ k \in 1 .. l + 1
    BY <1>1
  <2>2. e[k] = ends[k] /\ e[k - 1] = ends[k - 1] /\ front[k] = calls[k]
    BY <1>1, <1>3, <2>1
  <2>3. Waits(calls[k], nodes, t, ends[k - 1] + 1, ends[k])
    BY <1>1, <2>1 DEF Wait
  <2> QED
    BY <2>2, <2>3
<1>5. Waits(calls[l + 1], nodes, t, ends[l] + 1, ends[l + 1])
  <2>1. l + 1 \in 1 .. l + 1 /\ (l + 1) - 1 = l
    BY <1>1
  <2> QED
    BY <1>1, <2>1 DEF Wait
<1>6. e[0] = 0 /\ e[l] = ends[l]
  BY <1>1, <1>3 DEF Wait
<1>7. ends[l + 1] \in 0 .. Len(t)
  BY <1>1
<1> QED
  BY <1>1, <1>3, <1>4, <1>5, <1>6, <1>7 DEF Wait

(* The steps of the descent, over the terminals t with terminal r at hand. *)

LEMMA SpanBefore ==
  ASSUME NEW where \in Parsing \ {"T_V"}, NEW nodes, NEW node, NEW t, NEW from, NEW r \in Nat,
         Returns(where, nodes, node, t, from, r)
  PROVE  /\ \E ops : Stands(nodes, node, t, from, r - 1, ops)
         /\ from <= r - 1 /\ from >= 1 /\ from \in Nat /\ node \in 1 .. Len(nodes) /\ r > 1
<1>1. PICK ops : Stands(nodes, node, t, from, r - 1, ops)
  BY DEF Returns, Parsing
<1>2. from \in 1 .. r - 1 /\ node \in 1 .. Len(nodes)
  BY <1>1 DEF Stands
<1> QED
  BY <1>1, <1>2

(* A call waits while T_V reads on behind its operator.                    *)
LEMMA CallDescends ==
  ASSUME NEW where, NEW nodes, NEW node, NEW calls \in Seq(Appel), NEW t, Len(t) \in Nat,
         NEW r \in 1 .. Len(t), Descends(where, nodes, node, calls, t, r),
         NEW call \in Appel, call.methode = where, call.opt.chaine = t[r], call.gauche = node,
         \/ where = "T_V" /\ t[r] = <<"(">>
         \/ where = "T_U" /\ t[r] \in Products
         \/ where = "T_EXP" /\ t[r] \in Sums
  PROVE  Descends("T_V", nodes, node, Append(calls, call), t, r + 1)
<1>1. PICK ends \in [0 .. Len(calls) -> 0 .. Len(t)] :
         /\ Wait(calls, nodes, t, ends)
         /\ Returns(where, nodes, node, t, ends[Len(calls)] + 1, r)
  BY DEF Descends
<1>2. PICK from : from = ends[Len(calls)] + 1
  OBVIOUS
<1>3. r \in Nat /\ r \in Int /\ r \in 0 .. Len(t) /\ r + 1 > 1 /\ (r + 1) - 1 = r
  OBVIOUS
<1>4. ~Ends(t[r])
  BY SignTerminals
<1>5. Waits(call, nodes, t, from, r)
  <2>1. CASE where = "T_V"
    <3>1. r = from
      BY <1>1, <1>2, <2>1 DEF Returns
    <3> QED
      BY <1>3, <2>1, <3>1 DEF Waits
  <2>2. CASE where = "T_U"
    <3>1. Stands(nodes, node, t, from, r - 1, Sums \cup Products)
      BY <1>1, <1>2, <2>2 DEF Returns
    <3>2. from \in 1 .. r - 1
      BY <3>1 DEF Stands
    <3>3. r \in from .. Len(t)
      BY <1>3, <3>2
    <3> QED
      BY <2>2, <3>1, <3>3 DEF Waits
  <2>3. CASE where = "T_EXP"
    <3>1. Stands(nodes, node, t, from, r - 1, Sums)
      BY <1>1, <1>2, <2>3 DEF Returns
    <3>2. from \in 1 .. r - 1
      BY <3>1 DEF Stands
    <3>3. r \in from .. Len(t)
      BY <1>3, <3>2
    <3> QED
      BY <2>3, <3>1, <3>3 DEF Waits
  <2> QED
    BY <2>1, <2>2, <2>3
<1>6. PICK more : more = Append(calls, call)
  OBVIOUS
<1>7. PICK e \in [0 .. Len(more) -> 0 .. Len(t)] : Wait(more, nodes, t, e) /\ e[Len(more)] = r
  <2>1. Waits(call, nodes, t, ends[Len(calls)] + 1, r) /\ Wait(calls, nodes, t, ends)
    BY <1>1, <1>2, <1>5
  <2> QED
    BY <1>3, <1>6, <2>1, WaitJoins
<1>8. Returns("T_V", nodes, node, t, e[Len(more)] + 1, r + 1)
  <2>1. /\ "T_V" # "T_U" /\ "T_V" \notin {"up_U", "T_EXP"} /\ "T_V" # "up_EXP"
    OBVIOUS
  <2> QED
    BY <1>3, <1>4, <1>7, <2>1 DEF Returns
<1> QED
  BY <1>6, <1>7, <1>8 DEF Descends

(* T_V makes a leaf.                                                       *)
LEMMA LeafDescends ==
  ASSUME NEW nodes, Tree(nodes), NEW node, NEW calls, NEW t, Len(t) \in Nat,
         NEW r \in 1 .. Len(t), Descends("T_V", nodes, node, calls, t, r),
         NEW leaf \in Noeud, leaf.gauche = 0, leaf.droit = 0, leaf.terminal.chaine = t[r],
         leaf.terminal.chaine # << >>,
         t[r][1] \notin Operators, leaf.terminal.type = "CONSTANTE" <=> Digit(t[r][1])
  PROVE  Descends("T_U", Append(nodes, leaf), Len(nodes) + 1, calls, t, r + 1)
<1>1. PICK ends \in [0 .. Len(calls) -> 0 .. Len(t)] :
         /\ Wait(calls, nodes, t, ends)
         /\ Returns("T_V", nodes, node, t, ends[Len(calls)] + 1, r)
  BY DEF Descends
<1>2. r = ends[Len(calls)] + 1
  BY <1>1 DEF Returns
<1>3. nodes \in Seq(Noeud) /\ Len(nodes) \in Nat
  BY LenProperties DEF Tree
<1>4. PICK more : more = Append(nodes, leaf)
  OBVIOUS
<1>5. /\ Tree(more) /\ Len(more) = Len(nodes) + 1
      /\ \A k \in 1 .. Len(nodes) : more[k] = nodes[k]
      /\ more[Len(nodes) + 1] = leaf
  BY <1>3, <1>4, NodeAdded, AppendProperties
<1>6. Len(nodes) + 1 \in 1 .. Len(more) /\ Len(nodes) <= Len(more)
  BY <1>3, <1>5
<1>7. Wait(calls, more, t, ends)
  BY <1>1, <1>5, <1>6, WaitKept
<1>8. Stands(more, Len(nodes) + 1, t, r, r, Sums \cup Products)
  <2>1. /\ more[Len(nodes) + 1].gauche = 0 /\ more[Len(nodes) + 1].terminal.chaine = t[r]
        /\ more[Len(nodes) + 1].terminal.type = "CONSTANTE" <=> Digit(t[r][1])
    BY <1>5
  <2> QED
    BY <1>5, <1>6, <2>1, LeafStands
<1>9. Returns("T_U", more, Len(nodes) + 1, t, r, r + 1)
  <2>1. /\ "T_U" # "T_V" /\ "T_U" \notin {"up_U", "T_EXP"} /\ "T_U" # "up_EXP"
        /\ (r + 1) - 1 = r
    OBVIOUS
  <2>2. Ends(t[r])
    BY DEF Ends
  <2> QED
    BY <1>8, <2>1, <2>2 DEF Returns
<1> QED
  BY <1>2, <1>4, <1>7, <1>9 DEF Descends

(* T_V reads the ")" of the expression that it has called T_EXP for.       *)
LEMMA CloseDescends ==
  ASSUME NEW nodes, NEW node, NEW calls, NEW number \in Nat, Calls(calls, number), calls # << >>,
         Last(calls).methode = "T_V", NEW t, Len(t) \in Nat,
         NEW r \in 1 .. Len(t), Descends("up_EXP", nodes, node, calls, t, r), t[r] = <<")">>
  PROVE  Descends("T_U", nodes, node, Front(calls), t, r + 1)
<1>1. PICK ends \in [0 .. Len(calls) -> 0 .. Len(t)] :
         /\ Wait(calls, nodes, t, ends)
         /\ Returns("up_EXP", nodes, node, t, ends[Len(calls)] + 1, r)
  BY DEF Descends
<1>2. PICK at : at = ends[Len(calls)]
  OBVIOUS
<1>3. PICK e \in [0 .. Len(Front(calls)) -> 0 .. Len(t)] :
         /\ Wait(Front(calls), nodes, t, e)
         /\ Waits(Last(calls), nodes, t, e[Len(Front(calls))] + 1, at)
  BY <1>1, <1>2, WaitLeaves
<1>4. PICK from : from = e[Len(Front(calls))] + 1
  OBVIOUS
<1>5. at = from /\ t[from] = <<"(">> /\ at \in from .. Len(t)
  BY <1>3, <1>4 DEF Waits
<1>6. Stands(nodes, node, t, from + 1, r - 1, {})
  BY <1>1, <1>2, <1>5 DEF Returns
<1>7. from \in 1 .. Len(t)
  <2>1. from + 1 \in 1 .. r - 1 /\ at \in 0 .. Len(t)
    BY <1>1, <1>2, <1>6, WaitLeaves DEF Stands
  <2>2. e[Len(Front(calls))] \in 0 .. Len(t)
    <3>1. Len(Front(calls)) \in Nat
      <4>1. Len(calls) \in Nat \ {0} /\ Len(Front(calls)) = Len(calls) - 1
        BY CallLeaves
      <4> QED
        BY <4>1
    <3>2. Len(Front(calls)) \in 0 .. Len(Front(calls))
      BY <3>1
    <3> QED
      BY <3>2
  <2> QED
    BY <1>4, <1>5, <2>1, <2>2
<1>8. Stands(nodes, node, t, from, r, Sums \cup Products)
  BY <1>5, <1>6, <1>7, ParenthesesStand
<1>9. Returns("T_U", nodes, node, t, from, r + 1)
  <2>1. /\ "T_U" # "T_V" /\ "T_U" \notin {"up_U", "T_EXP"} /\ "T_U" # "up_EXP"
        /\ (r + 1) - 1 = r
    OBVIOUS
  <2>2. Ends(t[r])
    BY SignTerminals
  <2> QED
    BY <1>8, <2>1, <2>2 DEF Returns
<1> QED
  BY <1>3, <1>4, <1>9 DEF Descends

(* T_U and T_EXP make a node when their right operand is read.             *)
LEMMA NodeDescends ==
  ASSUME NEW nodes, Tree(nodes), NEW node \in 1 .. Len(nodes),
         NEW calls, Calls(calls, Len(nodes)), calls # << >>,
         NEW t, Len(t) \in Nat, NEW r \in 1 .. Len(t) + 1,
         NEW where, Descends(where, nodes, node, calls, t, r),
         \/ where = "up_U" /\ Last(calls).methode = "T_U"
         \/ where = "up_EXP" /\ Last(calls).methode = "T_EXP",
         NEW joint \in Noeud, joint.terminal = Last(calls).opt,
         joint.gauche = Last(calls).gauche, joint.droit = node
  PROVE  Descends(where, Append(nodes, joint), Len(nodes) + 1, Front(calls), t, r)
<1>1. PICK ends \in [0 .. Len(calls) -> 0 .. Len(t)] :
         /\ Wait(calls, nodes, t, ends)
         /\ Returns(where, nodes, node, t, ends[Len(calls)] + 1, r)
  BY DEF Descends
<1>2. PICK at : at = ends[Len(calls)]
  OBVIOUS
<1>3. nodes \in Seq(Noeud) /\ Len(nodes) \in Nat
  BY LenProperties DEF Tree
<1>4. PICK e \in [0 .. Len(Front(calls)) -> 0 .. Len(t)] :
         /\ Wait(Front(calls), nodes, t, e)
         /\ Waits(Last(calls), nodes, t, e[Len(Front(calls))] + 1, at)
  BY <1>1, <1>2, <1>3, WaitLeaves
<1>5. PICK from : from = e[Len(Front(calls))] + 1
  OBVIOUS
<1>6. PICK call : call = Last(calls)
  OBVIOUS
<1>7. /\ call.opt.chaine # << >> /\ call.gauche \in 0 .. Len(nodes)
      /\ call.methode # "T_V" => call.gauche # 0
  BY <1>3, <1>6, CallLeaves
<1>8. call.methode # "T_V"
  BY <1>6
<1>9. call.gauche \in 1 .. Len(nodes) /\ joint.terminal.chaine # << >>
  BY <1>3, <1>6, <1>7, <1>8
<1>10. PICK more : more = Append(nodes, joint)
  OBVIOUS
<1>11. /\ Tree(more) /\ Len(more) = Len(nodes) + 1
       /\ \A k \in 1 .. Len(nodes) : more[k] = nodes[k]
       /\ more[Len(nodes) + 1] = joint
  BY <1>3, <1>6, <1>9, <1>10, NodeAdded, AppendProperties
<1>12. Len(nodes) + 1 \in 1 .. Len(more) /\ Len(nodes) <= Len(more)
  BY <1>3, <1>11
<1>13. Wait(Front(calls), more, t, e)
  BY <1>4, <1>11, <1>12, WaitKept
<1>14. PICK i : i = Len(nodes) + 1
  OBVIOUS
<1>15. /\ more[i].gauche = call.gauche /\ more[i].gauche # 0 /\ more[i].droit = node
       /\ more[i].terminal.chaine = call.opt.chaine
  BY <1>6, <1>7, <1>8, <1>11, <1>14
<1>16. ASSUME NEW x, NEW a, NEW b, NEW ops, Stands(nodes, x, t, a, b, ops)
       PROVE  Stands(more, x, t, a, b, ops)
  BY <1>11, <1>12, <1>16, StandsKept
<1>17. at \in from .. Len(t) /\ call.opt.chaine = t[at]
  BY <1>4, <1>5, <1>6 DEF Waits
<1>18. ASSUME NEW opsLeft, Stands(nodes, call.gauche, t, from, at - 1, opsLeft),
              NEW opsRight, Stands(nodes, node, t, at + 1, r - 1, opsRight)
       PROVE  from \in 1 .. Len(t) /\ r - 1 \in 1 .. Len(t) /\ at \in from .. r - 1
  <2>1. from \in 1 .. at - 1 /\ at + 1 \in 1 .. r - 1
    BY <1>18 DEF Stands
  <2>2. at \in 0 .. Len(t)
    BY <1>1, <1>2, <1>3, WaitLeaves
  <2>3. e[Len(Front(calls))] \in 0 .. Len(t)
    <3>1. Len(Front(calls)) \in Nat
      <4>1. Len(calls) \in Nat \ {0} /\ Len(Front(calls)) = Len(calls) - 1
        BY <1>3, CallLeaves
      <4> QED
        BY <4>1
    <3>2. Len(Front(calls)) \in 0 .. Len(Front(calls))
      BY <3>1
    <3> QED
      BY <3>2
  <2> QED
    BY <1>5, <2>1, <2>2, <2>3, SMTT(30)
<1>19. r > 1 => (Ends(t[r - 1]) <=> where # "T_V")
  BY <1>1 DEF Returns
<1>20. CASE where = "up_U"
  <2>1. call.methode = "T_U" /\ Stands(nodes, node, t, at + 1, r - 1, Sums)
    BY <1>1, <1>2, <1>6, <1>20 DEF Returns
  <2>2. t[at] \in Products /\ Stands(nodes, call.gauche, t, from, at - 1, Sums \cup Products)
    BY <1>4, <1>5, <1>6, <2>1 DEF Waits
  <2>3. from \in 1 .. Len(t) /\ r - 1 \in 1 .. Len(t) /\ at \in from .. r - 1
    BY <1>18, <2>1, <2>2
  <2>4. /\ Stands(more, more[i].gauche, t, from, at - 1, Sums \cup Products)
        /\ Stands(more, more[i].droit, t, at + 1, r - 1, Sums)
    BY <1>15, <1>16, <2>1, <2>2
  <2>5. Stands(more, i, t, from, r - 1, Sums)
    BY <1>11, <1>12, <1>14, <1>15, <1>17, <2>2, <2>3, <2>4, ProductStands
  <2>6. Returns("up_U", more, i, t, from, r)
    BY <1>19, <1>20, <2>5 DEF Returns
  <2> QED
    BY <1>4, <1>5, <1>10, <1>13, <1>14, <1>20, <2>6 DEF Descends
<1>21. CASE where = "up_EXP"
  <2>1. call.methode = "T_EXP" /\ Stands(nodes, node, t, at + 1, r - 1, {})
    BY <1>1, <1>2, <1>6, <1>21 DEF Returns
  <2>2. t[at] \in Sums /\ Stands(nodes, call.gauche, t, from, at - 1, Sums)
    BY <1>4, <1>5, <1>6, <2>1 DEF Waits
  <2>3. from \in 1 .. Len(t) /\ r - 1 \in 1 .. Len(t) /\ at \in from .. r - 1
    BY <1>18, <2>1, <2>2
  <2>4. /\ Stands(more, more[i].gauche, t, from, at - 1, Sums)
        /\ Stands(more, more[i].droit, t, at + 1, r - 1, {})
    BY <1>15, <1>16, <2>1, <2>2
  <2>5. Stands(more, i, t, from, r - 1, {})
    BY <1>11, <1>12, <1>14, <1>15, <1>17, <2>2, <2>3, <2>4, SumStands
  <2>6. Returns("up_EXP", more, i, t, from, r)
    BY <1>19, <1>21, <2>5 DEF Returns
  <2> QED
    BY <1>4, <1>5, <1>10, <1>13, <1>14, <1>21, <2>6 DEF Descends
<1> QED
  BY <1>20, <1>21

(* An operand of "*" and "/" is one of "+" and "-", which is an expression.*)
LEMMA Passes ==
  ASSUME NEW where, NEW next, NEW nodes, NEW node, NEW calls, NEW t, NEW r,
         Descends(where, nodes, node, calls, t, r),
         \/ where = "T_U" /\ next = "up_U"
         \/ where = "up_U" /\ next = "T_EXP"
         \/ where = "T_EXP" /\ next = "up_EXP"
  PROVE  Descends(next, nodes, node, calls, t, r)
<1>1. PICK ends \in [0 .. Len(calls) -> 0 .. Len(t)] :
         /\ Wait(calls, nodes, t, ends)
         /\ Returns(where, nodes, node, t, ends[Len(calls)] + 1, r)
  BY DEF Descends
<1>2. PICK from : from = ends[Len(calls)] + 1
  OBVIOUS
<1>3. r > 1 => Ends(t[r - 1])
  BY <1>1 DEF Returns
<1>4. CASE where = "T_U" /\ next = "up_U"
  <2>1. Stands(nodes, node, t, from, r - 1, Sums \cup Products)
    BY <1>1, <1>2, <1>4 DEF Returns
  <2>2. Stands(nodes, node, t, from, r - 1, Sums)
    BY <2>1, StandsWeaker
  <2> QED
    BY <1>1, <1>2, <1>3, <1>4, <2>2 DEF Returns, Descends
<1>5. CASE where = "up_U" /\ next = "T_EXP"
  BY <1>1, <1>5 DEF Returns, Descends
<1>6. CASE where = "T_EXP" /\ next = "up_EXP"
  <2>1. Stands(nodes, node, t, from, r - 1, Sums)
    BY <1>1, <1>2, <1>6 DEF Returns
  <2>2. Stands(nodes, node, t, from, r - 1, {})
    BY <2>1, StandsWeaker
  <2> QED
    BY <1>1, <1>2, <1>3, <1>6, <2>2 DEF Returns, Descends
<1> QED
  BY <1>4, <1>5, <1>6

-----------------------------------------------------------------------------
(* The descent in the state of the program. *)

(* What stands behind the first terminals of an expression.                *)
LEMMA ReadingGoesOn ==
  ASSUME NEW t, Len(t) \in Nat, Reading(t) # {}, NEW r \in 1 .. Len(t) + 1
  PROVE  /\ r > Len(t) => r > 1 /\ Ends(t[r - 1]) /\ Depth(t, 1, r) = 0
         /\ r <= Len(t) => /\ Begins(t[r]) <=> (r > 1 => ~Ends(t[r - 1]))
                           /\ Depth(t, 1, r + 1) >= 0
<1>1. Alternates(t, 1, Len(t))
  <2>1. 1 \in 1 .. Len(t) + 1 /\ Len(t) \in 0 .. Len(t)
    OBVIOUS
  <2> QED
    BY <2>1, ReadingsAlternate DEF Reading
<1>2. /\ 1 <= Len(t) /\ Begins(t[1]) /\ Ends(t[Len(t)])
      /\ \A k \in 1 .. Len(t) + 1 : Depth(t, 1, k) >= 0
      /\ Depth(t, 1, Len(t) + 1) = 0
      /\ \A k \in 1 .. Len(t) - 1 : Ends(t[k]) <=> ~Begins(t[k + 1])
  BY <1>1 DEF Alternates, Closed
<1>3. CASE r > Len(t)
  <2>1. r = Len(t) + 1 /\ r - 1 = Len(t) /\ r > 1
    BY <1>2, <1>3
  <2> QED
    BY <1>2, <1>3, <2>1
<1>4. CASE r <= Len(t)
  <2>1. Depth(t, 1, r + 1) >= 0
    <3>1. r + 1 \in 1 .. Len(t) + 1
      BY <1>4
    <3> QED
      BY <1>2, <3>1
  <2>2. CASE r = 1
    BY <1>2, <1>4, <2>1, <2>2
  <2>3. CASE r > 1
    <3>1. r - 1 \in 1 .. Len(t) - 1 /\ (r - 1) + 1 = r
      BY <1>4, <2>3
    <3>2. Ends(t[r - 1]) <=> ~Begins(t[r])
      BY <1>2, <3>1
    <3> QED
      BY <1>4, <2>1, <2>3, <3>2
  <2> QED
    BY <2>2, <2>3
<1> QED
  BY <1>3, <1>4

(* The state in which the analysis is.                                     *)
LEMMA AtWork ==
  ASSUME TerminalAtHand, TreeGrows, TerminalsRead, Descent,
         main = "DescenteRecursive", pc \in Parsing
  PROVE  /\ Len(Terminals) \in Nat /\ Rank \in 1 .. Len(Terminals) + 1
         /\ ouvertes = Depth(Terminals, 1, Rank)
         /\ Descends(pc, arbre, n, pile, Terminals, Rank)
         /\ courant.chaine # << >> =>
              /\ Rank \in 1 .. Len(Terminals) /\ courant.chaine = Terminals[Rank]
              /\ Terminals[Rank][1] \in Operators <=> ~Operand
              /\ courant.type = "CONSTANTE" <=> Digit(Terminals[Rank][1])
         /\ courant.chaine = << >> => ptr = Len(texte) + 1 /\ Rank = Len(Terminals) + 1
         /\ Tree(arbre) /\ Calls(pile, Len(arbre)) /\ pile \in Seq(Appel)
         /\ Len(arbre) \in Nat /\ courant \in Terminal
         /\ (pc # "T_V" => n \in 1 .. Len(arbre)) /\ n \in Nat
<1>1. texte \in Seq(STRING) /\ courant \in Terminal
  BY TextIsASequence DEF TerminalAtHand
<1>2. Len(Terminals) \in Nat
  BY <1>1, TerminalsCounted
<1>3. Numbered
  BY DEF TerminalsRead
<1>4. /\ courant.chaine # << >> =>
           /\ Rank \in 1 .. Len(Terminals) /\ courant.chaine = Terminals[Rank]
           /\ courant.chaine[1] \in Operators <=> ~Operand
           /\ courant.type = "CONSTANTE" <=> Digit(courant.chaine[1])
      /\ courant.chaine = << >> => ptr = Len(texte) + 1 /\ Rank = Len(Terminals) + 1
  BY <1>3 DEF Numbered
<1>5. Rank \in 1 .. Len(Terminals) + 1
  BY <1>2, <1>4
<1>6. /\ Tree(arbre) /\ Calls(pile, Len(arbre)) /\ pile \in Seq(Appel)
      /\ Len(arbre) \in Nat /\ n \in 0 .. Len(arbre)
      /\ pc \in {"T_U", "T_EXP", "up_U", "up_EXP"} => n # 0
  BY LenProperties DEF TreeGrows, Tree, Calls
<1>7. n \in Nat /\ (pc # "T_V" => n \in 1 .. Len(arbre))
  BY <1>6 DEF Parsing
<1>8. ouvertes = Depth(Terminals, 1, Rank) /\ Descends(pc, arbre, n, pile, Terminals, Rank)
  BY DEF Descent
<1>9. courant.chaine # << >> =>
        /\ Terminals[Rank][1] \in Operators <=> ~Operand
        /\ courant.type = "CONSTANTE" <=> Digit(Terminals[Rank][1])
  BY <1>4
<1> QED
  BY <1>1, <1>2, <1>4, <1>5, <1>6, <1>7, <1>8, <1>9

(* After a terminal is read.                                               *)
LEMMA DescentAfterRead ==
  ASSUME TerminalAtHand, TerminalsRead, main = "DescenteRecursive", pc \in Parsing,
         courant.chaine # << >>, NEW where \in {"T_V", "T_U"}, Read(where),
         UNCHANGED <<main, texte>>,
         Suivant.ok => /\ ouvertes' = Depth(Terminals, 1, Rank + 1)
                       /\ Descends(where, arbre', n', pile', Terminals, Rank + 1)
  PROVE  Descent'
<1>1. BehindPiece /\ PieceNumber(texte, ptr - 1) = Rank
  BY DEF TerminalsRead, Numbered
<1>2. where \in Parsing /\ pc \in Parsing \cup {"start"} /\ texte' = texte /\ Terminals' = Terminals
  BY DEF Parsing, Terminals
<1>3. CASE pc' = "null" /\ ~WellFormed(texte)
  <2>1. /\ "null" \notin Parsing /\ "null" \notin {"up_U", "T_EXP", "up_EXP"}
        /\ "null" # "up_EXP" /\ "null" # "tree" /\ "null" \notin {"written", "exit"}
    BY DEF Parsing
  <2> QED
    BY <1>2, <1>3, <2>1 DEF Descent, WrittenValueIsExact
<1>4. CASE pc' = where /\ Suivant.ok /\ Rank' = PieceNumber(texte, ptr - 1) + 1
  <2>1. ouvertes' = Depth(Terminals', 1, Rank') /\ Descends(pc', arbre', n', pile', Terminals', Rank')
    BY <1>1, <1>2, <1>4
  <2>2. /\ where \notin {"up_U", "T_EXP", "up_EXP"} /\ where \notin {"written", "exit"}
        /\ where # "up_EXP" /\ where # "tree" /\ where # "null"
    OBVIOUS
  <2> QED
    BY <1>4, <2>1, <2>2 DEF Descent, WrittenValueIsExact
<1> QED
  BY <1>1, <1>2, <1>3, <1>4, NextTerminal

(* While the terminal at hand is kept.                                     *)
LEMMA DescentAtHand ==
  ASSUME TerminalAtHand, TreeGrows, TerminalsRead, Descent,
         main = "DescenteRecursive", pc \in Parsing,
         UNCHANGED <<main, texte, ptr, courant, ouvertes>>,
         pc' \in {"up_U", "T_EXP", "up_EXP"}, ~Multiplicative,
         Descends(pc', arbre', n', pile', Terminals, Rank),
         pc' = "up_EXP" => (Is(")") /\ ouvertes # 0) \/ courant.chaine = << >>
  PROVE  Descent'
<1>1. Rank' = Rank /\ Terminals' = Terminals /\ (Is(")")' <=> Is(")"))
      /\ (Multiplicative' <=> Multiplicative)
  BY DEF Rank, Before, Terminals, Is, Multiplicative
<1>2. ouvertes' = Depth(Terminals', 1, Rank') /\ Descends(pc', arbre', n', pile', Terminals', Rank')
  BY <1>1, AtWork
<1>3. pc' \notin {"written", "exit"} /\ pc' # "tree" /\ pc' # "null"
  OBVIOUS
<1> QED
  BY <1>1, <1>2, <1>3 DEF Descent, WrittenValueIsExact

(* When the analysis fails because the text is no expression.              *)
LEMMA DescentFails ==
  ASSUME pc' = "null", UNCHANGED <<main, texte>>, ~WellFormed(texte) \/ Reading(Terminals) = {}
  PROVE  Descent'
<1>1. /\ "null" \notin Parsing /\ "null" \notin {"up_U", "T_EXP", "up_EXP"}
      /\ "null" # "up_EXP" /\ "null" # "tree" /\ "null" \notin {"written", "exit"}
  BY DEF Parsing
<1>2. Terminals' = Terminals
  BY DEF Terminals
<1> QED
  BY <1>1, <1>2 DEF Descent, WrittenValueIsExact

LEMMA DescentLeaf ==
  ASSUME TerminalAtHand, TreeGrows, TerminalsRead, Descent, main = "DescenteRecursive", Leaf
  PROVE  Descent'
<1> USE DEF lexer, parser, output
<1>1. pc = "T_V" /\ pc \in Parsing /\ Operand /\ Read("T_U") /\ UNCHANGED <<main, texte, ouvertes, pile>>
  BY DEF Leaf, Parsing
<1>2. courant.chaine # << >>
  BY <1>1 DEF TerminalAtHand
<1>3. /\ Len(Terminals) \in Nat /\ Rank \in 1 .. Len(Terminals)
      /\ ouvertes = Depth(Terminals, 1, Rank)
      /\ Descends("T_V", arbre, n, pile, Terminals, Rank)
      /\ courant.chaine = Terminals[Rank]
      /\ Terminals[Rank][1] \notin Operators
      /\ courant.type = "CONSTANTE" <=> Digit(Terminals[Rank][1])
      /\ Tree(arbre) /\ courant \in Terminal
  BY <1>1, <1>2, AtWork
<1>4. PICK t, r, leaf : t = Terminals /\ r = Rank
                        /\ leaf = [terminal |-> courant, gauche |-> 0, droit |-> 0]
  OBVIOUS
<1>5. leaf \in Noeud /\ leaf.gauche = 0 /\ leaf.droit = 0 /\ leaf.terminal = courant
  BY <1>3, <1>4 DEF Noeud
<1>6. arbre' = Append(arbre, leaf) /\ n' = Len(arbre) + 1
  BY <1>4 DEF Leaf
<1>7. Descends("T_U", Append(arbre, leaf), Len(arbre) + 1, pile, t, r + 1)
  <2>1. /\ leaf.terminal.chaine = t[r] /\ leaf.terminal.chaine # << >>
        /\ leaf.terminal.type = "CONSTANTE" <=> Digit(t[r][1])
        /\ Len(t) \in Nat /\ r \in 1 .. Len(t) /\ t[r][1] \notin Operators
        /\ Descends("T_V", arbre, n, pile, t, r)
    BY <1>2, <1>3, <1>4, <1>5
  <2> QED
    BY <1>3, <1>5, <2>1, LeafDescends
<1>8. Depth(t, 1, r + 1) = Depth(t, 1, r)
  <2>1. t[r] # <<"(">> /\ t[r] # <<")">> /\ r \in Nat \ {0}
    BY <1>3, <1>4, SignTerminals
  <2> QED
    BY <2>1, DepthNext
<1>9. ouvertes' = Depth(Terminals, 1, Rank + 1) /\ Descends("T_U", arbre', n', pile', Terminals, Rank + 1)
  BY <1>1, <1>3, <1>4, <1>6, <1>7, <1>8
<1> QED
  BY <1>1, <1>2, <1>9, DescentAfterRead

(* A call waits for its next operand.                                      *)
LEMMA DescentCalls ==
  ASSUME TerminalAtHand, TreeGrows, TerminalsRead, Descent, main = "DescenteRecursive",
         pc \in {"T_V", "T_U", "T_EXP"}, Read("T_V"), Call(pc),
         UNCHANGED <<main, texte, arbre, n>>,
         NEW c, Is(c),
         \/ pc = "T_V" /\ c = "(" /\ (Suivant.ok => ouvertes' = ouvertes + 1)
         \/ pc = "T_U" /\ c \in {"*", "/"} /\ ouvertes' = ouvertes
         \/ pc = "T_EXP" /\ c \in {"+", "-"} /\ ouvertes' = ouvertes
  PROVE  Descent'
<1>1. pc \in Parsing /\ courant.chaine = <<c>> /\ courant.chaine # << >>
  BY DEF Is, Parsing
<1>2. /\ Len(Terminals) \in Nat /\ Rank \in 1 .. Len(Terminals)
      /\ ouvertes = Depth(Terminals, 1, Rank)
      /\ Descends(pc, arbre, n, pile, Terminals, Rank)
      /\ courant.chaine = Terminals[Rank]
      /\ pile \in Seq(Appel) /\ courant \in Terminal /\ n \in Nat
  BY <1>1, AtWork
<1>3. PICK t, r, call, where :
         /\ t = Terminals /\ r = Rank /\ where = pc
         /\ call = [methode |-> pc, opt |-> courant, gauche |-> n]
  OBVIOUS
<1>4. call \in Appel /\ call.methode = where /\ call.opt.chaine = t[r] /\ call.gauche = n
  BY <1>2, <1>3 DEF Appel
<1>5. \/ where = "T_V" /\ t[r] = <<"(">>
      \/ where = "T_U" /\ t[r] \in Products
      \/ where = "T_EXP" /\ t[r] \in Sums
  BY <1>1, <1>2, <1>3 DEF Sums, Products
<1>6. Descends("T_V", arbre, n, Append(pile, call), t, r + 1)
  <2>1. Len(t) \in Nat /\ r \in 1 .. Len(t) /\ Descends(where, arbre, n, pile, t, r)
    BY <1>2, <1>3
  <2> QED
    BY <1>2, <1>4, <1>5, <2>1, CallDescends
<1>7. Suivant.ok => ouvertes' = Depth(t, 1, r + 1)
  <2>1. r \in Nat \ {0} /\ ouvertes = Depth(t, 1, r) /\ ouvertes \in Int
    BY <1>2, <1>3, DepthNext
  <2>2. CASE pc = "T_V" /\ (Suivant.ok => ouvertes' = ouvertes + 1)
    <3>1. t[r] = <<"(">>
      BY <1>3, <1>5, <2>2
    <3> QED
      BY <2>1, <2>2, <3>1, DepthNext
  <2>3. CASE pc # "T_V" /\ ouvertes' = ouvertes
    <3>1. t[r] \in Sums \cup Products
      BY <1>3, <1>5, <2>3
    <3>2. t[r] # <<"(">> /\ t[r] # <<")">>
      BY <3>1, SignTerminals
    <3> QED
      BY <2>1, <2>3, <3>2, DepthNext
  <2> QED
    BY <2>2, <2>3
<1>8. pile' = Append(pile, call)
  BY <1>3 DEF Call
<1>9. Suivant.ok => /\ ouvertes' = Depth(Terminals, 1, Rank + 1)
                    /\ Descends("T_V", arbre', n', pile', Terminals, Rank + 1)
  BY <1>3, <1>6, <1>7, <1>8
<1> QED
  BY <1>1, <1>9, DescentAfterRead

(* T_V finds no operand: the terminal at hand cannot begin one.            *)
LEMMA DescentNoOperand ==
  ASSUME TerminalAtHand, TreeGrows, TerminalsRead, Descent, main = "DescenteRecursive", NoOperand
  PROVE  Descent'
<1> USE DEF lexer, parser, output
<1>1. /\ pc = "T_V" /\ pc \in Parsing /\ ~Operand /\ ~Is("(")
      /\ pc' = "null" /\ UNCHANGED <<main, texte>>
  BY DEF NoOperand, Throw, Parsing
<1>2. PICK t, r : t = Terminals /\ r = Rank
  OBVIOUS
<1>3. /\ Len(t) \in Nat /\ r \in 1 .. Len(t) + 1
      /\ Descends("T_V", arbre, n, pile, t, r)
      /\ courant.chaine # << >> =>
           r \in 1 .. Len(t) /\ courant.chaine = t[r] /\ t[r][1] \in Operators
      /\ courant.chaine = << >> => r = Len(t) + 1
  BY <1>1, <1>2, AtWork
<1>4. r > 1 => ~Ends(t[r - 1])
  BY <1>3 DEF Descends, Returns
<1>5. Reading(t) = {}
  <2> SUFFICES ASSUME Reading(t) # {} PROVE FALSE
    OBVIOUS
  <2>1. CASE courant.chaine = << >>
    <3>1. r > Len(t)
      BY <1>3, <2>1
    <3> QED
      BY <1>3, <1>4, <3>1, ReadingGoesOn
  <2>2. CASE courant.chaine # << >>
    <3>1. r <= Len(t)
      BY <1>3, <2>2
    <3>2. ~Begins(t[r])
      BY <1>1, <1>3, <2>2 DEF Begins, Is
    <3> QED
      BY <1>3, <1>4, <3>1, <3>2, ReadingGoesOn
  <2> QED
    BY <2>1, <2>2
<1> QED
  BY <1>1, <1>2, <1>5, DescentFails

(* T_V reads on behind its ")", or the text has ended before it.           *)
LEMMA DescentClose ==
  ASSUME TerminalAtHand, TreeGrows, ParenthesesCounted, TerminalsRead, Descent,
         main = "DescenteRecursive", Close
  PROVE  Descent'
<1> USE DEF lexer, parser, output
<1>1. /\ pc = "up_EXP" /\ pc \in Parsing /\ pile # << >> /\ Last(pile).methode = "T_V"
      /\ UNCHANGED <<main, texte>>
  BY DEF Close, Parsing
<1>2. PICK t, r : t = Terminals /\ r = Rank
  OBVIOUS
<1>3. /\ Len(t) \in Nat /\ r \in 1 .. Len(t) + 1
      /\ ouvertes = Depth(t, 1, r)
      /\ Descends("up_EXP", arbre, n, pile, t, r)
      /\ courant.chaine # << >> => r \in 1 .. Len(t) /\ courant.chaine = t[r]
      /\ courant.chaine = << >> => r = Len(t) + 1
      /\ Calls(pile, Len(arbre)) /\ Len(arbre) \in Nat
  BY <1>1, <1>2, AtWork
<1>4. CASE Is(")")
  <2>1. courant.chaine = <<")">> /\ courant.chaine # << >>
    BY <1>4 DEF Is
  <2>2. Descends("T_U", arbre, n, Front(pile), t, r + 1)
    BY <1>1, <1>3, <2>1, CloseDescends
  <2>3. /\ Read("T_U") /\ pile' = Front(pile) /\ UNCHANGED <<arbre, n>>
        /\ Suivant.ok => ouvertes' = ouvertes - 1
    BY <1>4 DEF Close
  <2>4. Suivant.ok => ouvertes' = Depth(t, 1, r + 1)
    <3>1. r \in Nat \ {0} /\ t[r] = <<")">> /\ <<")">> # <<"(">>
      BY <1>3, <2>1
    <3> QED
      BY <1>3, <2>3, <3>1, DepthNext
  <2> QED
    BY <1>1, <1>2, <2>1, <2>2, <2>3, <2>4, DescentAfterRead
<1>5. CASE ~Is(")")
  <2>1. pc' = "null"
    BY <1>5 DEF Close, Throw
  <2>2. courant.chaine = << >>
    BY <1>1, <1>5 DEF Descent
  <2>3. ouvertes # 0
    <3>1. ouvertes = Cardinality(WaitForClose(pile)) /\ ouvertes \in Nat
      BY <1>1 DEF ParenthesesCounted
    <3>2. /\ Cardinality(WaitForClose(Front(pile))) \in Nat
          /\ Cardinality(WaitForClose(pile)) = Cardinality(WaitForClose(Front(pile))) + 1
      BY <1>1, <1>3, WaitingLeaves
    <3> QED
      BY <3>1, <3>2
  <2>4. Reading(t) = {}
    <3>1. r > Len(t)
      BY <1>3, <2>2
    <3> QED
      BY <1>3, <2>3, <3>1, ReadingGoesOn
  <2> QED
    BY <1>1, <1>2, <2>1, <2>4, DescentFails
<1> QED
  BY <1>4, <1>5

LEMMA DescentOpen ==
  ASSUME TerminalAtHand, TreeGrows, TerminalsRead, Descent, main = "DescenteRecursive", Open
  PROVE  Descent'
<1>1. /\ pc = "T_V" /\ Is("(") /\ Read("T_V") /\ Call(pc)
      /\ UNCHANGED <<main, texte, arbre, n>>
      /\ Suivant.ok => ouvertes' = ouvertes + 1
  BY DEF Open, output
<1> QED
  BY <1>1, DescentCalls

LEMMA DescentAfterV ==
  ASSUME TerminalAtHand, TreeGrows, TerminalsRead, Descent, main = "DescenteRecursive", AfterV
  PROVE  Descent'
<1> USE DEF lexer, parser, output
<1>1. CASE Multiplicative
  <2>1. /\ pc = "T_U" /\ Read("T_V") /\ Call(pc) /\ UNCHANGED <<main, texte, arbre, n, ouvertes>>
    BY <1>1 DEF AfterV
  <2>2. PICK c \in {"*", "/"} : Is(c)
    BY <1>1 DEF Multiplicative
  <2> QED
    BY <2>1, <2>2, DescentCalls
<1>2. CASE ~Multiplicative
  <2>1. /\ pc = "T_U" /\ pc \in Parsing /\ pc' = "up_U"
        /\ UNCHANGED <<main, texte, ptr, etat, courant, ouvertes, pile, arbre, n>>
    BY <1>2 DEF AfterV, Parsing
  <2>2. Descends("T_U", arbre, n, pile, Terminals, Rank)
    BY <2>1, AtWork
  <2>3. Descends("up_U", arbre, n, pile, Terminals, Rank)
    BY <2>2, Passes
  <2>4. Descends(pc', arbre', n', pile', Terminals, Rank)
    BY <2>1, <2>3
  <2> QED
    BY <1>2, <2>1, <2>4, DescentAtHand
<1> QED
  BY <1>1, <1>2

(* A node is made by the call on top of the stack.                         *)
LEMMA DescentNode ==
  ASSUME TerminalAtHand, TreeGrows, TerminalsRead, Descent, main = "DescenteRecursive",
         MakeNode, pile # << >>, pc' = pc, UNCHANGED <<main, texte, ptr, etat, courant, ouvertes>>,
         \/ pc = "up_U" /\ Last(pile).methode = "T_U"
         \/ pc = "up_EXP" /\ Last(pile).methode = "T_EXP"
  PROVE  Descent'
<1>1. pc \in Parsing /\ pc # "T_V" /\ pc' \in {"up_U", "T_EXP", "up_EXP"}
  BY DEF Parsing
<1>2. /\ Len(Terminals) \in Nat /\ Rank \in 1 .. Len(Terminals) + 1
      /\ Descends(pc, arbre, n, pile, Terminals, Rank)
      /\ Tree(arbre) /\ Calls(pile, Len(arbre)) /\ n \in 1 .. Len(arbre) /\ Len(arbre) \in Nat
  BY <1>1, AtWork
<1>3. Last(pile) \in Appel /\ Last(pile).opt \in Terminal /\ Last(pile).gauche \in Nat
  <2>1. Last(pile) \in Appel
    BY <1>2, CallLeaves
  <2> QED
    BY <2>1 DEF Appel
<1>4. PICK joint : joint = [terminal |-> Last(pile).opt, gauche |-> Last(pile).gauche, droit |-> n]
  OBVIOUS
<1>5. /\ joint \in Noeud /\ joint.terminal = Last(pile).opt
      /\ joint.gauche = Last(pile).gauche /\ joint.droit = n
  BY <1>2, <1>3, <1>4 DEF Noeud
<1>6. PICK t, r, where : t = Terminals /\ r = Rank /\ where = pc
  OBVIOUS
<1>7. Descends(where, Append(arbre, joint), Len(arbre) + 1, Front(pile), t, r)
  <2>1. /\ Len(t) \in Nat /\ r \in 1 .. Len(t) + 1 /\ Descends(where, arbre, n, pile, t, r)
        /\ \/ where = "up_U" /\ Last(pile).methode = "T_U"
           \/ where = "up_EXP" /\ Last(pile).methode = "T_EXP"
    BY <1>2, <1>6
  <2> QED
    BY <1>2, <1>5, <2>1, NodeDescends
<1>8. arbre' = Append(arbre, joint) /\ n' = Len(arbre) + 1 /\ pile' = Front(pile)
  BY <1>4 DEF MakeNode
<1>9. Descends(pc', arbre', n', pile', Terminals, Rank)
  BY <1>6, <1>7, <1>8
<1>10. /\ ~Multiplicative
       /\ pc' = "up_EXP" => (Is(")") /\ ouvertes # 0) \/ courant.chaine = << >>
  BY <1>1 DEF Descent
<1> QED
  BY <1>1, <1>9, <1>10, DescentAtHand

LEMMA DescentUReturns ==
  ASSUME TerminalAtHand, TreeGrows, TerminalsRead, Descent, main = "DescenteRecursive", UReturns
  PROVE  Descent'
<1> USE DEF lexer, parser, output
<1>1. /\ pc = "up_U" /\ pc \in Parsing
      /\ UNCHANGED <<main, texte, ptr, etat, courant, ouvertes>>
  BY DEF UReturns, Parsing
<1>2. CASE pile # << >> /\ Last(pile).methode = "T_U"
  <2>1. MakeNode /\ pc' = pc
    BY <1>2 DEF UReturns
  <2> QED
    BY <1>1, <1>2, <2>1, DescentNode
<1>3. CASE ~(pile # << >> /\ Last(pile).methode = "T_U")
  <2>1. pc' = "T_EXP" /\ UNCHANGED <<pile, arbre, n>>
    BY <1>3 DEF UReturns
  <2>2. Descends("up_U", arbre, n, pile, Terminals, Rank)
    BY <1>1, AtWork
  <2>3. Descends("T_EXP", arbre, n, pile, Terminals, Rank)
    BY <2>2, Passes
  <2>4. Descends(pc', arbre', n', pile', Terminals, Rank)
    BY <2>1, <2>3
  <2>5. ~Multiplicative
    BY <1>1 DEF Descent
  <2> QED
    BY <1>1, <2>1, <2>4, <2>5, DescentAtHand
<1> QED
  BY <1>2, <1>3

(* T_EXP goes on with "+" or "-", refuses what cannot stand there, or has  *)
(* read an expression.                                                     *)
LEMMA DescentAfterU ==
  ASSUME TerminalAtHand, TreeGrows, TerminalsRead, Descent, main = "DescenteRecursive", AfterU
  PROVE  Descent'
<1> USE DEF lexer, parser, output
<1>1. pc = "T_EXP" /\ pc \in Parsing /\ UNCHANGED <<main, texte>>
  BY DEF AfterU, Parsing
<1>2. CASE Additive
  <2>1. Read("T_V") /\ Call(pc) /\ UNCHANGED <<arbre, n, ouvertes>>
    BY <1>1, <1>2 DEF AfterU
  <2>2. PICK c \in {"+", "-"} : Is(c)
    BY <1>2 DEF Additive
  <2> QED
    BY <1>1, <2>1, <2>2, DescentCalls
<1>3. PICK t, r : t = Terminals /\ r = Rank
  OBVIOUS
<1>4. /\ Len(t) \in Nat /\ r \in 1 .. Len(t) + 1
      /\ ouvertes = Depth(t, 1, r)
      /\ Descends("T_EXP", arbre, n, pile, t, r)
      /\ courant.chaine # << >> =>
           /\ r \in 1 .. Len(t) /\ courant.chaine = t[r]
           /\ t[r][1] \in Operators <=> ~Operand
  BY <1>1, <1>3, AtWork
<1>5. r > 1 /\ Ends(t[r - 1])
  <2>1. PICK from : Returns("T_EXP", arbre, n, t, from, r)
    BY <1>4 DEF Descends
  <2>2. r > 1
    <3>1. "T_EXP" \in Parsing \ {"T_V"} /\ r \in Nat
      BY <1>4 DEF Parsing
    <3> QED
      BY <2>1, <3>1, SpanBefore
  <2> QED
    BY <2>1, <2>2 DEF Returns
<1>6. CASE ~Additive /\ Misplaced
  <2>1. pc' = "null"
    BY <1>6 DEF AfterU, Throw
  <2>2. Reading(t) = {}
    <3> SUFFICES ASSUME Reading(t) # {} PROVE FALSE
      OBVIOUS
    <3>1. CASE Is("(") \/ (Operand /\ courant.chaine # << >>)
      <4>1. courant.chaine # << >>
        BY <3>1, SMTT(30) DEF Is
      <4>2. Begins(t[r])
        BY <1>4, <3>1, <4>1, SignTerminals DEF Is
      <4>3. r <= Len(t)
        BY <1>4, <4>1
      <4> QED
        BY <1>4, <1>5, <4>2, <4>3, ReadingGoesOn
    <3>2. CASE Is(")") /\ ouvertes = 0
      <4>1. courant.chaine # << >> /\ courant.chaine = <<")">> /\ <<")">> # <<"(">>
        BY <3>2 DEF Is
      <4>2. r <= Len(t) /\ t[r] = <<")">> /\ r \in Nat \ {0}
        BY <1>4, <4>1
      <4>3. ~(Depth(t, 1, r + 1) >= 0)
        <5>1. Depth(t, 1, r) = 0 /\ t[r] # <<"(">>
          BY <1>4, <3>2, <4>1, <4>2
        <5>2. Depth(t, 1, r + 1) = Depth(t, 1, r) + -1
          BY <4>2, <5>1, DepthNext
        <5> QED
          BY <5>1, <5>2
      <4> QED
        BY <1>4, <4>2, <4>3, ReadingGoesOn
    <3> QED
      BY <1>6, <3>1, <3>2 DEF Misplaced
  <2> QED
    BY <1>1, <1>3, <2>1, <2>2, DescentFails
<1>7. CASE ~Additive /\ ~Misplaced
  <2>1. /\ pc' = "up_EXP"
        /\ UNCHANGED <<ptr, etat, courant, ouvertes, pile, arbre, n>>
    BY <1>7 DEF AfterU
  <2>2. Descends("up_EXP", arbre, n, pile, t, r)
    BY <1>4, Passes
  <2>3. ~Multiplicative
    BY <1>1 DEF Descent
  <2>4. (Is(")") /\ ouvertes # 0) \/ courant.chaine = << >>
    <3> SUFFICES ASSUME courant.chaine # << >> PROVE Is(")") /\ ouvertes # 0
      OBVIOUS
    <3>1. ~Operand /\ ~Is("(") /\ ~(Is(")") /\ ouvertes = 0)
      BY <1>7 DEF Misplaced
    <3>2. courant.chaine[1] \in Operators
      BY <1>4, <3>1
    <3>3. courant.chaine = <<courant.chaine[1]>>
      <4>1. courant.chaine \in Seq(STRING) /\ Len(courant.chaine) <= 1
        BY <1>1, <3>1 DEF TerminalAtHand, Terminal
      <4>2. PICK s \in Seq(STRING) : s = courant.chaine
        BY <4>1
      <4>3. Len(s) = 1
        <5>1. Len(s) \in Nat /\ Len(s) # 0 /\ Len(s) <= 1
          BY <4>1, <4>2, LenProperties, EmptySeq
        <5>2. \A l \in Nat : l # 0 /\ l <= 1 => l = 1
          OBVIOUS
        <5> QED
          BY <5>1, <5>2, Zenon
      <4>4. s[1] \in STRING
        BY <4>3, ElementOfSeq
      <4>5. <<s[1]>> \in Seq(STRING) /\ Len(<<s[1]>>) = 1 /\ <<s[1]>>[1] = s[1]
        BY <4>4
      <4>6. \A i \in 1 .. 1 : s[i] = <<s[1]>>[i]
        BY <4>5
      <4>7. s = <<s[1]>>
        BY <4>3, <4>5, <4>6, SeqEqual
      <4> QED
        BY <4>2, <4>7
    <3>4. PICK c \in Operators : courant.chaine = <<c>>
      BY <3>2, <3>3
    <3>5. Is(c)
      BY <3>4 DEF Is
    <3>6. ~Is("+") /\ ~Is("-") /\ ~Is("*") /\ ~Is("/")
      BY <1>7, <2>3 DEF Additive, Multiplicative
    <3>7. c = ")"
      BY <3>1, <3>5, <3>6 DEF Operators
    <3> QED
      BY <3>1, <3>5, <3>7
  <2>5. Descends(pc', arbre', n', pile', Terminals, Rank)
    BY <1>3, <2>1, <2>2
  <2> QED
    BY <1>1, <2>1, <2>3, <2>4, <2>5, DescentAtHand
<1> QED
  BY <1>2, <1>6, <1>7

LEMMA DescentExpReturns ==
  ASSUME TerminalAtHand, TreeGrows, TerminalsRead, Descent, main = "DescenteRecursive", ExpReturns
  PROVE  Descent'
<1>1. /\ pc = "up_EXP" /\ MakeNode /\ pile # << >> /\ Last(pile).methode = "T_EXP" /\ pc' = pc
      /\ UNCHANGED <<main, texte, ptr, etat, courant, ouvertes>>
  BY DEF ExpReturns, lexer, output
<1> QED
  BY <1>1, DescentNode

(* The analysis begins, unless the text is empty, which has no reading.    *)
LEMMA DescentAnalSynt ==
  ASSUME TerminalAtHand, ParenthesesCounted, main = "DescenteRecursive", AnalSynt
  PROVE  Descent'
<1> USE DEF lexer, parser, output
<1>0. /\ pc = "start" /\ UNCHANGED <<main, texte>> /\ Terminals' = Terminals
      /\ pile = << >> /\ ouvertes = 0 /\ ptr = 1
  BY DEF AnalSynt, Terminals, ParenthesesCounted, TerminalAtHand
<1>1. texte \in Seq(STRING) /\ Len(texte) \in Nat
  BY TextIsASequence DEF TerminalAtHand
<1>2. Len(Terminals) = PieceNumber(texte, Len(texte)) /\ Len(Terminals) \in Nat
  BY <1>1, TerminalsCounted
<1>3. CASE ~ResteTerminal
  <2>1. pc' = "null"
    BY <1>3 DEF AnalSynt, Throw
  <2>2. Len(texte) = 0
    BY <1>0, <1>1, <1>3 DEF ResteTerminal
  <2>3. Len(Terminals) = 0
    BY <1>2, <2>2, PieceNumbers
  <2>4. Reading(Terminals) = {}
    <3> SUFFICES ASSUME Reading(Terminals) # {} PROVE FALSE
      OBVIOUS
    <3>1. 1 \in 1 .. Len(Terminals) + 1 /\ 1 > Len(Terminals) /\ ~(1 > 1)
      BY <2>3
    <3> QED
      BY <1>2, <3>1, ReadingGoesOn
  <2> QED
    BY <1>0, <2>1, <2>4, DescentFails
<1>4. CASE ResteTerminal
  <2>1. Read("T_V") /\ ptr <= Len(texte) /\ UNCHANGED <<ouvertes, pile, arbre, n>>
    BY <1>4 DEF AnalSynt, ResteTerminal
  <2>2. BehindPiece /\ PieceNumber(texte, ptr - 1) = 0
    BY <1>0, <2>1, StartBehindPiece
  <2>3. CASE pc' = "null" /\ ~WellFormed(texte)
    BY <1>0, <2>3, DescentFails
  <2>4. CASE pc' = "T_V" /\ Rank' = PieceNumber(texte, ptr - 1) + 1
    <3>1. Rank' = 1
      BY <2>2, <2>4
    <3>2. ouvertes' = Depth(Terminals', 1, Rank')
      <4>1. Depth(Terminals, 1, 1) = 0
        BY DepthOfOne
      <4> QED
        BY <1>0, <2>1, <3>1, <4>1
    <3>3. Descends("T_V", arbre, n, << >>, Terminals, 1)
      <4>1. PICK t : t = Terminals
        OBVIOUS
      <4>2. PICK ends : ends = [k \in 0 .. 0 |-> 0]
        OBVIOUS
      <4>3. /\ ends \in [0 .. Len(<< >>) -> 0 .. Len(t)] /\ ends[0] = 0
            /\ Len(<< >>) = 0 /\ 1 .. 0 = {}
        BY <1>2, <4>1, <4>2
      <4>4. Wait(<< >>, arbre, t, ends)
        BY <4>3 DEF Wait
      <4>5. Returns("T_V", arbre, n, t, 1, 1)
        BY DEF Returns
      <4>6. ends[Len(<< >>)] + 1 = 1
        BY <4>3
      <4> QED
        BY <4>1, <4>3, <4>4, <4>5, <4>6 DEF Descends
    <3>4. Descends(pc', arbre', n', pile', Terminals', Rank')
      BY <1>0, <2>1, <2>4, <3>1, <3>3
    <3>5. /\ "T_V" \notin {"up_U", "T_EXP", "up_EXP"} /\ "T_V" # "up_EXP"
          /\ "T_V" # "tree" /\ "T_V" # "null" /\ "T_V" \notin {"written", "exit"}
      OBVIOUS
    <3> QED
      BY <2>4, <3>2, <3>4, <3>5 DEF Descent, WrittenValueIsExact
  <2> QED
    <3>1. "T_V" \in Parsing /\ pc \in Parsing \cup {"start"} /\ UNCHANGED texte
      BY <1>0 DEF Parsing
    <3> QED
      BY <2>1, <2>2, <2>3, <2>4, <3>1, NextTerminal
<1> QED
  BY <1>3, <1>4

(* The analysis ends when no call waits: then the whole text is read.      *)
LEMMA DescentAnalSyntReturns ==
  ASSUME TerminalAtHand, TreeGrows, ParenthesesCounted, TerminalsRead, Descent,
         main = "DescenteRecursive", AnalSyntReturns
  PROVE  Descent'
<1> USE DEF lexer, parser, output
<1>1. /\ pc = "up_EXP" /\ pc \in Parsing /\ pile = << >> /\ pc' = "tree"
      /\ UNCHANGED <<main, texte, arbre, n>>
  BY DEF AnalSyntReturns, Parsing
<1>2. ouvertes = 0
  <2>1. WaitForClose(<< >>) = {}
    BY DEF WaitForClose
  <2>2. ouvertes = Cardinality(WaitForClose(pile))
    BY <1>1 DEF ParenthesesCounted
  <2> QED
    BY <1>1, <2>1, <2>2, FS_EmptySet
<1>3. courant.chaine = << >>
  BY <1>1, <1>2 DEF Descent
<1>4. PICK t, r : t = Terminals /\ r = Rank
  OBVIOUS
<1>5. /\ Len(t) \in Nat /\ r = Len(t) + 1 /\ ptr = Len(texte) + 1
      /\ Descends("up_EXP", arbre, n, << >>, t, r)
  BY <1>1, <1>3, <1>4, AtWork
<1>6. Stands(arbre, n, t, 1, Len(t), {})
  <2>1. PICK ends \in [0 .. Len(<< >>) -> 0 .. Len(t)] :
           /\ Wait(<< >>, arbre, t, ends)
           /\ Returns("up_EXP", arbre, n, t, ends[Len(<< >>)] + 1, r)
    BY <1>5 DEF Descends
  <2>2. ends[Len(<< >>)] + 1 = 1 /\ r - 1 = Len(t)
    <3>1. ends[0] = 0 /\ Len(<< >>) = 0
      BY <2>1 DEF Wait
    <3> QED
      BY <1>5, <3>1
  <2>3. Returns("up_EXP", arbre, n, t, 1, r)
    BY <2>1, <2>2
  <2> QED
    BY <2>2, <2>3 DEF Returns
<1>7. WellFormed(texte)
  <2>1. \A i \in 1 .. ptr - 1 : Sound(texte, i)
    BY <1>1 DEF TerminalsRead, BehindPiece
  <2>2. Len(texte) \in Nat
    BY TextIsASequence DEF TerminalAtHand
  <2>3. ptr - 1 = Len(texte)
    BY <1>5, <2>2
  <2> QED
    BY <2>1, <2>3 DEF WellFormed, Sound
<1>8. /\ "tree" \notin Parsing /\ "tree" \notin {"up_U", "T_EXP", "up_EXP"}
      /\ "tree" # "up_EXP" /\ "tree" # "null" /\ "tree" \notin {"written", "exit"}
  BY DEF Parsing
<1>9. Terminals' = t
  BY <1>1, <1>4 DEF Terminals
<1> QED
  BY <1>1, <1>6, <1>7, <1>8, <1>9 DEF Descent, WrittenValueIsExact

(* The value is written if there is one, and then it is the right one.     *)
LEMMA DescentWriteResult ==
  ASSUME TerminalAtHand, Descent, main = "DescenteRecursive", WriteResult
  PROVE  Descent'
<1> USE DEF lexer, parser, output
<1>1. PICK t : t = Terminals
  OBVIOUS
<1>2. /\ pc \in {"tree", "null"} /\ UNCHANGED <<main, texte>> /\ pc' \in {"written", "exit"}
      /\ Terminals' = t
  BY <1>1 DEF WriteResult, Terminals
<1>3. Len(t) \in Nat
  BY <1>1, TextIsASequence, TerminalsCounted DEF TerminalAtHand
<1>4. CASE pc = "tree"
  <2>1. Stands(arbre, n, t, 1, Len(t), {})
    BY <1>1, <1>4 DEF Descent
  <2>2. /\ \A v \in Exact(t) : EvalAST(arbre)[n] = {v}
        /\ EvalAST(arbre)[n] # {} => \A k \in 1 .. Len(t) : t[k][1] \notin Letters
    BY <2>1 DEF Stands, Exact
  <2>3. IF EvalAST(arbre)[n] # {} THEN valeur' = EvalAST(arbre)[n] /\ pc' = "written"
        ELSE pc' = "exit"
    BY <1>4 DEF WriteResult
  <2>4. pc' = "written" => \A k \in 1 .. Len(t) : t[k][1] \notin Letters
    <3>1. "exit" # "written"
      OBVIOUS
    <3> QED
      BY <2>2, <2>3, <3>1
  <2>5. \A v \in Exact(t) : pc' = "written" /\ valeur' = {v}
    <3> TAKE v \in Exact(t)
    <3>1. EvalAST(arbre)[n] = {v}
      BY <2>2
    <3>2. {v} # {}
      OBVIOUS
    <3> QED
      BY <2>3, <3>1, <3>2, Zenon
  <2>6. DOMAIN t = 1 .. Len(t)
    BY <1>1, TextIsASequence, TerminalsCounted DEF TerminalAtHand
  <2>7. WrittenValueIsExact'
    BY <1>2, <2>4, <2>5, <2>6 DEF WrittenValueIsExact
  <2> QED
    BY <1>2, <2>7 DEF Descent, Parsing
<1>5. CASE pc = "null"
  <2>1. pc' = "exit" /\ "exit" # "written"
    BY <1>5 DEF WriteResult
  <2>2. ~WellFormed(texte) \/ Exact(t) = {}
    <3>1. ~WellFormed(texte) \/ Reading(t) = {}
      BY <1>1, <1>5 DEF Descent
    <3>2. 1 \in 1 .. Len(t) + 1 /\ Len(t) \in 0 .. Len(t)
      BY <1>3
    <3>3. Exact(t) # {} => Reading(t) # {}
      BY <1>3, <3>2, ExactsAreReadings DEF Exact, Reading
    <3> QED
      BY <3>1, <3>3
  <2>3. WrittenValueIsExact'
    BY <1>2, <2>1, <2>2 DEF WrittenValueIsExact
  <2> QED
    BY <1>2, <2>3 DEF Descent, Parsing
<1> QED
  BY <1>2, <1>4, <1>5

LEMMA DescentInit == Init => Descent
BY DEF Init, Descent, Parsing, WrittenValueIsExact

LEMMA DescentStep ==
  TerminalAtHand /\ TreeGrows /\ ParenthesesCounted /\ TerminalsRead /\ Descent /\ [Next]_vars
    => Descent'
<1> SUFFICES ASSUME TerminalAtHand, TreeGrows, ParenthesesCounted, TerminalsRead, Descent,
                    [Next]_vars
             PROVE  Descent'
  OBVIOUS
<1>1. CASE main # "DescenteRecursive"
  <2>1. main' = main
    BY DEF Next, T_V, T_U, T_EXP, LexOne, LexEnd, AnalSynt, Leaf, Open, NoOperand, Close, AfterV,
           UReturns, AfterU, ExpReturns, AnalSyntReturns, WriteResult, vars
  <2> QED
    BY <1>1, <2>1 DEF Descent
<1>2. CASE main = "DescenteRecursive"
  <2>1. ~LexOne /\ ~LexEnd
    BY <1>2 DEF LexOne, LexEnd
  <2>2. CASE UNCHANGED vars
    <3>1. /\ UNCHANGED <<main, texte, ouvertes, pile, pc, arbre, n, valeur>>
          /\ Terminals' = Terminals /\ Rank' = Rank /\ courant' = courant
          /\ (Is(")")' <=> Is(")")) /\ (Multiplicative' <=> Multiplicative)
      BY <2>2 DEF vars, lexer, parser, output, Terminals, Rank, Before, Is, Multiplicative
    <3> QED
      BY <3>1 DEF Descent, WrittenValueIsExact
  <2> QED
    BY <1>2, <2>1, <2>2, DescentAnalSynt, DescentLeaf, DescentOpen, DescentNoOperand, DescentClose,
       DescentAfterV, DescentUReturns, DescentAfterU, DescentExpReturns, DescentAnalSyntReturns,
       DescentWriteResult
       DEF Next, T_V, T_U, T_EXP
<1> QED
  BY <1>1, <1>2

LEMMA DescentInvariant == Spec => [](TerminalAtHand /\ Descent)
<1>1. Init => TerminalsRead /\ Descent
  BY ReadInit, DescentInit
<1>2. TerminalAtHand /\ TreeGrows /\ ParenthesesCounted /\ TerminalsRead /\ Descent /\ [Next]_vars
        => TerminalsRead' /\ Descent'
  BY ReadStep, DescentStep
<1> QED
  BY <1>1, <1>2, Invariant, PTL DEF Spec

(* A tree is built exactly for the texts that are expressions, all of the  *)
(* text is in it, and its shape is the one of the expression, for texts of *)
(* every length: what the calls of T_EXP, T_U and T_V that wait have read  *)
(* are expressions, and nothing that they refuse could go on with them.    *)
THEOREM TreeIsReading == Spec => []TreeIsTheReading
<1>1. TerminalAtHand /\ Descent => TreeIsTheReading
  <2> SUFFICES ASSUME Descent PROVE TreeIsTheReading
    OBVIOUS
  <2>1. ASSUME main = "DescenteRecursive", pc = "tree"
        PROVE  WellFormed(texte) /\ Reading(Terminals) = {LectAST(arbre)[n]}
    BY <2>1 DEF Descent, Stands, Reading
  <2> QED
    BY <2>1 DEF TreeIsTheReading, Descent
<1> QED
  BY <1>1, DescentInvariant, PTL

(* EvalAST() gives the value that the expression has in the integers when  *)
(* all its parts fit an int, a file is written then, and none is for an    *)
(* expression with a variable, for every width of int.                     *)
THEOREM WrittenValueExact == Spec => []WrittenValueIsExact
<1>1. Descent => WrittenValueIsExact
  BY DEF Descent, WrittenValueIsExact
<1> QED
  BY <1>1, DescentInvariant, PTL
=============================================================================
