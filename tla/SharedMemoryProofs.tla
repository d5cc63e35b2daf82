------------------------- MODULE SharedMemoryProofs -------------------------
(***************************************************************************)
(* Proofs about SharedMemory, for every number of processes, slots and     *)
(* bytes in a slot, every choice of strings, and processes killed in the   *)
(* middle of a call.                                                       *)
(***************************************************************************)
EXTENDS SharedMemoryInvariants, SequenceTheorems, FiniteSetTheorems, NaturalsInduction, TLAPS

(* A non-empty set of natural numbers has a least element.                 *)
LEMMA LeastElement ==
  ASSUME NEW T, T \subseteq Nat, T # {}
  PROVE  Min(T) \in T /\ \A y \in T : Min(T) <= y
<1> DEFINE R == OpToRel(<, Nat)
<1>1. IsWellFoundedOn(R, Nat)
  BY NatLessThanWellFounded
<1>2. \A x, y \in Nat : y < x => <<y, x>> \in R
  BY DEF OpToRel
<1> HIDE DEF R
<1>3. PICK x \in T : \A y \in T : <<y, x>> \notin R
  BY <1>1, WFMin
<1>4. ASSUME NEW y \in T
      PROVE  x <= y
  <2>1. x \in Nat /\ y \in Nat /\ ~(y < x)
    BY <1>2, <1>3
  <2> QED
    BY <2>1
<1> QED
  BY <1>4 DEF Min

(* The number of bytes of a slot.                                          *)
LEMMA SlotLength ==
  maxsize \in Nat /\ 1 <= maxsize /\ maxsize <= 127
<1>1. maxsize \in 1 .. 127
  BY SharedMemoryAssumption, Zenon
<1> QED
  BY <1>1

(* The beginning of a sequence.                                            *)
LEMMA Beginning ==
  ASSUME NEW S, NEW s \in Seq(S), NEW n \in 0 .. Len(s)
  PROVE  /\ SubSeq(s, 1, n) \in Seq(S)
         /\ Len(SubSeq(s, 1, n)) = n
         /\ \A i \in 1 .. n : SubSeq(s, 1, n)[i] = s[i]
<1>1. Len(s) \in Nat /\ n \in Int
  BY LenProperties
<1>2. \A i \in 1 .. n : s[i] \in S
  BY <1>1, ElementOfSeq
<1>3. \A i \in 1 .. n : 1 + i - 1 = i /\ n - 1 + 1 = n
  BY <1>1
<1> QED
  BY <1>1, <1>2, <1>3, SubSeqProperties

(* NewStringUTF keeps what stands before the first NUL.                    *)
LEMMA UpToNULKeeps ==
  ASSUME NEW S, NEW s \in Seq(S)
  PROVE  /\ UpToNUL(s) \in Seq(S)
         /\ Len(UpToNUL(s)) <= Len(s)
         /\ (\A i \in 1 .. Len(s) : s[i] # NUL) => UpToNUL(s) = s
         /\ s # << >> /\ s[1] = NUL => UpToNUL(s) = << >>
         /\ s # << >> /\ s[1] # NUL => UpToNUL(s) # << >> /\ UpToNUL(s)[1] = s[1]
<1> DEFINE I == {i \in 1 .. Len(s) : s[i] = NUL}
           m == Min(I)
<1>0. Len(s) \in Nat /\ (s # << >> => 1 \in 1 .. Len(s))
  BY LenProperties, EmptySeq
<1>1. Contains(s, NUL) <=> I # {}
  BY DEF Contains
<1>2. CASE I = {}
  <2>1. UpToNUL(s) = s
    BY <1>1, <1>2 DEF UpToNUL
  <2>2. s # << >> => s[1] # NUL
    BY <1>0, <1>2
  <2> QED
    BY <1>0, <2>1, <2>2
<1>3. CASE I # {}
  <2>1. m \in I /\ \A y \in I : m <= y
    <3>1. I \subseteq Nat
      BY <1>0
    <3> HIDE DEF I
    <3> QED
      BY <1>3, <3>1, LeastElement
  <2>2. SelectInSeq(s, LAMBDA c : c = NUL) = m
    BY <1>3 DEF SelectInSeq
  <2>3. UpToNUL(s) = SubSeq(s, 1, m - 1)
    BY <1>1, <1>3, <2>2 DEF UpToNUL
  <2>4. m \in 1 .. Len(s) /\ s[m] = NUL
    BY <2>1
  <2>5. /\ UpToNUL(s) \in Seq(S) /\ Len(UpToNUL(s)) = m - 1
        /\ \A i \in 1 .. m - 1 : UpToNUL(s)[i] = s[i]
    <3>1. m - 1 \in 0 .. Len(s)
      BY <1>0, <2>4
    <3> QED
      BY <2>3, <3>1, Beginning
  <2>6. s[1] = NUL => m = 1
    BY <1>0, <2>1, <2>4
  <2>7. m = 1 => UpToNUL(s) = << >>
    BY <2>5, EmptySeq
  <2>8. s[1] # NUL => m # 1 /\ UpToNUL(s) # << >> /\ UpToNUL(s)[1] = s[1]
    BY <2>4, <2>5, EmptySeq
  <2> QED
    BY <1>0, <2>4, <2>5, <2>6, <2>7, <2>8
<1> QED
  BY <1>2, <1>3

-----------------------------------------------------------------------------
(* Addresses. *)

LEMMA CellsAreApart ==
  ASSUME NEW i \in Slots, NEW k \in 0 .. maxsize - 1
  PROVE  /\ Cell(i, k) \in 2 .. totalSize - 1
         /\ Cell(i, k) - 2 \in i * maxsize .. (i + 1) * maxsize - 1
         /\ \A h \in Slots : \A b \in 0 .. maxsize - 1 :
              Cell(h, b) = Cell(i, k) => h = i /\ b = k
<1>1. size \in Nat /\ maxsize \in Nat \ {0} /\ i \in 0 .. size - 1
  BY SharedMemoryAssumption DEF Slots
<1>2. \A a, b \in Nat : a < b => a * maxsize + maxsize <= b * maxsize
  BY <1>1
<1>3. i * maxsize \in Nat /\ i * maxsize + maxsize <= size * maxsize
  BY <1>1, <1>2
<1>4. (i + 1) * maxsize = i * maxsize + maxsize
  BY <1>1
<1>5. ASSUME NEW h \in Slots, NEW b \in 0 .. maxsize - 1, Cell(h, b) = Cell(i, k)
      PROVE  h = i /\ b = k
  <2>1. h \in Nat /\ h * maxsize \in Nat
    BY <1>1 DEF Slots
  <2>2. ~(h < i) /\ ~(i < h)
    BY <1>1, <1>2, <1>3, <1>5, <2>1 DEF Cell
  <2>3. h = i
    BY <1>1, <2>1, <2>2
  <2> QED
    BY <1>3, <1>5, <2>3 DEF Cell
<1> QED
  BY <1>1, <1>3, <1>4, <1>5 DEF Cell, totalSize

(* The part of a string that is stored.                                    *)
LEMMA FittingKeeps ==
  ASSUME NEW s \in Text
  PROVE  /\ Fitting(s) \in Text
         /\ Len(Fitting(s)) = IF Len(s) <= maxsize THEN Len(s) ELSE maxsize
         /\ \A i \in 1 .. Len(Fitting(s)) : Fitting(s)[i] = s[i]
<1> DEFINE n == IF Len(s) <= maxsize THEN Len(s) ELSE maxsize
<1>1. n \in 0 .. Len(s)
  BY LenProperties, SharedMemoryAssumption DEF Text
<1> QED
  BY <1>1, Beginning DEF Fitting, Text

LEMMA KnownFits ==
  ASSUME NEW i \in Slots, NEW s \in Known(i)
  PROVE  s \in Text /\ Len(s) \in 0 .. maxsize
<1>1. CASE s = << >>
  BY <1>1, EmptySeq, SharedMemoryAssumption DEF Text
<1>2. ASSUME NEW t \in Strings[i], s = Fitting(t)
      PROVE  s \in Text /\ Len(s) \in 0 .. maxsize
  <2>1. t \in Text
    BY SharedMemoryAssumption DEF Text
  <2>2. Len(t) \in Nat
    BY <2>1, LenProperties DEF Text
  <2> QED
    BY <1>2, <2>1, <2>2, FittingKeeps, SharedMemoryAssumption
<1> QED
  BY <1>1, <1>2 DEF Known

LEMMA TextIsChars ==
  ASSUME NEW s \in Text
  PROVE  s \in Seq(0 .. 127) /\ \A i \in 1 .. Len(s) : s[i] \in 1 .. 127
<1>1. ASSUME NEW i \in 1 .. Len(s)
      PROVE  s[i] \in 1 .. 127
  BY ElementOfSeq DEF Text
<1>2. \A i \in 1 .. Len(s) : s[i] \in 0 .. 127
  BY <1>1
<1> QED
  BY <1>1, <1>2, IsASeq, LenProperties DEF Text

LEMMA TextBytes ==
  ASSUME NEW s \in Text, NEW k \in Nat
  PROVE  /\ Len(s) \in Nat
         /\ Byte(s, k) \in 0 .. 127
         /\ Byte(s, k) = NUL <=> k >= Len(s)
<1>1. Len(s) \in Nat
  BY LenProperties DEF Text
<1>2. CASE k < Len(s)
  <2>1. s[k + 1] \in 1 .. 127
    <3>1. k + 1 \in 1 .. Len(s)
      BY <1>1, <1>2
    <3> QED
      BY <3>1, ElementOfSeq DEF Text
  <2>2. Byte(s, k) = s[k + 1]
    BY <1>2 DEF Byte
  <2>3. ~(k >= Len(s))
    BY <1>1, <1>2
  <2>4. Byte(s, k) \in 0 .. 127 /\ Byte(s, k) # NUL
    BY <2>1, <2>2 DEF NUL
  <2> QED
    BY <1>1, <2>3, <2>4
<1>3. CASE ~(k < Len(s))
  BY <1>1, <1>3 DEF Byte, NUL
<1> QED
  BY <1>1, <1>2, <1>3

-----------------------------------------------------------------------------
(* Types, the header and the bounds of a call. *)

USE DEF Users, calls, history, vars, Leave

LEMMA CallTypes ==
  ASSUME CallsInSlot, NEW p \in Users
  PROVE  /\ pos[p] \in Slots /\ j[p] \in 0 .. maxsize /\ j[p] \in Nat
         /\ str[p] \in Seq(0 .. 127) /\ Len(str[p]) \in Nat
         /\ pc[p] = "write" =>
              p \in Writers /\ str[p] \in Strings[pos[p]] /\ str[p] \in Text
         /\ pc[p] = "copy" => j[p] < maxsize
         /\ seg[0] = size /\ seg[1] = maxsize
         /\ seg \in [0 .. totalSize - 1 -> 0 .. 127]
<1>1. pos[p] \in Slots /\ j[p] \in 0 .. maxsize /\ str[p] \in Seq(0 .. 127)
  BY DEF CallsInSlot, TypeOK
<1>2. j[p] \in Nat
  BY <1>1, SharedMemoryAssumption
<1>3. Len(str[p]) \in Nat
  BY <1>1, LenProperties
<1>4. Strings[pos[p]] \subseteq Text
  BY <1>1, SharedMemoryAssumption DEF Text
<1>5. /\ pc[p] = "write" => p \in Writers /\ str[p] \in Strings[pos[p]]
      /\ pc[p] = "copy" => j[p] < maxsize
  BY DEF CallsInSlot
<1> QED
  BY <1>1, <1>2, <1>3, <1>4, <1>5 DEF CallsInSlot, TypeOK

(* What a call does to the segment: nothing, or it stores byte j of its    *)
(* string, or of the NUL behind it, in its own slot.                       *)
Stores(p, v) ==
  /\ pc[p] = "write" /\ j[p] < maxsize
  /\ seg' = [seg EXCEPT ![Cell(pos[p], j[p])] = v]

LEMMA WriteByteStores ==
  ASSUME CallsInSlot, NEW p \in Users, WriteByte(p)
  PROVE  /\ str[p] \in Text /\ j[p] < Len(str[p])
         /\ str[p][j[p] + 1] \in 1 .. 127
         /\ Stores(p, str[p][j[p] + 1])
<1>1. str[p] \in Text /\ j[p] \in Nat
  BY CallTypes DEF WriteByte
<1>2. Len(str[p]) \in Nat
  BY <1>1, LenProperties DEF Text
<1>3. j[p] < Len(str[p]) /\ j[p] < maxsize
  BY DEF WriteByte, MoreToWrite, CallsInSlot
<1>4. str[p][j[p] + 1] \in 1 .. 127
  <2>1. j[p] + 1 \in 1 .. Len(str[p])
    BY <1>1, <1>2, <1>3
  <2> QED
    BY <1>1, <2>1, ElementOfSeq DEF Text
<1> QED
  BY <1>1, <1>3, <1>4 DEF WriteByte, Stores, CallsInSlot, Index, Start, Cell

LEMMA EndWriteStores ==
  ASSUME CallsInSlot, NEW p \in Users, EndWrite(p)
  PROVE  /\ str[p] \in Text /\ Len(str[p]) \in Nat
         /\ j[p] < maxsize => Stores(p, NUL) /\ Len(str[p]) <= j[p]
         /\ j[p] = maxsize => seg' = seg
<1>1. str[p] \in Text /\ j[p] \in 0 .. maxsize
  BY CallTypes DEF EndWrite
<1>2. Len(str[p]) \in Nat
  BY <1>1, LenProperties DEF Text
<1> QED
  BY <1>1, <1>2, SharedMemoryAssumption
     DEF EndWrite, MoreToWrite, Stores, CallsInSlot, Index, Start, Cell

LEMMA StoredByteStays ==
  ASSUME CallsInSlot, NEW p \in Users, NEW v \in 0 .. 127, Stores(p, v)
  PROVE  /\ seg' \in [0 .. totalSize - 1 -> 0 .. 127]
         /\ seg'[0] = seg[0] /\ seg'[1] = seg[1]
         /\ seg'[Cell(pos[p], j[p])] = v
         /\ \A i \in Slots : \A k \in 0 .. maxsize - 1 :
              i # pos[p] \/ k # j[p] => seg'[Cell(i, k)] = seg[Cell(i, k)]
<1>0. maxsize \in Nat
  BY SharedMemoryAssumption
<1>1. pos[p] \in Slots /\ j[p] \in 0 .. maxsize - 1
  BY <1>0, CallTypes DEF Stores
<1>2. /\ Cell(pos[p], j[p]) \in 2 .. totalSize - 1
      /\ \A i \in Slots : \A k \in 0 .. maxsize - 1 :
           Cell(i, k) = Cell(pos[p], j[p]) => i = pos[p] /\ k = j[p]
  BY <1>1, CellsAreApart
<1>3. \A i \in Slots : \A k \in 0 .. maxsize - 1 : Cell(i, k) \in 2 .. totalSize - 1
  BY CellsAreApart
<1> HIDE DEF Cell
<1>4. totalSize \in Nat /\ seg \in [0 .. totalSize - 1 -> 0 .. 127]
  BY SharedMemoryAssumption DEF CallsInSlot, TypeOK, totalSize
<1> QED
  BY <1>1, <1>2, <1>3, <1>4 DEF Stores

LEMMA InitInSlot ==
  Init => CallsInSlot
<1> SUFFICES ASSUME Init PROVE CallsInSlot
  OBVIOUS
<1>1. size \in 1 .. 127 /\ maxsize \in 1 .. 127
  BY SharedMemoryAssumption
<1>2. totalSize \in Nat /\ totalSize >= 3
  <2>1. size * maxsize \in Nat /\ size * maxsize >= 1
    BY <1>1
  <2> QED
    BY <2>1 DEF totalSize
<1>3. seg \in [0 .. totalSize - 1 -> 0 .. 127] /\ seg[0] = size /\ seg[1] = maxsize
  BY <1>1, <1>2 DEF Init, NUL
<1>4. 0 \in Slots /\ 0 \in 0 .. maxsize
  BY <1>1 DEF Slots
<1>5. << >> \in Seq(0 .. 127)
  BY EmptySeq
<1> QED
  BY <1>3, <1>4, <1>5 DEF Init, CallsInSlot, TypeOK

(* The segment is blank when its handle becomes known.                     *)
LEMMA InitBlank ==
  ASSUME Init, NEW i \in Slots, NEW k \in 0 .. maxsize - 1
  PROVE  seg[Cell(i, k)] = NUL
<1>1. Cell(i, k) \in 2 .. totalSize - 1
  BY CellsAreApart
<1>2. Cell(i, k) \in 0 .. totalSize - 1 /\ Cell(i, k) # 0 /\ Cell(i, k) # 1
  BY <1>1
<1> HIDE DEF Cell
<1> QED
  BY <1>2 DEF Init

(* A call that ends, and one that only moves on, keeps its bounds.         *)
LEMMA LeavingKeepsBounds ==
  ASSUME CallsInSlot, NEW p \in Users, Leave(p), removed' \in BOOLEAN,
         seg' \in [0 .. totalSize - 1 -> 0 .. 127], seg'[0] = seg[0], seg'[1] = seg[1]
  PROVE  CallsInSlot'
<1>0. size \in 1 .. 127 /\ maxsize \in 1 .. 127
  BY SharedMemoryAssumption
<1>1. 0 \in Slots /\ 0 \in 0 .. maxsize /\ << >> \in Seq(0 .. 127)
  BY <1>0, EmptySeq DEF Slots
<1>2. TypeOK'
  BY <1>1 DEF CallsInSlot, TypeOK
<1>3. ASSUME NEW q \in Users
      PROVE  /\ pc'[q] = "copy" => j'[q] < maxsize
             /\ pc'[q] = "write" => q \in Writers /\ str'[q] \in Strings[pos'[q]]
  BY DEF CallsInSlot, TypeOK
<1> QED
  BY <1>2, <1>3 DEF CallsInSlot

LEMMA InSlotStep ==
  CallsInSlot /\ [Next]_vars => CallsInSlot'
<1> SUFFICES ASSUME CallsInSlot, [Next]_vars PROVE CallsInSlot'
  OBVIOUS
<1>0. /\ maxsize \in Nat \ {0} /\ 0 \in 0 .. maxsize /\ << >> \in Seq(0 .. 127)
      /\ \A i \in Slots : Strings[i] \subseteq Seq(0 .. 127)
  <2>1. ASSUME NEW i \in Slots, NEW s \in Strings[i]
        PROVE  s \in Seq(0 .. 127)
    BY TextIsChars, SharedMemoryAssumption DEF Text
  <2> QED
    BY <2>1, EmptySeq, SharedMemoryAssumption
<1>1. CASE UNCHANGED vars
  BY <1>1 DEF CallsInSlot, TypeOK
<1>2. CASE Free
  BY <1>2 DEF Free, CallsInSlot, TypeOK
<1>3. ASSUME NEW p \in Users, NEW i \in Slots, BeginRead(p, i)
      PROVE  CallsInSlot'
  BY <1>0, <1>3 DEF BeginRead, CallsInSlot, TypeOK
<1>4. ASSUME NEW p \in Users, NEW i \in Slots, NEW s \in Strings[i], BeginWrite(p, i, s)
      PROVE  CallsInSlot'
  BY <1>0, <1>4 DEF BeginWrite, CallsInSlot, TypeOK
<1>5. ASSUME NEW p \in Users, Crash(p)
      PROVE  CallsInSlot'
  BY <1>5 DEF Crash, CallsInSlot, TypeOK
<1>6. ASSUME NEW p \in Users, WriteByte(p)
      PROVE  CallsInSlot'
  <2>1. str[p][j[p] + 1] \in 0 .. 127 /\ Stores(p, str[p][j[p] + 1])
    BY <1>6, WriteByteStores
  <2>2. /\ seg' \in [0 .. totalSize - 1 -> 0 .. 127]
        /\ seg'[0] = seg[0] /\ seg'[1] = seg[1]
    BY <2>1, StoredByteStays
  <2>3. j[p] + 1 \in 0 .. maxsize
    BY <1>0, <2>1, CallTypes DEF Stores
  <2> QED
    BY <1>6, <2>1, <2>2, <2>3 DEF WriteByte, Stores, CallsInSlot, TypeOK
<1>7. ASSUME NEW p \in Users, EndWrite(p)
      PROVE  CallsInSlot'
  <2>1. /\ seg' \in [0 .. totalSize - 1 -> 0 .. 127]
        /\ seg'[0] = seg[0] /\ seg'[1] = seg[1]
    <3>1. CASE j[p] < maxsize
      <4>1. Stores(p, NUL) /\ NUL \in 0 .. 127
        BY <1>7, <3>1, EndWriteStores DEF NUL
      <4> QED
        BY <4>1, StoredByteStays
    <3>2. CASE j[p] = maxsize
      BY <1>7, <3>2, EndWriteStores DEF CallsInSlot, TypeOK
    <3> QED
      BY <1>0, <3>1, <3>2, CallTypes
  <2> QED
    BY <1>7, <2>1, LeavingKeepsBounds DEF EndWrite, CallsInSlot, TypeOK
<1>8. ASSUME NEW p \in Users, TestByte(p)
      PROVE  CallsInSlot'
  BY <1>8 DEF TestByte, MoreToRead, CallsInSlot, TypeOK
<1>9. ASSUME NEW p \in Users, CopyByte(p)
      PROVE  CallsInSlot'
  <2>1. seg[Index(p)] \in 0 .. 127
    <3>1. Index(p) = Cell(pos[p], j[p])
      BY CallTypes DEF Index, Start, Cell
    <3>2. j[p] \in 0 .. maxsize - 1
      BY <1>0, <1>9, CallTypes DEF CopyByte
    <3>3. Cell(pos[p], j[p]) \in 2 .. totalSize - 1
      BY <3>2, CallTypes, CellsAreApart
    <3>4. Index(p) \in 0 .. totalSize - 1
      BY <3>1, <3>3
    <3> QED
      BY <3>4 DEF CallsInSlot, TypeOK
  <2>2. Append(str[p], seg[Index(p)]) \in Seq(0 .. 127)
    BY <2>1, CallTypes, AppendProperties
  <2>3. j[p] + 1 \in 0 .. maxsize
    BY <1>0, <1>9, CallTypes DEF CopyByte
  <2> QED
    BY <1>9, <2>2, <2>3 DEF CopyByte, CallsInSlot, TypeOK
<1>10. ASSUME NEW p \in Users, EndRead(p)
      PROVE  CallsInSlot'
  <2>1. UpToNUL(str[p]) \in Seq(0 .. 127)
    BY CallTypes, UpToNULKeeps
  <2> QED
    BY <1>10, <2>1 DEF EndRead, CallsInSlot, TypeOK
<1>11. ASSUME NEW p \in Users, Return(p) \/ Kill(p)
      PROVE  CallsInSlot'
  BY <1>11, LeavingKeepsBounds DEF Return, Kill, CallsInSlot, TypeOK
<1> QED
  BY <1>1, <1>2, <1>3, <1>4, <1>5, <1>6, <1>7, <1>8, <1>9, <1>10, <1>11
     DEF Next, Call, Continue

LEMMA AlwaysInSlot ==
  Spec => []CallsInSlot
<1> QED
  BY InitInSlot, InSlotStep, PTL DEF Spec

(* Every byte of the segment stays a char, every call works on one slot    *)
(* and its index never passes the end of it, whoever is killed.            *)
THEOREM TypeCorrect ==
  Spec => []TypeOK
<1>1. CallsInSlot => TypeOK
  BY DEF CallsInSlot
<1> QED
  BY <1>1, AlwaysInSlot, PTL

(* A byte of the segment changes only under a write() to its own slot,     *)
(* however long the strings are.                                           *)
THEOREM SlotsAreSeparate ==
  Spec => WritesInsideSlot
<1> DEFINE Bounded ==
      \A i \in 0 .. totalSize - 1 : seg'[i] # seg[i] =>
        \E p \in Writers :
          /\ pc[p] = "write"
          /\ i - 2 \in pos[p] * maxsize .. (pos[p] + 1) * maxsize - 1
<1>1. ASSUME CallsInSlot, NEW p \in Users, NEW v, Stores(p, v)
      PROVE  Bounded
  <2>1. p \in Writers /\ pc[p] = "write" /\ pos[p] \in Slots
    BY <1>1, CallTypes DEF Stores
  <2>2. j[p] \in 0 .. maxsize - 1
    BY <1>1, CallTypes, SharedMemoryAssumption DEF Stores
  <2>3. Cell(pos[p], j[p]) - 2 \in pos[p] * maxsize .. (pos[p] + 1) * maxsize - 1
    BY <2>1, <2>2, CellsAreApart
  <2>4. \A i \in 0 .. totalSize - 1 : seg'[i] # seg[i] => i = Cell(pos[p], j[p])
    BY <1>1 DEF Stores, CallsInSlot, TypeOK
  <2> QED
    BY <2>1, <2>3, <2>4
<1>2. CallsInSlot /\ [Next]_vars => [Bounded]_seg
  <2> SUFFICES ASSUME CallsInSlot, [Next]_vars, seg' # seg PROVE Bounded
    OBVIOUS
  <2>1. PICK p \in Users : WriteByte(p) \/ EndWrite(p)
    BY DEF Next, Call, Continue, Free, BeginRead, BeginWrite, Crash, TestByte, CopyByte,
           EndRead, Return, Kill
  <2>2. CASE WriteByte(p)
    BY <1>1, <2>2, WriteByteStores
  <2>3. CASE EndWrite(p)
    <3>1. j[p] < maxsize
      BY <2>3, CallTypes, EndWriteStores, SharedMemoryAssumption
    <3> QED
      BY <1>1, <2>3, <3>1, EndWriteStores
  <2> QED
    BY <2>1, <2>2, <2>3
<1> QED
  BY <1>2, AlwaysInSlot, PTL DEF Spec, WritesInsideSlot

-----------------------------------------------------------------------------
(* The history of the writes. *)

LEMMA RecordFields ==
  ASSUME NEW w \in Record, NEW p \in Users
  PROVE  /\ w.str \in Text /\ w.open \in SUBSET Users /\ w.under \in SUBSET Users
         /\ Aside(w, p) \in Record /\ Aside(w, p).str = w.str /\ Aside(w, p).open = w.open
         /\ Aside(w, p).under = IF w.open = {} THEN w.under \cup {p} ELSE w.under
         /\ w.open # {} => Aside(w, p) = w
         /\ Closed(w, p) \in Record /\ Closed(w, p).str = w.str
         /\ Closed(w, p).open = w.open \ {p} /\ Closed(w, p).under = w.under
         /\ Abandoned(w, p) \in Record /\ Abandoned(w, p).str = w.str
         /\ Abandoned(w, p).open = w.open \ {p} /\ Abandoned(w, p).under = w.under \ {p}
<1> QED
  BY DEF Record, Aside, Closed, Abandoned

LEMMA FreshFields ==
  ASSUME NEW s \in Text, NEW q \in Users, NEW p \in Users
  PROVE  /\ Fresh(s, q) \in Record /\ Fresh(s, q).str = s
         /\ Fresh(s, q).open = {q} /\ Fresh(s, q).under = {}
         /\ p # q => /\ Closed(Fresh(s, q), p) = Fresh(s, q)
                     /\ Abandoned(Fresh(s, q), p) = Fresh(s, q)
<1>1. /\ Fresh(s, q) \in Record /\ Fresh(s, q).str = s
      /\ Fresh(s, q).open = {q} /\ Fresh(s, q).under = {}
  BY DEF Fresh, Record
<1>2. ASSUME p # q
      PROVE  Closed(Fresh(s, q), p) = Fresh(s, q) /\ Abandoned(Fresh(s, q), p) = Fresh(s, q)
  <2>1. {q} \ {p} = {q} /\ {} \ {p} = {}
    BY <1>2
  <2>2. \A v, w \in Record : v.str = w.str /\ v.open = w.open /\ v.under = w.under => v = w
    BY DEF Record
  <2> DEFINE F == Fresh(s, q)
  <2>3. F \in Record /\ F.open \ {p} = F.open /\ F.under \ {p} = F.under
    BY <1>1, <2>1
  <2> HIDE DEF F
  <2>4. Closed(F, p) = F
    <3>1. /\ Closed(F, p) \in Record /\ Closed(F, p).str = F.str
          /\ Closed(F, p).open = F.open /\ Closed(F, p).under = F.under
      BY <2>3, RecordFields
    <3> QED
      BY <2>2, <2>3, <3>1
  <2>5. Abandoned(F, p) = F
    <3>1. /\ Abandoned(F, p) \in Record /\ Abandoned(F, p).str = F.str
          /\ Abandoned(F, p).open = F.open /\ Abandoned(F, p).under = F.under
      BY <2>3, RecordFields
    <3> QED
      BY <2>2, <2>3, <3>1
  <2> QED
    BY <2>4, <2>5 DEF F
<1> QED
  BY <1>1, <1>2

LEMMA FittingIsKnown ==
  ASSUME NEW i \in Slots, NEW s \in Strings[i]
  PROVE  s \in Text /\ Fitting(s) \in Text /\ Fitting(s) \in Known(i)
<1>1. s \in Text
  BY SharedMemoryAssumption DEF Text
<1> QED
  BY <1>1, FittingKeeps DEF Known

(* The writes of slot i once a process has begun, ended or abandoned one.  *)
Opened(i, p, s) == {Aside(w, p) : w \in latest[i]} \cup {Fresh(s, p)}
Replaced(i, p) == {Closed(w, p) : w \in {v \in latest[i] : p \notin v.under}}
CutShort(i, p) == {Abandoned(w, p) : w \in latest[i]}

LEMMA LatestChanges ==
  ASSUME NEW p \in Users
  PROVE  /\ \A i, s : OpenWrite(p, i, s) => latest' = [latest EXCEPT ![i] = Opened(i, p, s)]
         /\ CloseWrite(p) => latest' = [latest EXCEPT ![pos[p]] = Replaced(pos[p], p)]
         /\ AbandonWrite(p) => latest' = [latest EXCEPT ![pos[p]] = CutShort(pos[p], p)]
<1> QED
  BY DEF OpenWrite, CloseWrite, AbandonWrite, Opened, Replaced, CutShort, Aside, Fresh,
         Closed, Abandoned

(* What holds of the writes of a slot, and the change of one slot.         *)
Sound(i, W) ==
  /\ W \subseteq Record
  /\ \A w \in W : w.str \in Known(i) /\ (w.open # {} => w.under = {})

LEMMA SoundChanges ==
  ASSUME HistoryKept, NEW i \in Slots, NEW p \in Users
  PROVE  /\ \A s \in Known(i) : Sound(i, Opened(i, p, s))
         /\ Sound(i, Replaced(i, p))
         /\ Sound(i, CutShort(i, p))
<1>1. Sound(i, latest[i])
  BY DEF HistoryKept, Sound
<1>2. ASSUME NEW s \in Known(i)
      PROVE  Sound(i, Opened(i, p, s))
  <2>1. s \in Text
    BY KnownFits
  <2>2. ASSUME NEW w \in latest[i]
        PROVE  /\ Aside(w, p) \in Record /\ Aside(w, p).str \in Known(i)
               /\ Aside(w, p).open # {} => Aside(w, p).under = {}
    <3>1. w \in Record /\ w.str \in Known(i) /\ (w.open # {} => w.under = {})
      BY <1>1 DEF Sound
    <3>2. /\ Aside(w, p) \in Record /\ Aside(w, p).str = w.str
          /\ Aside(w, p).open = w.open /\ (w.open # {} => Aside(w, p) = w)
      BY <3>1, RecordFields, Zenon
    <3> QED
      BY <3>1, <3>2, Zenon
  <2> QED
    BY <2>1, <2>2, FreshFields DEF Sound, Opened
<1>3. ASSUME NEW w \in latest[i]
      PROVE  /\ Closed(w, p) \in Record /\ Closed(w, p).str \in Known(i)
             /\ Closed(w, p).open # {} => Closed(w, p).under = {}
             /\ Abandoned(w, p) \in Record /\ Abandoned(w, p).str \in Known(i)
             /\ Abandoned(w, p).open # {} => Abandoned(w, p).under = {}
  <2>1. w \in Record /\ w.str \in Known(i) /\ (w.open # {} => w.under = {})
    BY <1>1 DEF Sound
  <2>2. w.open \ {p} # {} => w.open # {}
    OBVIOUS
  <2>3. w.open # {} => w.under \ {p} = {}
    BY <2>1
  <2> QED
    BY <2>1, <2>2, <2>3, RecordFields
<1> QED
  BY <1>2, <1>3 DEF Sound, Replaced, CutShort

LEMMA SoundLatest ==
  ASSUME HistoryKept, NEW i \in Slots, NEW W, Sound(i, W),
         latest' = [latest EXCEPT ![i] = W]
  PROVE  /\ latest' \in [Slots -> SUBSET Record]
         /\ \A h \in Slots : Sound(h, latest'[h])
         /\ latest'[i] = W /\ \A h \in Slots : h # i => latest'[h] = latest[h]
<1> QED
  BY DEF HistoryKept, Sound

(* The strings that the writes of a slot name.                             *)
Names(W) == {w.str : w \in W}

LEMMA NamesChange ==
  ASSUME HistoryKept, NEW i \in Slots, NEW p \in Users
  PROVE  /\ Names(latest[i]) \subseteq Known(i)
         /\ \A s \in Text : Names(Opened(i, p, s)) = Names(latest[i]) \cup {s}
         /\ Names(Replaced(i, p)) \subseteq Names(latest[i])
         /\ Names(CutShort(i, p)) \subseteq Names(latest[i])
<1>1. \A w \in latest[i] : w \in Record /\ w.str \in Known(i)
  BY DEF HistoryKept
<1>2. \A w \in latest[i] : /\ Aside(w, p).str = w.str
                           /\ Closed(w, p).str = w.str
                           /\ Abandoned(w, p).str = w.str
  BY <1>1, RecordFields
<1>3. \A s \in Text : Fresh(s, p).str = s
  BY FreshFields
<1> QED
  BY <1>1, <1>2, <1>3 DEF Names, Opened, Replaced, CutShort

LEMMA InitHistory ==
  Init => HistoryKept
<1> SUFFICES ASSUME Init PROVE HistoryKept
  OBVIOUS
<1>1. << >> \in Text /\ \A i : << >> \in Known(i)
  BY EmptySeq DEF Text, Known
<1> QED
  BY <1>1 DEF Init, HistoryKept, Record

(* The parts of HistoryKept that are about one process.                    *)
Named(p) == pc[p] = "write" => Fresh(Fitting(str[p]), p) \in latest[pos[p]]
Offered(p) ==
  pc[p] \in {"read", "copy"} =>
    Names(latest[pos[p]]) \subseteq candidates[p] /\ candidates[p] \subseteq Known(pos[p])

LEMMA HistoryParts ==
  HistoryKept <=> /\ latest \in [Slots -> SUBSET Record]
                  /\ candidates \in [Users -> SUBSET Text]
                  /\ \A i \in Slots : Sound(i, latest[i])
                  /\ \A p \in Users : Named(p) /\ Offered(p)
<1> QED
  BY DEF HistoryKept, Sound, Named, Offered, Names

LEMMA HistoryStep ==
  CallsInSlot /\ HistoryKept /\ [Next]_vars => HistoryKept'
<1> SUFFICES ASSUME CallsInSlot, HistoryKept, [Next]_vars PROVE HistoryKept'
  OBVIOUS
<1>0. /\ latest \in [Slots -> SUBSET Record] /\ candidates \in [Users -> SUBSET Text]
      /\ \A i \in Slots : Sound(i, latest[i])
      /\ \A q \in Users : Named(q) /\ Offered(q)
  BY HistoryParts
<1>t. /\ pc \in [Users -> {"idle", "write", "read", "copy", "returned", "crashed"}]
      /\ pos \in [Users -> Slots] /\ str \in [Users -> Seq(0 .. 127)]
  BY DEF CallsInSlot, TypeOK
<1>w. << >> \in Text
  BY EmptySeq DEF Text
<1>1. ASSUME latest' = latest, candidates' = candidates, pos' = pos, NEW p \in Users,
             \A q \in Users : q # p => pc'[q] = pc[q] /\ str'[q] = str[q],
             pc'[p] = "write" => pc[p] = "write" /\ str'[p] = str[p],
             pc'[p] \in {"read", "copy"} => pc[p] \in {"read", "copy"}
      PROVE  HistoryKept'
  <2>1. ASSUME NEW q \in Users
        PROVE  Named(q)' /\ Offered(q)'
    <3>1. /\ pc'[q] = "write" => pc[q] = "write" /\ str'[q] = str[q]
          /\ pc'[q] \in {"read", "copy"} => pc[q] \in {"read", "copy"}
      <4>1. CASE q = p
        BY <1>1, <4>1
      <4>2. CASE q # p
        BY <1>1, <4>2
      <4> QED
        BY <4>1, <4>2
    <3>2. latest' = latest /\ candidates' = candidates /\ pos' = pos
      BY <1>1
    <3> QED
      BY <1>0, <3>1, <3>2 DEF Named, Offered
  <2> QED
    BY <1>0, <1>1, <2>1 DEF HistoryKept, Sound, Named, Offered, Names
<1>2. CASE UNCHANGED vars \/ Free
  BY <1>2 DEF Free, HistoryKept
<1>3. ASSUME NEW p \in Users,
             \/ Crash(p) \/ WriteByte(p) \/ TestByte(p) \/ CopyByte(p) \/ EndRead(p)
      PROVE  HistoryKept'
  BY <1>1, <1>3, <1>t DEF Crash, WriteByte, TestByte, CopyByte, EndRead
<1>4. ASSUME NEW p \in Users, NEW i \in Slots, BeginRead(p, i)
      PROVE  HistoryKept'
  <2>1. candidates'[p] = Names(latest[i]) /\ latest' = latest
    BY <1>0, <1>4 DEF BeginRead, Names
  <2>2. Names(latest[i]) \subseteq Known(i) /\ Names(latest[i]) \subseteq Text
    BY NamesChange, KnownFits
  <2>3. Offered(p)' /\ Named(p)'
    BY <1>4, <1>t, <2>1, <2>2 DEF BeginRead, Offered, Named
  <2>4. ASSUME NEW q \in Users, q # p
        PROVE  Offered(q)' /\ Named(q)'
    BY <1>0, <1>4, <1>t, <2>4 DEF BeginRead, Offered, Named
  <2>5. candidates' \in [Users -> SUBSET Text]
    BY <1>0, <1>4, <2>1, <2>2 DEF BeginRead, Names
  <2> QED
    BY <1>0, <2>1, <2>3, <2>4, <2>5 DEF HistoryKept, Sound, Named, Offered, Names
<1>5. ASSUME NEW p \in Users, NEW i \in Slots, NEW s \in Strings[i], BeginWrite(p, i, s)
      PROVE  HistoryKept'
  <2> DEFINE W == Opened(i, p, Fitting(s))
  <2>1. Fitting(s) \in Text /\ Fitting(s) \in Known(i)
    BY FittingIsKnown
  <2>2. Sound(i, W) /\ Names(W) = Names(latest[i]) \cup {Fitting(s)}
    BY <2>1, SoundChanges, NamesChange
  <2>3. latest' = [latest EXCEPT ![i] = W]
    BY <1>5, LatestChanges DEF BeginWrite
  <2>4. Fresh(Fitting(s), p) \in W
    BY DEF Opened
  <2>5. ASSUME NEW q \in Users, NEW t \in Text, Fresh(t, q) \in latest[i]
        PROVE  Fresh(t, q) \in W
    <3>1. Fresh(t, q) \in Record /\ Fresh(t, q).open # {}
      BY <2>5, FreshFields
    <3>2. Aside(Fresh(t, q), p) = Fresh(t, q)
      BY <3>1, RecordFields
    <3> QED
      BY <2>5, <3>2 DEF Opened
  <2> HIDE DEF W
  <2>6. /\ latest' \in [Slots -> SUBSET Record] /\ \A h \in Slots : Sound(h, latest'[h])
        /\ latest'[i] = W /\ \A h \in Slots : h # i => latest'[h] = latest[h]
    BY <2>2, <2>3, SoundLatest
  <2>7. candidates' = [q \in Users |->
          IF pc[q] \in {"read", "copy"} /\ pos[q] = i THEN candidates[q] \cup {Fitting(s)}
          ELSE candidates[q]]
    BY <1>5 DEF BeginWrite, OpenWrite, InCall
  <2>8. Offered(p)' /\ Named(p)'
    BY <1>5, <1>t, <2>4, <2>6 DEF BeginWrite, Offered, Named
  <2>9. ASSUME NEW q \in Users, q # p
        PROVE  Offered(q)' /\ Named(q)'
    <3>1. pc'[q] = pc[q] /\ pos'[q] = pos[q] /\ str'[q] = str[q] /\ pos[q] \in Slots
      BY <1>5, <1>t, <2>9 DEF BeginWrite
    <3>2. Named(q)'
      <4> SUFFICES ASSUME pc[q] = "write" PROVE Fresh(Fitting(str[q]), q) \in latest'[pos[q]]
        BY <3>1 DEF Named
      <4>1. Fresh(Fitting(str[q]), q) \in latest[pos[q]] /\ Fitting(str[q]) \in Text
        BY <1>0, <3>1, CallTypes, FittingKeeps DEF Named
      <4> QED
        BY <2>5, <2>6, <3>1, <4>1
    <3>3. Offered(q)'
      BY <1>0, <2>1, <2>2, <2>6, <2>7, <3>1 DEF Offered
    <3> QED
      BY <3>2, <3>3
  <2>10. candidates' \in [Users -> SUBSET Text]
    BY <1>0, <2>1, <2>7
  <2> QED
    BY <2>6, <2>8, <2>9, <2>10 DEF HistoryKept, Sound, Named, Offered, Names
<1>6. ASSUME NEW p \in Users, NEW W, Leave(p), pc[p] \in {"write", "read", "copy", "returned"},
             latest' = [latest EXCEPT ![pos[p]] = W],
             candidates' = candidates \/ candidates' = [candidates EXCEPT ![p] = {<< >>}],
             Sound(pos[p], W), Names(W) \subseteq Names(latest[pos[p]]),
             \A q \in Users \ {p} : \A t \in Text :
               Fresh(t, q) \in latest[pos[p]] => Fresh(t, q) \in W
      PROVE  HistoryKept'
  <2>1. pos[p] \in Slots
    BY <1>t
  <2>2. /\ latest' \in [Slots -> SUBSET Record] /\ \A h \in Slots : Sound(h, latest'[h])
        /\ latest'[pos[p]] = W /\ \A h \in Slots : h # pos[p] => latest'[h] = latest[h]
    BY <1>6, <2>1, SoundLatest
  <2>3. Offered(p)' /\ Named(p)'
    BY <1>6, <1>t DEF Offered, Named
  <2>4. ASSUME NEW q \in Users, q # p
        PROVE  Offered(q)' /\ Named(q)'
    <3>1. /\ pc'[q] = pc[q] /\ pos'[q] = pos[q] /\ str'[q] = str[q] /\ pos[q] \in Slots
          /\ candidates'[q] = candidates[q]
      BY <1>0, <1>6, <1>t, <2>4
    <3>2. Named(q)'
      <4> SUFFICES ASSUME pc[q] = "write" PROVE Fresh(Fitting(str[q]), q) \in latest'[pos[q]]
        BY <3>1 DEF Named
      <4>1. Fresh(Fitting(str[q]), q) \in latest[pos[q]] /\ Fitting(str[q]) \in Text
        BY <1>0, <3>1, CallTypes, FittingKeeps DEF Named
      <4> QED
        BY <1>6, <2>2, <2>4, <3>1, <4>1
    <3>3. Offered(q)'
      <4>1. Names(latest'[pos[q]]) \subseteq Names(latest[pos[q]])
        BY <1>6, <2>2, <3>1
      <4> QED
        BY <1>0, <3>1, <4>1 DEF Offered
    <3> QED
      BY <3>2, <3>3
  <2>5. candidates' \in [Users -> SUBSET Text]
    BY <1>0, <1>6, <1>w
  <2> QED
    BY <2>2, <2>3, <2>4, <2>5 DEF HistoryKept, Sound, Named, Offered, Names
<1>7. ASSUME NEW p \in Users, EndWrite(p)
      PROVE  HistoryKept'
  <2> DEFINE W == Replaced(pos[p], p)
  <2>1. pos[p] \in Slots
    BY <1>t
  <2>2. Sound(pos[p], W) /\ Names(W) \subseteq Names(latest[pos[p]])
    BY <2>1, SoundChanges, NamesChange
  <2>3. latest' = [latest EXCEPT ![pos[p]] = W]
    BY <1>7, LatestChanges DEF EndWrite
  <2>4. ASSUME NEW q \in Users \ {p}, NEW t \in Text, Fresh(t, q) \in latest[pos[p]]
        PROVE  Fresh(t, q) \in W
    BY <2>4, FreshFields DEF Replaced
  <2> HIDE DEF W
  <2> QED
    BY <1>6, <1>7, <2>2, <2>3, <2>4 DEF EndWrite
<1>8. ASSUME NEW p \in Users, Kill(p), pc[p] = "write"
      PROVE  HistoryKept'
  <2> DEFINE W == CutShort(pos[p], p)
  <2>1. pos[p] \in Slots
    BY <1>t
  <2>2. Sound(pos[p], W) /\ Names(W) \subseteq Names(latest[pos[p]])
    BY <2>1, SoundChanges, NamesChange
  <2>3. latest' = [latest EXCEPT ![pos[p]] = W]
    BY <1>8, LatestChanges DEF Kill
  <2>4. ASSUME NEW q \in Users \ {p}, NEW t \in Text, Fresh(t, q) \in latest[pos[p]]
        PROVE  Fresh(t, q) \in W
    BY <2>4, FreshFields DEF CutShort
  <2> HIDE DEF W
  <2> QED
    BY <1>6, <1>8, <2>2, <2>3, <2>4 DEF Kill
<1>9. ASSUME NEW p \in Users, Return(p) \/ (Kill(p) /\ pc[p] # "write")
      PROVE  HistoryKept'
  <2> DEFINE W == latest[pos[p]]
  <2>1. pos[p] \in Slots /\ Sound(pos[p], W)
    BY <1>0, <1>t
  <2>2. latest' = [latest EXCEPT ![pos[p]] = W]
    BY <1>0, <1>9, <2>1 DEF Return, Kill
  <2> HIDE DEF W
  <2>3. W = latest[pos[p]]
    BY DEF W
  <2> QED
    BY <1>6, <1>9, <2>1, <2>2, <2>3 DEF Return, Kill, InCall
<1> QED
  BY <1>2, <1>3, <1>4, <1>5, <1>7, <1>8, <1>9 DEF Next, Call, Continue

LEMMA HistoryAlwaysKept ==
  Spec => []HistoryKept
<1> QED
  BY InitHistory, HistoryStep, AlwaysInSlot, PTL DEF Spec

-----------------------------------------------------------------------------
(* The bytes of the slots. *)

(* A writer that has stored byte k of slot i already.                      *)
Passed(q, i, k) == pc[q] = "write" /\ pos[q] = i /\ k < j[q]

LEMMA AccountsIs ==
  ASSUME NEW w, NEW i, NEW k
  PROVE  Accounts(w, i, k) <=>
           /\ \A q \in Users : Passed(q, i, k) => q \notin w.under
           /\ k <= Len(w.str) => seg[Cell(i, k)] = Byte(w.str, k)
<1> QED
  BY DEF Accounts, Passed

LEMMA AccountsNext ==
  ASSUME NEW w, NEW v, NEW i, NEW k, Accounts(w, i, k), v.str = w.str,
         seg'[Cell(i, k)] = seg[Cell(i, k)],
         \A q \in Users : Passed(q, i, k)' => Passed(q, i, k) /\ (q \in v.under => q \in w.under)
  PROVE  Accounts(v, i, k)'
<1> QED
  BY DEF Accounts, Passed

LEMMA InitBytes ==
  Init => BytesAccountedFor
<1> SUFFICES ASSUME Init, NEW i \in Slots, NEW k \in 0 .. maxsize - 1
             PROVE  \E w \in latest[i] : Accounts(w, i, k)
  BY DEF BytesAccountedFor
<1> DEFINE w == [str |-> << >>, open |-> {}, under |-> {}]
<1>1. w \in latest[i]
  BY DEF Init
<1>2. \A q \in Users : ~Passed(q, i, k)
  BY DEF Init, Passed
<1>3. seg[Cell(i, k)] = NUL
  BY InitBlank
<1>4. Byte(w.str, k) = NUL
  BY EmptySeq, SharedMemoryAssumption DEF Byte
<1> QED
  BY <1>1, <1>2, <1>3, <1>4 DEF Accounts, Passed

(* Steps that leave the segment, the history and the writers alone.        *)
LEMMA BytesUntouched ==
  ASSUME BytesAccountedFor, seg' = seg, latest' = latest,
         \A q \in Users : pc'[q] = "write" => pc[q] = "write" /\ pos'[q] = pos[q] /\ j'[q] = j[q]
  PROVE  BytesAccountedFor'
<1> SUFFICES ASSUME NEW i \in Slots, NEW k \in 0 .. maxsize - 1
             PROVE  \E w \in latest'[i] : Accounts(w, i, k)'
  BY DEF BytesAccountedFor
<1>1. PICK w \in latest[i] : Accounts(w, i, k)
  BY DEF BytesAccountedFor
<1>2. \A q \in Users : Passed(q, i, k)' => Passed(q, i, k)
  BY DEF Passed
<1>3. Accounts(w, i, k)'
  BY <1>1, <1>2, AccountsNext
<1> QED
  BY <1>1, <1>3

LEMMA BytesBeginWrite ==
  ASSUME CallsInSlot, HistoryKept, BytesAccountedFor,
         NEW p \in Users, NEW h \in Slots, NEW s \in Strings[h], BeginWrite(p, h, s)
  PROVE  BytesAccountedFor'
<1> SUFFICES ASSUME NEW i \in Slots, NEW k \in 0 .. maxsize - 1
             PROVE  \E w \in latest'[i] : Accounts(w, i, k)'
  BY DEF BytesAccountedFor
<1>1. PICK w \in latest[i] : Accounts(w, i, k)
  BY DEF BytesAccountedFor
<1>2. w \in Record /\ latest \in [Slots -> SUBSET Record]
  BY DEF HistoryKept
<1>3. latest' = [latest EXCEPT ![h] = Opened(h, p, Fitting(s))]
  BY LatestChanges DEF BeginWrite
<1>4. seg' = seg /\ k \in Nat
  BY SharedMemoryAssumption DEF BeginWrite
<1>5. /\ pc \in [Users -> {"idle", "write", "read", "copy", "returned", "crashed"}]
      /\ pos \in [Users -> Slots] /\ j \in [Users -> 0 .. maxsize]
  BY DEF CallsInSlot, TypeOK
<1>6. \A q \in Users : Passed(q, i, k)' => q # p /\ Passed(q, i, k)
  BY <1>4, <1>5 DEF BeginWrite, Passed
<1>7. CASE i = h
  <2>1. Aside(w, p) \in latest'[i]
    BY <1>1, <1>2, <1>3, <1>7 DEF Opened
  <2>2. /\ Aside(w, p).str = w.str
        /\ Aside(w, p).under = IF w.open = {} THEN w.under \cup {p} ELSE w.under
    BY <1>2, RecordFields
  <2>3. Accounts(Aside(w, p), i, k)'
    BY <1>1, <1>4, <1>6, <2>2, AccountsNext
  <2> QED
    BY <2>1, <2>3
<1>8. CASE i # h
  <2>1. w \in latest'[i]
    BY <1>1, <1>2, <1>3, <1>8
  <2>2. Accounts(w, i, k)'
    BY <1>1, <1>4, <1>6, AccountsNext
  <2> QED
    BY <2>1, <2>2
<1> QED
  BY <1>7, <1>8

LEMMA BytesWriteByte ==
  ASSUME CallsInSlot, HistoryKept, BytesAccountedFor, NEW p \in Users, WriteByte(p)
  PROVE  BytesAccountedFor'
<1> SUFFICES ASSUME NEW i \in Slots, NEW k \in 0 .. maxsize - 1
             PROVE  \E w \in latest'[i] : Accounts(w, i, k)'
  BY DEF BytesAccountedFor
<1>1. PICK w \in latest[i] : Accounts(w, i, k)
  BY DEF BytesAccountedFor
<1>2. /\ pc[p] = "write" /\ pc' = pc /\ pos' = pos /\ latest' = latest
      /\ j' = [j EXCEPT ![p] = @ + 1] /\ j \in [Users -> 0 .. maxsize]
  BY DEF WriteByte, CallsInSlot, TypeOK
<1>3. k \in Nat /\ maxsize \in Nat /\ \A q \in Users : j[q] \in Nat
  BY CallTypes, SharedMemoryAssumption
<1>4. LET v == str[p][j[p] + 1]
      IN  /\ str[p] \in Text /\ j[p] < Len(str[p]) /\ v \in 0 .. 127
          /\ Stores(p, v)
  BY WriteByteStores
<1>5. /\ seg'[Cell(pos[p], j[p])] = str[p][j[p] + 1]
      /\ i # pos[p] \/ k # j[p] => seg'[Cell(i, k)] = seg[Cell(i, k)]
  BY <1>4, StoredByteStays
<1>6. CASE i = pos[p] /\ k = j[p]
  <2>0. PICK F : F = Fitting(str[p])
    OBVIOUS
  <2>1. Fresh(F, p) \in latest'[i] /\ F \in Text
    BY <1>2, <1>4, <1>6, <2>0, FittingKeeps DEF HistoryKept
  <2>2. Fresh(F, p).str = F /\ Fresh(F, p).under = {}
    BY <2>1, FreshFields
  <2>3. seg'[Cell(i, k)] = Byte(F, k)
    <3>1. Len(F) \in Nat /\ Len(str[p]) \in Nat
      BY <1>4, <2>1, TextBytes
    <3>2. k < Len(F)
      BY <1>3, <1>4, <1>6, <2>0, <3>1, FittingKeeps DEF Stores
    <3>3. k + 1 \in 1 .. Len(F)
      BY <1>3, <3>1, <3>2
    <3>4. F[k + 1] = str[p][k + 1]
      BY <1>4, <2>0, <3>3, FittingKeeps
    <3> QED
      BY <1>5, <1>6, <3>2, <3>4 DEF Byte
  <2>4. Accounts(Fresh(F, p), i, k)'
    BY <2>2, <2>3 DEF Accounts
  <2> QED
    BY <2>1, <2>4
<1>7. CASE ~(i = pos[p] /\ k = j[p])
  <2>1. \A q \in Users : Passed(q, i, k)' => Passed(q, i, k)
    BY <1>2, <1>3, <1>7 DEF Passed
  <2>2. Accounts(w, i, k)'
    BY <1>1, <1>5, <1>7, <2>1, AccountsNext
  <2> QED
    BY <1>1, <1>2, <2>2
<1> QED
  BY <1>6, <1>7

LEMMA BytesEndWrite ==
  ASSUME CallsInSlot, HistoryKept, BytesAccountedFor, NEW p \in Users, EndWrite(p)
  PROVE  BytesAccountedFor'
<1> SUFFICES ASSUME NEW i \in Slots, NEW k \in 0 .. maxsize - 1
             PROVE  \E w \in latest'[i] : Accounts(w, i, k)'
  BY DEF BytesAccountedFor
<1>1. PICK w \in latest[i] : Accounts(w, i, k)
  BY DEF BytesAccountedFor
<1>2. /\ pc[p] = "write" /\ pos[p] \in Slots /\ j[p] \in 0 .. maxsize
      /\ k \in Nat /\ maxsize \in Nat /\ w \in Record
  BY CallTypes, SharedMemoryAssumption DEF EndWrite, HistoryKept
<1>3. /\ latest' = [latest EXCEPT ![pos[p]] = Replaced(pos[p], p)]
      /\ latest \in [Slots -> SUBSET Record]
  BY LatestChanges DEF EndWrite, HistoryKept
<1>4. \A q \in Users : Passed(q, i, k)' => q # p /\ Passed(q, i, k)
  BY DEF EndWrite, CallsInSlot, TypeOK, Passed
<1>5. ASSUME i # pos[p] \/ k # j[p]
      PROVE  seg'[Cell(i, k)] = seg[Cell(i, k)]
  <2>1. CASE j[p] < maxsize
    <3>1. Stores(p, NUL) /\ NUL \in 0 .. 127
      BY <2>1, EndWriteStores DEF NUL
    <3> QED
      BY <1>5, <3>1, StoredByteStays
  <2>2. CASE j[p] = maxsize
    BY <2>2, EndWriteStores
  <2> QED
    BY <1>2, <2>1, <2>2
<1>6. CASE i # pos[p]
  <2>1. Accounts(w, i, k)'
    BY <1>1, <1>4, <1>5, <1>6, AccountsNext
  <2> QED
    BY <1>1, <1>3, <1>6, <2>1
<1>7. CASE i = pos[p] /\ k < j[p]
  <2>1. p \notin w.under
    BY <1>1, <1>2, <1>7 DEF Accounts
  <2>2. Closed(w, p) \in latest'[i]
    BY <1>1, <1>2, <1>3, <1>7, <2>1 DEF Replaced
  <2>3. Closed(w, p).str = w.str /\ Closed(w, p).under = w.under
    BY <1>2, RecordFields
  <2>4. k # j[p]
    BY <1>2, <1>7
  <2>5. Accounts(Closed(w, p), i, k)'
    BY <1>1, <1>4, <1>5, <2>3, <2>4, AccountsNext
  <2> QED
    BY <2>2, <2>5
<1>8. CASE i = pos[p] /\ ~(k < j[p])
  <2>0. PICK F : F = Fitting(str[p])
    OBVIOUS
  <2>1. j[p] < maxsize /\ j[p] <= k
    BY <1>2, <1>8
  <2>2. Stores(p, NUL) /\ NUL \in 0 .. 127 /\ str[p] \in Text /\ Len(str[p]) <= j[p]
    BY <2>1, EndWriteStores DEF NUL
  <2>3. F \in Text /\ Len(F) = Len(str[p])
    <3>1. Len(str[p]) \in Nat
      BY EndWriteStores
    <3> QED
      BY <1>2, <2>0, <2>1, <2>2, <3>1, FittingKeeps
  <2>4. /\ Fresh(F, p) \in Record /\ Fresh(F, p).str = F /\ Fresh(F, p).under = {}
        /\ Fresh(F, p) \in latest[i]
    BY <1>2, <1>8, <2>0, <2>3, FreshFields DEF HistoryKept
  <2>5. PICK v : v = Closed(Fresh(F, p), p)
    OBVIOUS
  <2>6. v.str = F /\ v.under = {} /\ v \in latest'[i]
    BY <1>2, <1>3, <1>8, <2>4, <2>5, RecordFields DEF Replaced
  <2>7. k <= Len(F) => seg'[Cell(i, k)] = Byte(F, k)
    <3> SUFFICES ASSUME k <= Len(F) PROVE seg'[Cell(i, k)] = Byte(F, k)
      OBVIOUS
    <3>1. Len(F) \in Nat
      BY <2>3, TextBytes
    <3>2. k = j[p] /\ k >= Len(F)
      BY <1>2, <2>1, <2>2, <2>3, <3>1
    <3>3. seg'[Cell(i, k)] = NUL
      BY <1>8, <2>2, <3>2, StoredByteStays
    <3> QED
      BY <1>2, <2>3, <3>2, <3>3, TextBytes
  <2>8. Accounts(v, i, k)'
    BY <2>6, <2>7 DEF Accounts
  <2> QED
    BY <2>6, <2>8
<1> QED
  BY <1>6, <1>7, <1>8

LEMMA BytesKill ==
  ASSUME CallsInSlot, HistoryKept, BytesAccountedFor, NEW p \in Users, Kill(p), pc[p] = "write"
  PROVE  BytesAccountedFor'
<1> SUFFICES ASSUME NEW i \in Slots, NEW k \in 0 .. maxsize - 1
             PROVE  \E w \in latest'[i] : Accounts(w, i, k)'
  BY DEF BytesAccountedFor
<1>1. PICK w \in latest[i] : Accounts(w, i, k)
  BY DEF BytesAccountedFor
<1>2. pos[p] \in Slots /\ w \in Record /\ latest \in [Slots -> SUBSET Record] /\ seg' = seg
  BY CallTypes DEF Kill, HistoryKept
<1>3. latest' = [latest EXCEPT ![pos[p]] = CutShort(pos[p], p)]
  BY LatestChanges DEF Kill
<1>4. \A q \in Users : Passed(q, i, k)' => q # p /\ Passed(q, i, k)
  BY DEF Kill, CallsInSlot, TypeOK, Passed
<1>5. CASE i = pos[p]
  <2>1. Abandoned(w, p) \in latest'[i]
    BY <1>1, <1>2, <1>3, <1>5 DEF CutShort
  <2>2. Abandoned(w, p).str = w.str /\ Abandoned(w, p).under = w.under \ {p}
    BY <1>2, RecordFields
  <2>3. Accounts(Abandoned(w, p), i, k)'
    BY <1>1, <1>2, <1>4, <2>2, AccountsNext
  <2> QED
    BY <2>1, <2>3
<1>6. CASE i # pos[p]
  <2>1. Accounts(w, i, k)'
    BY <1>1, <1>2, <1>4, AccountsNext
  <2> QED
    BY <1>1, <1>3, <1>6, <2>1
<1> QED
  BY <1>5, <1>6

LEMMA BytesStep ==
  CallsInSlot /\ HistoryKept /\ BytesAccountedFor /\ [Next]_vars => BytesAccountedFor'
<1> SUFFICES ASSUME CallsInSlot, HistoryKept, BytesAccountedFor, [Next]_vars
             PROVE  BytesAccountedFor'
  OBVIOUS
<1>1. CASE UNCHANGED vars \/ Free
  BY <1>1, BytesUntouched DEF Free
<1>2. ASSUME NEW p \in Users, NEW i \in Slots, BeginRead(p, i)
      PROVE  BytesAccountedFor'
  BY <1>2, BytesUntouched DEF BeginRead, CallsInSlot, TypeOK
<1>3. ASSUME NEW p \in Users, Crash(p) \/ TestByte(p) \/ CopyByte(p) \/ EndRead(p) \/ Return(p)
      PROVE  BytesAccountedFor'
  BY <1>3, BytesUntouched DEF Crash, TestByte, CopyByte, EndRead, Return, CallsInSlot, TypeOK
<1>4. ASSUME NEW p \in Users, Kill(p), pc[p] # "write"
      PROVE  BytesAccountedFor'
  BY <1>4, BytesUntouched DEF Kill, CallsInSlot, TypeOK
<1> QED
  BY <1>1, <1>2, <1>3, <1>4, BytesBeginWrite, BytesWriteByte, BytesEndWrite, BytesKill
     DEF Next, Call, Continue

LEMMA BytesAlwaysAccountedFor ==
  Spec => []BytesAccountedFor
<1> QED
  BY InitBytes, BytesStep, AlwaysInSlot, HistoryAlwaysKept, PTL DEF Spec

-----------------------------------------------------------------------------
(* Reads. *)

(* A slot holds a string at every time, and a candidate of every read().   *)
LEMMA SomethingIsStored ==
  ASSUME HistoryKept, BytesAccountedFor, NEW p \in Users, pc[p] \in {"read", "copy"},
         NEW i \in Slots, i = pos[p], NEW k \in 0 .. maxsize - 1
  PROVE  \E s \in candidates[p] : k <= Len(s) => seg[Cell(i, k)] = Byte(s, k)
<1>1. PICK w \in latest[i] : Accounts(w, i, k)
  BY DEF BytesAccountedFor
<1>2. w.str \in candidates[p]
  BY <1>1 DEF HistoryKept
<1> QED
  BY <1>1, <1>2 DEF Accounts

(* What a read() that met one string only finds under its index.           *)
LEMMA OneStringUnderIndex ==
  ASSUME CallsInSlot, HistoryKept, BytesAccountedFor, OneStringSoFar,
         NEW p \in Users, pc[p] \in {"read", "copy"}, NEW s, candidates[p] = {s}
  PROVE  /\ s \in Text /\ Len(s) \in 0 .. maxsize
         /\ Len(str[p]) = j[p] /\ j[p] <= Len(s)
         /\ \A i \in 1 .. j[p] : str[p][i] = s[i]
         /\ pc[p] = "copy" => j[p] < Len(s)
         /\ j[p] < maxsize => seg[Index(p)] = Byte(s, j[p])
<1>1. s \in Known(pos[p]) /\ pos[p] \in Slots
  BY CallTypes DEF HistoryKept
<1>2. s \in Text /\ Len(s) \in 0 .. maxsize
  BY <1>1, KnownFits
<1>3. /\ Len(str[p]) = j[p] /\ j[p] <= Len(s)
      /\ \A i \in 1 .. j[p] : str[p][i] = s[i]
      /\ pc[p] = "copy" => j[p] < Len(s)
  BY DEF OneStringSoFar
<1>4. ASSUME j[p] < maxsize
      PROVE  seg[Index(p)] = Byte(s, j[p])
  <2>1. j[p] \in 0 .. maxsize - 1
    BY <1>4, CallTypes, SharedMemoryAssumption
  <2>2. seg[Cell(pos[p], j[p])] = Byte(s, j[p])
    BY <1>1, <1>3, <2>1, SomethingIsStored
  <2> QED
    BY <2>2, CallTypes DEF Index, Start, Cell
<1> QED
  BY <1>2, <1>3, <1>4

(* The part of OneStringSoFar about one process, and the steps of another  *)
(* one, which only add candidates to a read() in progress.                 *)
OneString(p) ==
  \A s \in candidates[p] : candidates[p] = {s} =>
    /\ pc[p] \in {"read", "copy"} =>
         /\ Len(str[p]) = j[p]
         /\ j[p] <= Len(s)
         /\ \A i \in 1 .. j[p] : str[p][i] = s[i]
    /\ pc[p] = "copy" => j[p] < Len(s)
    /\ pc[p] = "returned" => str[p] = s

LEMMA OneStringOfAnother ==
  ASSUME CallsInSlot, HistoryKept, BytesAccountedFor, NEW p \in Users, OneString(p),
         pc'[p] = pc[p], str'[p] = str[p], j'[p] = j[p],
         candidates[p] \subseteq candidates'[p],
         pc[p] \notin {"read", "copy"} => candidates'[p] = candidates[p]
  PROVE  OneString(p)'
<1>1. ASSUME NEW s, candidates'[p] = {s}
      PROVE  candidates[p] = {s}
  <2>1. CASE pc[p] \in {"read", "copy"}
    <3>1. 0 \in 0 .. maxsize - 1 /\ pos[p] \in Slots
      BY CallTypes, SharedMemoryAssumption
    <3>2. candidates[p] # {}
      BY <2>1, <3>1, SomethingIsStored
    <3> QED
      BY <1>1, <3>2
  <2> QED
    BY <1>1, <2>1
<1> QED
  BY <1>1 DEF OneString

LEMMA OneStringBeginRead ==
  ASSUME CallsInSlot, HistoryKept, HistoryKept', NEW p \in Users, NEW i \in Slots, BeginRead(p, i)
  PROVE  OneString(p)'
<1>1. pc'[p] = "read" /\ str'[p] = << >> /\ j'[p] = 0
  BY DEF BeginRead, CallsInSlot, TypeOK
<1>2. ASSUME NEW s \in candidates'[p]
      PROVE  Len(s) \in Nat
  <2>1. s \in Text
    BY DEF HistoryKept
  <2> QED
    BY <2>1, TextBytes
<1> QED
  BY <1>1, <1>2, EmptySeq DEF OneString

LEMMA OneStringTestByte ==
  ASSUME CallsInSlot, HistoryKept, BytesAccountedFor, OneStringSoFar,
         NEW p \in Users, TestByte(p)
  PROVE  OneString(p)'
<1>1. /\ pc[p] = "read" /\ pc'[p] = "copy" /\ str' = str /\ j' = j /\ candidates' = candidates
      /\ j[p] < maxsize /\ seg[Index(p)] # NUL /\ j[p] \in Nat
  BY CallTypes DEF TestByte, MoreToRead, CallsInSlot, TypeOK
<1>2. ASSUME NEW s, candidates[p] = {s}
      PROVE  /\ Len(str[p]) = j[p] /\ j[p] < Len(s) /\ j[p] <= Len(s)
             /\ \A i \in 1 .. j[p] : str[p][i] = s[i]
  <2>1. /\ s \in Text /\ Len(s) \in 0 .. maxsize
        /\ Len(str[p]) = j[p] /\ j[p] <= Len(s)
        /\ \A i \in 1 .. j[p] : str[p][i] = s[i]
        /\ seg[Index(p)] = Byte(s, j[p])
    BY <1>1, <1>2, OneStringUnderIndex
  <2>2. ~(j[p] >= Len(s))
    BY <1>1, <2>1, TextBytes
  <2> QED
    BY <1>1, <2>1, <2>2
<1> QED
  BY <1>1, <1>2 DEF OneString

LEMMA OneStringCopyByte ==
  ASSUME CallsInSlot, HistoryKept, BytesAccountedFor, OneStringSoFar,
         NEW p \in Users, CopyByte(p)
  PROVE  OneString(p)'
<1>1. /\ pc[p] = "copy" /\ pc'[p] = "read" /\ candidates' = candidates
      /\ str'[p] = Append(str[p], seg[Index(p)]) /\ j'[p] = j[p] + 1
      /\ j[p] \in Nat /\ str[p] \in Seq(0 .. 127) /\ j[p] < maxsize
  BY CallTypes DEF CopyByte, CallsInSlot, TypeOK
<1>2. ASSUME NEW s, candidates[p] = {s}
      PROVE  /\ Len(str'[p]) = j'[p] /\ j'[p] <= Len(s)
             /\ \A i \in 1 .. j'[p] : str'[p][i] = s[i]
  <2>1. /\ s \in Text /\ Len(s) \in 0 .. maxsize
        /\ Len(str[p]) = j[p] /\ j[p] < Len(s)
        /\ \A i \in 1 .. j[p] : str[p][i] = s[i]
        /\ seg[Index(p)] = Byte(s, j[p])
    BY <1>1, <1>2, OneStringUnderIndex
  <2>2. seg[Index(p)] = s[j[p] + 1]
    BY <2>1 DEF Byte
  <2>3. /\ Len(str'[p]) = j[p] + 1
        /\ \A i \in 1 .. j[p] : str'[p][i] = str[p][i]
        /\ str'[p][j[p] + 1] = s[j[p] + 1]
    BY <1>1, <2>1, <2>2, AppendProperties
  <2>4. j[p] + 1 <= Len(s) /\ \A i \in 1 .. j[p] + 1 : i \in 1 .. j[p] \/ i = j[p] + 1
    BY <1>1, <2>1
  <2> QED
    BY <1>1, <2>1, <2>3, <2>4
<1> QED
  BY <1>1, <1>2 DEF OneString

LEMMA OneStringEndRead ==
  ASSUME CallsInSlot, HistoryKept, BytesAccountedFor, OneStringSoFar,
         NEW p \in Users, EndRead(p)
  PROVE  OneString(p)'
<1>1. /\ pc[p] = "read" /\ pc'[p] = "returned" /\ candidates' = candidates
      /\ str'[p] = UpToNUL(str[p]) /\ j[p] \in 0 .. maxsize /\ str[p] \in Seq(0 .. 127)
      /\ j[p] = maxsize \/ seg[Index(p)] = NUL
  <2>1. ~(j[p] < maxsize) \/ seg[Index(p)] = NUL
    BY CallTypes DEF EndRead, MoreToRead
  <2>2. j[p] \in 0 .. maxsize
    BY CallTypes
  <2>3. maxsize \in Nat
    BY SlotLength
  <2>4. j[p] = maxsize \/ seg[Index(p)] = NUL
    BY <2>1, <2>2, <2>3
  <2> QED
    BY <2>2, <2>4, CallTypes DEF EndRead, CallsInSlot, TypeOK
<1>2. ASSUME NEW s, candidates[p] = {s}
      PROVE  str'[p] = s
  <2>1. /\ s \in Text /\ Len(s) \in 0 .. maxsize
        /\ Len(str[p]) = j[p] /\ j[p] <= Len(s)
        /\ \A i \in 1 .. j[p] : str[p][i] = s[i]
        /\ j[p] < maxsize => seg[Index(p)] = Byte(s, j[p])
    BY <1>1, <1>2, OneStringUnderIndex
  <2>2. maxsize \in Nat
    BY SharedMemoryAssumption
  <2>3. j[p] = Len(s)
    <3>1. CASE j[p] = maxsize
      BY <2>1, <2>2, <3>1
    <3>2. CASE j[p] < maxsize
      <4>1. j[p] \in Nat /\ Byte(s, j[p]) = NUL
        BY <1>1, <2>1, <2>2, <3>2
      <4>2. j[p] >= Len(s)
        BY <2>1, <4>1, TextBytes
      <4> QED
        BY <2>1, <4>1, <4>2
    <3> QED
      BY <1>1, <2>2, <3>1, <3>2
  <2>4. str[p] = s
    <3>1. s \in Seq(0 .. 127)
      BY <2>1, TextIsChars
    <3>2. Len(str[p]) = Len(s) /\ \A i \in 1 .. Len(str[p]) : str[p][i] = s[i]
      BY <2>1, <2>3
    <3> QED
      BY <1>1, <3>1, <3>2, SeqEqual
  <2>5. ASSUME NEW i \in 1 .. Len(s)
        PROVE  s[i] # NUL
    <3>1. s[i] \in 1 .. 127
      BY <2>1, TextIsChars
    <3>2. \A c \in 1 .. 127 : c # NUL
      BY DEF NUL
    <3> QED
      BY <3>1, <3>2, Zenon
  <2> QED
    BY <1>1, <2>1, <2>4, <2>5, UpToNULKeeps DEF Text
<1> QED
  BY <1>1, <1>2 DEF OneString

LEMMA InitOneString ==
  Init => OneStringSoFar
<1> QED
  BY DEF Init, OneStringSoFar

LEMMA OneStringStep ==
  CallsInSlot /\ HistoryKept /\ HistoryKept' /\ BytesAccountedFor /\ OneStringSoFar /\ [Next]_vars
    => OneStringSoFar'
<1> SUFFICES ASSUME CallsInSlot, HistoryKept, HistoryKept', BytesAccountedFor, OneStringSoFar,
                    [Next]_vars, NEW p \in Users
             PROVE  OneString(p)'
  BY DEF OneStringSoFar, OneString
<1>0. OneString(p)
  BY DEF OneStringSoFar, OneString
<1>t. /\ pc \in [Users -> {"idle", "write", "read", "copy", "returned", "crashed"}]
      /\ str \in [Users -> Seq(0 .. 127)] /\ j \in [Users -> 0 .. maxsize]
      /\ candidates \in [Users -> SUBSET Text]
  BY DEF CallsInSlot, TypeOK, HistoryKept
<1>1. ASSUME pc'[p] \notin {"read", "copy", "returned"}
      PROVE  OneString(p)'
  BY <1>1 DEF OneString
<1>2. CASE UNCHANGED vars \/ Free
  BY <1>0, <1>2, OneStringOfAnother DEF Free
<1>3. ASSUME NEW q \in Users, Crash(q) \/ EndWrite(q) \/ Return(q) \/ Kill(q)
      PROVE  OneString(p)'
  <2>1. CASE q = p
    BY <1>1, <1>3, <1>t, <2>1 DEF Crash, EndWrite, Return, Kill
  <2>2. CASE q # p
    <3>1. /\ pc'[p] = pc[p] /\ str'[p] = str[p] /\ j'[p] = j[p]
          /\ candidates'[p] = candidates[p]
      BY <1>3, <1>t, <2>2 DEF Crash, EndWrite, Return, Kill
    <3> QED
      BY <1>0, <3>1, OneStringOfAnother
  <2> QED
    BY <2>1, <2>2
<1>4. ASSUME NEW q \in Users, NEW i \in Slots, NEW s \in Strings[i], BeginWrite(q, i, s)
      PROVE  OneString(p)'
  <2>1. CASE q = p
    BY <1>1, <1>4, <1>t, <2>1 DEF BeginWrite
  <2>2. CASE q # p
    <3>1. /\ pc'[p] = pc[p] /\ str'[p] = str[p] /\ j'[p] = j[p]
          /\ candidates[p] \subseteq candidates'[p]
          /\ pc[p] \notin {"read", "copy"} => candidates'[p] = candidates[p]
      BY <1>4, <1>t, <2>2 DEF BeginWrite, OpenWrite, InCall
    <3> QED
      BY <1>0, <3>1, OneStringOfAnother
  <2> QED
    BY <2>1, <2>2
<1>5. ASSUME NEW q \in Users, WriteByte(q)
      PROVE  OneString(p)'
  <2>1. CASE q = p
    BY <1>1, <1>5, <1>t, <2>1 DEF WriteByte
  <2>2. CASE q # p
    <3>1. /\ pc'[p] = pc[p] /\ str'[p] = str[p] /\ j'[p] = j[p]
          /\ candidates'[p] = candidates[p]
      BY <1>5, <1>t, <2>2 DEF WriteByte
    <3> QED
      BY <1>0, <3>1, OneStringOfAnother
  <2> QED
    BY <2>1, <2>2
<1>6. ASSUME NEW q \in Users, NEW i \in Slots, BeginRead(q, i)
      PROVE  OneString(p)'
  <2>1. CASE q = p
    BY <1>6, <2>1, OneStringBeginRead
  <2>2. CASE q # p
    <3>1. /\ pc'[p] = pc[p] /\ str'[p] = str[p] /\ j'[p] = j[p]
          /\ candidates'[p] = candidates[p]
      BY <1>6, <1>t, <2>2 DEF BeginRead
    <3> QED
      BY <1>0, <3>1, OneStringOfAnother
  <2> QED
    BY <2>1, <2>2
<1>7. ASSUME NEW q \in Users, TestByte(q) \/ CopyByte(q) \/ EndRead(q)
      PROVE  OneString(p)'
  <2>1. CASE q = p
    BY <1>7, <2>1, OneStringTestByte, OneStringCopyByte, OneStringEndRead
  <2>2. CASE q # p
    <3>1. /\ pc'[p] = pc[p] /\ str'[p] = str[p] /\ j'[p] = j[p]
          /\ candidates'[p] = candidates[p]
      BY <1>7, <1>t, <2>2 DEF TestByte, CopyByte, EndRead
    <3> QED
      BY <1>0, <3>1, OneStringOfAnother
  <2> QED
    BY <2>1, <2>2
<1> QED
  BY <1>2, <1>3, <1>4, <1>5, <1>6, <1>7 DEF Next, Call, Continue

LEMMA AlwaysOneString ==
  Spec => []OneStringSoFar
<1> QED
  BY InitOneString, OneStringStep, AlwaysInSlot, HistoryAlwaysKept, BytesAlwaysAccountedFor,
     PTL DEF Spec

-----------------------------------------------------------------------------
(* The history stays finite, so that "one candidate" means what it says.   *)

LEMMA FiniteImage ==
  ASSUME NEW S, IsFiniteSet(S), NEW f, f = [x \in S |-> f[x]]
  PROVE  IsFiniteSet({f[x] : x \in S})
<1> DEFINE T == {f[x] : x \in S}
<1>1. f \in [S -> T]
  OBVIOUS
<1>2. \A t \in T : \E x \in S : f[x] = t
  OBVIOUS
<1>3. f \in Surjection(S, T)
  BY <1>1, <1>2 DEF Surjection
<1> QED
  BY <1>3, FS_Surjection

LEMMA FiniteImages ==
  ASSUME NEW W, IsFiniteSet(W), NEW p
  PROVE  /\ IsFiniteSet({Aside(w, p) : w \in W})
         /\ IsFiniteSet({Closed(w, p) : w \in W})
         /\ IsFiniteSet({Abandoned(w, p) : w \in W})
         /\ IsFiniteSet({w.str : w \in W})
<1>1. IsFiniteSet({Aside(w, p) : w \in W})
  <2> DEFINE f == [w \in W |-> Aside(w, p)]
  <2>1. \A w \in W : f[w] = Aside(w, p)
    OBVIOUS
  <2>2. f = [w \in W |-> f[w]] /\ {f[w] : w \in W} = {Aside(w, p) : w \in W}
    BY <2>1
  <2> HIDE DEF f
  <2>3. IsFiniteSet({f[w] : w \in W})
    BY <2>2, FiniteImage
  <2> QED
    BY <2>2, <2>3
<1>2. IsFiniteSet({Closed(w, p) : w \in W})
  <2> DEFINE f == [w \in W |-> Closed(w, p)]
  <2>1. \A w \in W : f[w] = Closed(w, p)
    OBVIOUS
  <2>2. f = [w \in W |-> f[w]] /\ {f[w] : w \in W} = {Closed(w, p) : w \in W}
    BY <2>1
  <2> HIDE DEF f
  <2>3. IsFiniteSet({f[w] : w \in W})
    BY <2>2, FiniteImage
  <2> QED
    BY <2>2, <2>3
<1>3. IsFiniteSet({Abandoned(w, p) : w \in W})
  <2> DEFINE f == [w \in W |-> Abandoned(w, p)]
  <2>1. \A w \in W : f[w] = Abandoned(w, p)
    OBVIOUS
  <2>2. f = [w \in W |-> f[w]] /\ {f[w] : w \in W} = {Abandoned(w, p) : w \in W}
    BY <2>1
  <2> HIDE DEF f
  <2>3. IsFiniteSet({f[w] : w \in W})
    BY <2>2, FiniteImage
  <2> QED
    BY <2>2, <2>3
<1>4. IsFiniteSet({w.str : w \in W})
  <2> DEFINE f == [w \in W |-> w.str]
  <2>1. \A w \in W : f[w] = w.str
    OBVIOUS
  <2>2. f = [w \in W |-> f[w]] /\ {f[w] : w \in W} = {w.str : w \in W}
    BY <2>1
  <2> HIDE DEF f
  <2>3. IsFiniteSet({f[w] : w \in W})
    BY <2>2, FiniteImage
  <2> QED
    BY <2>2, <2>3
<1> QED
  BY <1>1, <1>2, <1>3, <1>4

LEMMA FiniteChanges ==
  ASSUME FiniteHistory, NEW i \in Slots, NEW p, NEW s
  PROVE  /\ IsFiniteSet(Opened(i, p, s)) /\ IsFiniteSet(Replaced(i, p))
         /\ IsFiniteSet(CutShort(i, p)) /\ IsFiniteSet({w.str : w \in latest[i]})
<1> DEFINE W == latest[i]
           V == {v \in W : p \notin v.under}
<1>1. IsFiniteSet(W)
  BY DEF FiniteHistory
<1>2. IsFiniteSet(V)
  <2>1. V \in SUBSET W
    OBVIOUS
  <2> HIDE DEF V, W
  <2> QED
    BY <1>1, <2>1, FS_Subset
<1>3. /\ Opened(i, p, s) = {Aside(w, p) : w \in W} \cup {Fresh(s, p)}
      /\ Replaced(i, p) = {Closed(w, p) : w \in V}
      /\ CutShort(i, p) = {Abandoned(w, p) : w \in W}
  BY DEF Opened, Replaced, CutShort
<1>4. W = latest[i]
  OBVIOUS
<1> HIDE DEF V, W
<1>5. /\ IsFiniteSet({Aside(w, p) : w \in W}) /\ IsFiniteSet({Abandoned(w, p) : w \in W})
      /\ IsFiniteSet({w.str : w \in W})
  BY <1>1, FiniteImages
<1>6. IsFiniteSet({Closed(w, p) : w \in V})
  BY <1>2, FiniteImages
<1>7. IsFiniteSet(Opened(i, p, s))
  BY <1>3, <1>5, FS_AddElement
<1> QED
  BY <1>3, <1>4, <1>5, <1>6, <1>7

LEMMA FiniteStep ==
  HistoryKept /\ CallsInSlot /\ FiniteHistory /\ [Next]_vars => FiniteHistory'
<1> SUFFICES ASSUME HistoryKept, CallsInSlot, FiniteHistory, [Next]_vars PROVE FiniteHistory'
  OBVIOUS
<1>1. /\ latest \in [Slots -> SUBSET Record] /\ candidates \in [Users -> SUBSET Text]
      /\ \A i \in Slots : IsFiniteSet(latest[i])
      /\ \A p \in Users : IsFiniteSet(candidates[p])
  BY DEF HistoryKept, FiniteHistory
<1>2. IsFiniteSet({<< >>})
  BY FS_Singleton
<1>3. CASE UNCHANGED <<latest, candidates>>
  BY <1>3 DEF FiniteHistory
<1>4. CASE UNCHANGED vars \/ Free \/ \E p \in Users :
             Crash(p) \/ WriteByte(p) \/ TestByte(p) \/ CopyByte(p) \/ EndRead(p)
  BY <1>3, <1>4 DEF Free, Crash, WriteByte, TestByte, CopyByte, EndRead
<1>5. ASSUME NEW p \in Users, NEW i \in Slots, BeginRead(p, i)
      PROVE  FiniteHistory'
  <2>1. IsFiniteSet({w.str : w \in latest[i]})
    BY FiniteChanges
  <2> QED
    BY <1>1, <1>5, <2>1 DEF BeginRead, FiniteHistory
<1>6. ASSUME NEW p \in Users, NEW i \in Slots, NEW s \in Strings[i], BeginWrite(p, i, s)
      PROVE  FiniteHistory'
  <2>0. PICK F : F = Fitting(s)
    OBVIOUS
  <2>1. IsFiniteSet(Opened(i, p, F)) /\ latest' = [latest EXCEPT ![i] = Opened(i, p, F)]
    <3>1. OpenWrite(p, i, F)
      BY <1>6, <2>0 DEF BeginWrite
    <3>2. latest' = [latest EXCEPT ![i] = Opened(i, p, F)]
      BY <3>1, LatestChanges
    <3> QED
      BY <3>2, FiniteChanges
  <2>2. \A q \in Users : candidates'[q] = candidates[q] \/ candidates'[q] = candidates[q] \cup {F}
    BY <1>6, <2>0 DEF BeginWrite, OpenWrite
  <2>3. ASSUME NEW q \in Users
        PROVE  IsFiniteSet(candidates'[q])
    <3>1. IsFiniteSet(candidates[q]) /\ IsFiniteSet(candidates[q] \cup {F})
      BY <1>1, FS_AddElement
    <3> QED
      BY <2>2, <3>1
  <2>4. \A h \in Slots : IsFiniteSet(latest'[h])
    BY <1>1, <2>1
  <2> QED
    BY <2>3, <2>4 DEF FiniteHistory
<1>7. ASSUME NEW p \in Users, EndWrite(p) \/ Kill(p) \/ Return(p)
      PROVE  FiniteHistory'
  <2>1. \A q \in Users : IsFiniteSet(candidates'[q])
    BY <1>1, <1>2, <1>7 DEF EndWrite, Kill, Return
  <2>2. /\ pos[p] \in Slots
        /\ \/ latest' = [latest EXCEPT ![pos[p]] = Replaced(pos[p], p)]
           \/ latest' = [latest EXCEPT ![pos[p]] = CutShort(pos[p], p)]
           \/ latest' = latest
    BY <1>7, CallTypes, LatestChanges DEF EndWrite, Kill, Return
  <2>3. IsFiniteSet(Replaced(pos[p], p)) /\ IsFiniteSet(CutShort(pos[p], p))
    BY <2>2, FiniteChanges
  <2>4. \A h \in Slots : IsFiniteSet(latest'[h])
    BY <1>1, <2>2, <2>3
  <2> QED
    BY <2>1, <2>4 DEF FiniteHistory
<1> QED
  BY <1>4, <1>5, <1>6, <1>7 DEF Next, Call, Continue

LEMMA AlwaysFinite ==
  Spec => []FiniteHistory
<1>1. Init => FiniteHistory
  <2>1. \A x : IsFiniteSet({x})
    BY FS_Singleton
  <2> SUFFICES ASSUME Init PROVE FiniteHistory
    OBVIOUS
  <2>2. /\ \A i \in Slots : latest[i] = {[str |-> << >>, open |-> {}, under |-> {}]}
        /\ \A p \in Users : candidates[p] = {<< >>}
    BY DEF Init
  <2> QED
    BY <2>1, <2>2 DEF FiniteHistory
<1> QED
  BY <1>1, FiniteStep, AlwaysInSlot, HistoryAlwaysKept, PTL DEF Spec

(* A read() that no write of another string meets returns the string that  *)
(* was stored, cut to the slot, whoever was killed while he wrote it.      *)
THEOREM ExactReads ==
  Spec => []UndisturbedReadIsExact
<1>1. OneStringSoFar /\ FiniteHistory => UndisturbedReadIsExact
  <2> SUFFICES ASSUME OneStringSoFar, FiniteHistory, NEW p \in Users,
                      pc[p] = "returned", Cardinality(candidates[p]) = 1
               PROVE  str[p] \in candidates[p]
    BY DEF UndisturbedReadIsExact
  <2>1. PICK s : candidates[p] = {s}
    BY FS_Singleton DEF FiniteHistory
  <2>2. str[p] = s
    BY <2>1 DEF OneStringSoFar
  <2> QED
    BY <2>1, <2>2
<1> QED
  BY <1>1, AlwaysOneString, AlwaysFinite, PTL

-----------------------------------------------------------------------------
(* The first character. *)

FirstByte(p) ==
  /\ pc[p] \in {"read", "copy"} =>
       /\ Len(str[p]) = j[p]
       /\ j[p] > 0 => \E s \in candidates[p] : str[p][1] = Byte(s, 0)
  /\ pc[p] = "returned" =>
       /\ candidates[p] \subseteq Known(pos[p])
       /\ str[p] = << >> => << >> \in candidates[p]
       /\ str[p] # << >> => \E s \in candidates[p] : s # << >> /\ str[p][1] = s[1]

LEMMA FirstByteOfAnother ==
  ASSUME NEW p \in Users, FirstByte(p),
         pc'[p] = pc[p], pos'[p] = pos[p], str'[p] = str[p], j'[p] = j[p],
         candidates[p] \subseteq candidates'[p],
         pc[p] \notin {"read", "copy"} => candidates'[p] = candidates[p]
  PROVE  FirstByte(p)'
<1> QED
  BY DEF FirstByte

LEMMA FirstByteCopyByte ==
  ASSUME CallsInSlot, HistoryKept, BytesAccountedFor, NEW p \in Users, FirstByte(p), CopyByte(p)
  PROVE  FirstByte(p)'
<1>1. /\ pc[p] = "copy" /\ pc'[p] = "read" /\ candidates'[p] = candidates[p]
      /\ str'[p] = Append(str[p], seg[Index(p)]) /\ j'[p] = j[p] + 1
      /\ j[p] \in Nat /\ str[p] \in Seq(0 .. 127) /\ j[p] < maxsize
      /\ pos[p] \in Slots
  BY CallTypes DEF CopyByte, CallsInSlot, TypeOK
<1>2. Len(str[p]) = j[p] /\ (j[p] > 0 => \E s \in candidates[p] : str[p][1] = Byte(s, 0))
  BY <1>1 DEF FirstByte
<1>3. Len(str'[p]) = j'[p] /\ (\A i \in 1 .. j[p] : str'[p][i] = str[p][i])
      /\ str'[p][j[p] + 1] = seg[Index(p)]
  BY <1>1, <1>2, AppendProperties
<1>4. \E s \in candidates[p] : str'[p][1] = Byte(s, 0)
  <2>1. CASE j[p] > 0
    BY <1>1, <1>2, <1>3, <2>1
  <2>2. CASE j[p] = 0
    <3>0. maxsize \in 1 .. 127 /\ seg[1] = maxsize
      BY CallTypes, SharedMemoryAssumption
    <3>1. 0 \in 0 .. maxsize - 1 /\ Index(p) = Cell(pos[p], 0)
      BY <1>1, <2>2, <3>0 DEF Index, Start, Cell
    <3>2. PICK s \in candidates[p] : 0 <= Len(s) => seg[Cell(pos[p], 0)] = Byte(s, 0)
      BY <1>1, <3>1, SomethingIsStored
    <3>3. Len(s) \in Nat
      BY TextBytes DEF HistoryKept
    <3>4. str'[p][1] = seg[Cell(pos[p], 0)]
      BY <1>3, <2>2, <3>1
    <3> QED
      BY <3>2, <3>3, <3>4
  <2> QED
    BY <1>1, <2>1, <2>2
<1> QED
  BY <1>1, <1>3, <1>4 DEF FirstByte

LEMMA FirstByteEndRead ==
  ASSUME CallsInSlot, HistoryKept, BytesAccountedFor, NEW p \in Users, FirstByte(p), EndRead(p)
  PROVE  FirstByte(p)'
<1>1. /\ pc[p] = "read" /\ pc'[p] = "returned" /\ candidates'[p] = candidates[p]
      /\ str'[p] = UpToNUL(str[p]) /\ pos'[p] = pos[p]
      /\ j[p] \in Nat /\ str[p] \in Seq(0 .. 127) /\ pos[p] \in Slots
  BY CallTypes DEF EndRead, CallsInSlot, TypeOK
<1>2. Len(str[p]) = j[p] /\ (j[p] > 0 => \E s \in candidates[p] : str[p][1] = Byte(s, 0))
  BY <1>1 DEF FirstByte
<1>3. candidates[p] \subseteq Known(pos[p])
  BY <1>1 DEF HistoryKept
<1>4. ASSUME NEW s \in candidates[p]
      PROVE  /\ Len(s) \in Nat /\ (Byte(s, 0) = NUL => s = << >>)
             /\ Byte(s, 0) # NUL => s # << >> /\ Byte(s, 0) = s[1]
  <2>1. s \in Text
    BY DEF HistoryKept
  <2>2. Len(s) \in Nat /\ (Byte(s, 0) = NUL <=> 0 >= Len(s))
    BY <2>1, TextBytes
  <2>3. s = << >> <=> Len(s) = 0
    BY <2>1, EmptySeq DEF Text
  <2>4. 0 < Len(s) => Byte(s, 0) = s[1]
    BY DEF Byte
  <2> QED
    BY <2>2, <2>3, <2>4
<1>5. CASE j[p] = 0
  <2>0. maxsize \in 1 .. 127 /\ seg[1] = maxsize
    BY CallTypes, SharedMemoryAssumption
  <2>1. 0 \in 0 .. maxsize - 1 /\ Index(p) = Cell(pos[p], 0)
    <3>1. 0 \in 0 .. maxsize - 1
      BY SlotLength
    <3>2. Index(p) = 2 + pos[p] * maxsize + 0
      BY <1>5, <2>0 DEF Index, Start
    <3> QED
      BY <3>1, <3>2 DEF Cell
  <2>2. seg[Index(p)] = NUL
    BY <1>5, <2>0 DEF EndRead, MoreToRead
  <2>3. PICK s \in candidates[p] : 0 <= Len(s) => seg[Cell(pos[p], 0)] = Byte(s, 0)
    BY <1>1, <2>1, SomethingIsStored
  <2>4. s = << >>
    BY <1>4, <2>1, <2>2, <2>3
  <2>5. str'[p] = << >>
    <3>1. Len(UpToNUL(str[p])) <= 0 /\ UpToNUL(str[p]) \in Seq(0 .. 127)
      BY <1>1, <1>2, <1>5, UpToNULKeeps
    <3>2. Len(UpToNUL(str[p])) \in Nat
      BY <3>1, LenProperties
    <3> QED
      BY <1>1, <3>1, <3>2, EmptySeq
  <2> QED
    BY <1>1, <1>3, <2>4, <2>5 DEF FirstByte
<1>6. CASE j[p] > 0
  <2>1. PICK s \in candidates[p] : str[p][1] = Byte(s, 0)
    BY <1>2, <1>6
  <2>2. str[p] # << >>
    BY <1>1, <1>2, <1>6, EmptySeq
  <2>3. CASE str[p][1] = NUL
    <3>1. UpToNUL(str[p]) = << >> /\ s = << >>
      BY <1>1, <1>4, <2>1, <2>2, <2>3, UpToNULKeeps
    <3> QED
      BY <1>1, <1>3, <3>1 DEF FirstByte
  <2>4. CASE str[p][1] # NUL
    <3>1. UpToNUL(str[p]) # << >> /\ UpToNUL(str[p])[1] = str[p][1]
      BY <1>1, <2>2, <2>4, UpToNULKeeps
    <3>2. s # << >> /\ str[p][1] = s[1]
      BY <1>4, <2>1, <2>4
    <3> QED
      BY <1>1, <1>3, <3>1, <3>2 DEF FirstByte
  <2> QED
    BY <2>3, <2>4
<1> QED
  BY <1>1, <1>5, <1>6

LEMMA FirstByteStep ==
  CallsInSlot /\ HistoryKept /\ BytesAccountedFor /\ FirstByteOffered /\ [Next]_vars
    => FirstByteOffered'
<1> SUFFICES ASSUME CallsInSlot, HistoryKept, BytesAccountedFor, FirstByteOffered, [Next]_vars,
                    NEW p \in Users
             PROVE  FirstByte(p)'
  BY DEF FirstByteOffered, FirstByte
<1>0. FirstByte(p)
  BY DEF FirstByteOffered, FirstByte
<1>t. /\ pc \in [Users -> {"idle", "write", "read", "copy", "returned", "crashed"}]
      /\ pos \in [Users -> Slots] /\ str \in [Users -> Seq(0 .. 127)]
      /\ j \in [Users -> 0 .. maxsize] /\ candidates \in [Users -> SUBSET Text]
  BY DEF CallsInSlot, TypeOK, HistoryKept
<1>1. ASSUME pc'[p] \notin {"read", "copy", "returned"}
      PROVE  FirstByte(p)'
  BY <1>1 DEF FirstByte
<1>2. CASE UNCHANGED vars \/ Free
  BY <1>0, <1>2, FirstByteOfAnother DEF Free
<1>3. ASSUME NEW q \in Users, q # p, Call(q) \/ Continue(q) \/ Kill(q)
      PROVE  FirstByte(p)'
  <2>1. pc'[p] = pc[p] /\ pos'[p] = pos[p] /\ str'[p] = str[p] /\ j'[p] = j[p]
    BY <1>3, <1>t DEF Call, Continue, Kill, BeginRead, BeginWrite, Crash, WriteByte, EndWrite,
                     TestByte, CopyByte, EndRead, Return
  <2>2. ASSUME NEW i \in Slots, NEW s \in Strings[i], BeginWrite(q, i, s)
        PROVE  FirstByte(p)'
    <3>1. /\ candidates[p] \subseteq candidates'[p]
          /\ pc[p] \notin {"read", "copy"} => candidates'[p] = candidates[p]
      BY <2>2 DEF BeginWrite, OpenWrite, InCall
    <3> QED
      BY <1>0, <2>1, <3>1, FirstByteOfAnother
  <2>3. CASE \/ \E i \in Slots : BeginRead(q, i)
             \/ Crash(q) \/ Continue(q) \/ Kill(q)
    <3>1. candidates'[p] = candidates[p]
      BY <1>3, <1>t, <2>3 DEF Continue, Kill, BeginRead, Crash, WriteByte, EndWrite, TestByte,
                             CopyByte, EndRead, Return
    <3> QED
      BY <1>0, <2>1, <3>1, FirstByteOfAnother
  <2> QED
    BY <1>3, <2>2, <2>3 DEF Call
<1>4. ASSUME NEW i \in Slots, BeginRead(p, i)
      PROVE  FirstByte(p)'
  <2>1. pc'[p] = "read" /\ str'[p] = << >> /\ j'[p] = 0 /\ Len(<< >>) = 0
    BY <1>4, <1>t, EmptySeq DEF BeginRead
  <2> QED
    BY <2>1 DEF FirstByte
<1>5. CASE \/ Crash(p) \/ WriteByte(p) \/ EndWrite(p) \/ Return(p) \/ Kill(p)
           \/ \E i \in Slots : \E s \in Strings[i] : BeginWrite(p, i, s)
  BY <1>1, <1>5, <1>t DEF Crash, WriteByte, EndWrite, Return, Kill, BeginWrite
<1>6. CASE TestByte(p)
  BY <1>0, <1>6, <1>t DEF TestByte, FirstByte
<1> QED
  BY <1>0, <1>2, <1>3, <1>4, <1>5, <1>6, FirstByteCopyByte, FirstByteEndRead
     DEF Next, Call, Continue

LEMMA AlwaysFirstByte ==
  Spec => []FirstByteOffered
<1>1. Init => FirstByteOffered
  BY DEF Init, FirstByteOffered
<1> QED
  BY <1>1, FirstByteStep, AlwaysInSlot, HistoryAlwaysKept, BytesAlwaysAccountedFor, PTL DEF Spec

-----------------------------------------------------------------------------
(* Slots for one character. *)

LEMMA ShortSegment ==
  ASSUME CallsInSlot, ShortSlots, [Next]_vars,
         NEW i \in Slots, OneCharacter(i), NEW k \in 1 .. maxsize - 1
  PROVE  seg'[Cell(i, k)] = NUL
<1>0. seg[Cell(i, k)] = NUL /\ maxsize \in 1 .. 127
  BY SharedMemoryAssumption DEF ShortSlots
<1>1. CASE seg' = seg
  BY <1>0, <1>1
<1>2. k \in 0 .. maxsize - 1 /\ k # 0
  BY <1>0
<1>3. ASSUME NEW p \in Users, WriteByte(p)
      PROVE  seg'[Cell(i, k)] = NUL
  <2>1. LET v == str[p][j[p] + 1]
        IN  v \in 0 .. 127 /\ Stores(p, v) /\ j[p] < Len(str[p])
    BY <1>3, WriteByteStores
  <2>2. i # pos[p] \/ k # j[p] => seg'[Cell(i, k)] = seg[Cell(i, k)]
    BY <1>2, <2>1, StoredByteStays
  <2>3. i = pos[p] => j[p] = 0
    <3>1. i = pos[p] => Len(str[p]) = 1
      BY <2>1, CallTypes DEF Stores, OneCharacter
    <3> QED
      BY <2>1, <3>1, CallTypes
  <2> QED
    BY <1>0, <1>2, <2>2, <2>3
<1>4. ASSUME NEW p \in Users, EndWrite(p)
      PROVE  seg'[Cell(i, k)] = NUL
  <2>1. CASE j[p] < maxsize
    <3>1. Stores(p, NUL) /\ NUL \in 0 .. 127
      BY <1>4, <2>1, EndWriteStores DEF NUL
    <3>2. /\ seg'[Cell(pos[p], j[p])] = NUL
          /\ i # pos[p] \/ k # j[p] => seg'[Cell(i, k)] = seg[Cell(i, k)]
      BY <1>2, <3>1, StoredByteStays
    <3> QED
      BY <1>0, <3>2
  <2>2. CASE j[p] = maxsize
    BY <1>0, <1>4, <2>2, EndWriteStores
  <2> QED
    BY <1>0, <2>1, <2>2, CallTypes
<1>5. CASE UNCHANGED vars
  BY <1>1, <1>5
<1> QED
  BY <1>1, <1>3, <1>4, <1>5
     DEF Next, Call, Continue, Free, BeginRead, BeginWrite, Crash, TestByte, CopyByte,
         EndRead, Return, Kill

LEMMA ShortCall ==
  ASSUME CallsInSlot, FirstByteOffered, ShortSlots, [Next]_vars, NEW p \in Users, OneCharacter(pos'[p])
  PROVE  /\ pc'[p] = "read" => j'[p] <= 1
         /\ pc'[p] = "copy" => j'[p] = 0
         /\ pc'[p] = "returned" => Len(str'[p]) <= 1
<1> DEFINE Goal == /\ pc'[p] = "read" => j'[p] <= 1
                   /\ pc'[p] = "copy" => j'[p] = 0
                   /\ pc'[p] = "returned" => Len(str'[p]) <= 1
<1> SUFFICES Goal
  OBVIOUS
<1>t. /\ pc \in [Users -> {"idle", "write", "read", "copy", "returned", "crashed"}]
      /\ pos \in [Users -> Slots] /\ str \in [Users -> Seq(0 .. 127)]
      /\ j \in [Users -> 0 .. maxsize] /\ maxsize \in 1 .. 127
  BY SharedMemoryAssumption DEF CallsInSlot, TypeOK
<1>1. CASE pc'[p] = pc[p] /\ pos'[p] = pos[p] /\ str'[p] = str[p] /\ j'[p] = j[p]
  BY <1>1 DEF ShortSlots
<1>2. CASE pc'[p] \notin {"read", "copy", "returned"}
  BY <1>2
<1>3. ASSUME NEW i \in Slots, BeginRead(p, i)
      PROVE  Goal
  BY <1>3, <1>t DEF BeginRead
<1>4. CASE TestByte(p)
  <2>1. OneCharacter(pos[p]) /\ j[p] <= 1 /\ j'[p] = j[p] /\ pc'[p] = "copy"
    BY <1>4, <1>t DEF TestByte, ShortSlots
  <2>2. j[p] < maxsize /\ seg[Index(p)] # NUL /\ Index(p) = Cell(pos[p], j[p])
    BY <1>4, CallTypes DEF TestByte, MoreToRead, Index, Start, Cell
  <2>3. CASE j[p] = 1
    <3>1. j[p] \in 1 .. maxsize - 1 /\ pos[p] \in Slots
      BY <1>t, <2>2, <2>3
    <3>2. seg[Cell(pos[p], j[p])] = NUL
      BY <2>1, <3>1 DEF ShortSlots
    <3> QED
      BY <2>2, <3>2
  <2>4. j[p] = 0 \/ j[p] = 1
    BY <1>t, <2>1
  <2> QED
    BY <2>1, <2>3, <2>4
<1>5. CASE CopyByte(p)
  <2>1. OneCharacter(pos[p]) /\ pc[p] = "copy" /\ pc'[p] = "read" /\ j'[p] = j[p] + 1
    BY <1>5, <1>t DEF CopyByte
  <2>2. j[p] = 0
    BY <2>1 DEF ShortSlots
  <2> QED
    BY <2>1, <2>2
<1>6. CASE EndRead(p)
  <2>1. /\ OneCharacter(pos[p]) /\ pc[p] = "read" /\ pc'[p] = "returned"
        /\ str'[p] = UpToNUL(str[p])
    BY <1>6, <1>t DEF EndRead
  <2>2. Len(str[p]) <= 1
    BY <2>1 DEF ShortSlots, FirstByteOffered
  <2>3. UpToNUL(str[p]) \in Seq(0 .. 127) /\ Len(UpToNUL(str[p])) <= Len(str[p])
    BY <1>t, UpToNULKeeps
  <2>4. Len(UpToNUL(str[p])) \in Nat /\ Len(str[p]) \in Nat
    BY <1>t, <2>3, LenProperties
  <2> QED
    BY <2>1, <2>2, <2>3, <2>4
<1>7. ASSUME NEW q \in Users, q # p, Call(q) \/ Continue(q) \/ Kill(q)
      PROVE  Goal
  <2>1. pc'[p] = pc[p] /\ pos'[p] = pos[p] /\ str'[p] = str[p] /\ j'[p] = j[p]
    BY <1>7, <1>t DEF Call, Continue, Kill, BeginRead, BeginWrite, Crash, WriteByte, EndWrite,
                     TestByte, CopyByte, EndRead, Return
  <2> QED
    BY <1>1, <2>1
<1>8. CASE \/ Crash(p) \/ WriteByte(p) \/ EndWrite(p) \/ Return(p) \/ Kill(p)
           \/ \E i \in Slots : \E s \in Strings[i] : BeginWrite(p, i, s)
  BY <1>2, <1>8, <1>t DEF Crash, WriteByte, EndWrite, Return, Kill, BeginWrite
<1>9. CASE UNCHANGED vars \/ Free
  BY <1>1, <1>9 DEF Free
<1> HIDE DEF Goal
<1> QED
  BY <1>3, <1>4, <1>5, <1>6, <1>7, <1>8, <1>9 DEF Next, Call, Continue

LEMMA AlwaysShort ==
  Spec => []ShortSlots
<1>1. Init => ShortSlots
  <2> SUFFICES ASSUME Init PROVE ShortSlots
    OBVIOUS
  <2>1. ASSUME NEW i \in Slots, NEW k \in 1 .. maxsize - 1
        PROVE  seg[Cell(i, k)] = NUL
    <3>0. maxsize \in 1 .. 127
      BY SharedMemoryAssumption
    <3>1. k \in 0 .. maxsize - 1
      BY <3>0
    <3> QED
      BY <3>1, InitBlank
  <2> QED
    BY <2>1 DEF Init, ShortSlots
<1>2. CallsInSlot /\ FirstByteOffered /\ ShortSlots /\ [Next]_vars => ShortSlots'
  <2> SUFFICES ASSUME CallsInSlot, FirstByteOffered, ShortSlots, [Next]_vars PROVE ShortSlots'
    OBVIOUS
  <2>1. \A i \in Slots : OneCharacter(i) => \A k \in 1 .. maxsize - 1 : seg'[Cell(i, k)] = NUL
    BY ShortSegment
  <2>2. \A p \in Users : OneCharacter(pos'[p]) =>
          /\ pc'[p] = "read" => j'[p] <= 1
          /\ pc'[p] = "copy" => j'[p] = 0
          /\ pc'[p] = "returned" => Len(str'[p]) <= 1
    BY ShortCall
  <2> QED
    BY <2>1, <2>2 DEF ShortSlots
<1> QED
  BY <1>1, <1>2, AlwaysInSlot, AlwaysFirstByte, PTL DEF Spec

(* Where the strings of a slot differ in their first characters, a string  *)
(* of the program is returned by read() only if the slot held it during    *)
(* the call, whatever writes and deaths overlap with it; and in a slot of  *)
(* one character no other string is ever returned.                         *)
THEOREM KnownStringsWereStored ==
  ASSUME FirstCharacterTells
  PROVE  Spec => []KnownStringWasStored
<1>1. ASSUME CallsInSlot, HistoryKept, FirstByteOffered, ShortSlots, NEW p \in Users,
             pc[p] = "returned", str[p] \in Known(pos[p]) \/ OneCharacter(pos[p])
      PROVE  str[p] \in candidates[p]
  <2>0. pos[p] \in Slots /\ str[p] \in Seq(0 .. 127) /\ Len(str[p]) \in Nat
    BY <1>1, CallTypes
  <2>1. CASE str[p] = << >>
    BY <1>1, <2>1 DEF FirstByteOffered
  <2>2. ASSUME str[p] # << >>
        PROVE  str[p] \in candidates[p]
    <3>1. PICK s \in candidates[p] : s # << >> /\ str[p][1] = s[1]
      BY <1>1, <2>2 DEF FirstByteOffered
    <3>2. s \in Known(pos[p])
      BY <1>1 DEF FirstByteOffered
    <3>3. CASE str[p] \in Known(pos[p])
      <4>1. str[p] = s
        BY <2>0, <2>2, <3>1, <3>2, <3>3 DEF FirstCharacterTells
      <4> QED
        BY <4>1
    <3>4. CASE OneCharacter(pos[p])
      <4>1. Len(str[p]) = 1
        <5>1. Len(str[p]) # 0
          BY <2>0, <2>2, EmptySeq
        <5>2. Len(str[p]) <= 1
          BY <1>1, <3>4 DEF ShortSlots
        <5>3. \A l \in Nat : l # 0 /\ l <= 1 => l = 1
          OBVIOUS
        <5> QED
          BY <2>0, <5>1, <5>2, <5>3, Zenon
      <4>2. PICK t \in Strings[pos[p]] : s = Fitting(t)
        BY <3>1, <3>2 DEF Known
      <4>3. Len(s) = 1 /\ s \in Text
        <5>1. t \in Text /\ Len(t) = 1
          BY <2>0, <3>4, FittingIsKnown DEF OneCharacter
        <5>2. Len(t) <= maxsize
          BY <5>1, SharedMemoryAssumption
        <5> QED
          BY <4>2, <5>1, <5>2, FittingKeeps
      <4>4. s \in Seq(0 .. 127)
        BY <4>3, TextIsChars
      <4>5. str[p] = s
        <5>1. Len(str[p]) = Len(s) /\ \A i \in 1 .. Len(str[p]) : str[p][i] = s[i]
          BY <3>1, <4>1, <4>3
        <5> QED
          BY <2>0, <4>4, <5>1, SeqEqual
      <4> QED
        BY <4>5
    <3> QED
      BY <1>1, <3>3, <3>4
  <2> QED
    BY <2>1, <2>2
<1>2. CallsInSlot /\ HistoryKept /\ FirstByteOffered /\ ShortSlots => KnownStringWasStored
  BY <1>1 DEF KnownStringWasStored
<1> QED
  BY <1>2, AlwaysInSlot, HistoryAlwaysKept, AlwaysFirstByte, AlwaysShort, PTL
=============================================================================
