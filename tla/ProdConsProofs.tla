--------------------------- MODULE ProdConsProofs ---------------------------
(***************************************************************************)
(* Proofs about ProdCons, for every size of the segment, every message     *)
(* range, and processes killed at any step.  What the broken acquire does  *)
(* not provide is proved of the behaviours, or the parts of one, in which  *)
(* test-and-sets do not overlap; nothing is assumed of the constants but   *)
(* what ProdCons states.                                                   *)
(***************************************************************************)
EXTENDS ProdConsInvariants, SequenceTheorems, TLAPS

USE DEF Procs, bufferSize, Positions, Ids, Constructing, Critical, Labels,
        mem, fields, vars, Goto

(* The initial values have their types. *)
LEMMA InitTyped == Init => TypeOK
  BY ProdConsAssumption DEF Init, TypeOK

LEMMA Remainder ==
  ASSUME NEW x \in Int, NEW n \in Nat \ {0}
  PROVE  x % n \in 0 .. n - 1
OBVIOUS

(* A process's own position stays on the ring.                             *)
LEMMA NextPlace ==
  ASSUME NEW x \in Positions
  PROVE  (x + 1) % bufferSize \in Positions
<1>1. bufferSize \in Nat \ {0}
  BY ProdConsAssumption
<1>2. x + 1 \in Int
  OBVIOUS
<1> QED
  BY <1>1, <1>2, Remainder

(* The constructor's reads and writes, cut short or not, leave both slots  *)
(* written before any process uses the buffer.                             *)
LEMMA InitWritten == Init => SlotsWritten
  BY DEF Init, SlotsWritten, Constructed

(* Every step keeps the types: the positions stay inside the ring, the ids *)
(* below MaxId, and a count is only computed from a count.                 *)
LEMMA StepTyped == TypeOK /\ SlotsWritten /\ [Next]_vars => TypeOK'
<1> SUFFICES ASSUME TypeOK, SlotsWritten, [Next]_vars PROVE TypeOK'
  OBVIOUS
<1> USE ProdConsAssumption DEF TypeOK
<1>1. ASSUME NEW p \in Procs, ReadCount(p) PROVE TypeOK'
  <2>1. (memCount = Empty) \in BOOLEAN
    OBVIOUS
  <2> QED
    BY <1>1, <2>1, Zenon DEF ReadCount
<1>2. ASSUME NEW p \in Procs, ReadAvailable(p) PROVE TypeOK'
  BY <1>2 DEF ReadAvailable
<1>3. ASSUME NEW p \in Procs, WriteCount(p) PROVE TypeOK'
  BY <1>3 DEF WriteCount
<1>4. ASSUME NEW p \in Procs, WriteAvailable(p) PROVE TypeOK'
  BY <1>4 DEF WriteAvailable
<1>5. ASSUME NEW p \in Procs, AcquireTest(p) \/ AcquireSet(p) PROVE TypeOK'
  BY <1>5 DEF AcquireTest, AcquireSet
<1>6. ASSUME NEW p \in Procs, Release(p) PROVE TypeOK'
  <2>1. index[p] \in Positions
    OBVIOUS
  <2>2. index' \in [Procs -> Positions]
    BY <1>6, <2>1, NextPlace DEF Release
  <2>3. pc' \in [Procs -> Labels]
    BY <1>6 DEF Release
  <2> QED
    BY <1>6, <2>2, <2>3 DEF Release
<1>7. ASSUME NEW p \in Procs, NEW delta \in {-1, 1}, LoadCount(p, delta) PROVE TypeOK'
  <2>1. memCount + delta \in Int
    BY <1>7 DEF LoadCount, SlotsWritten, Constructed
  <2> QED
    BY <1>7, <2>1 DEF LoadCount
<1>8. ASSUME NEW p \in Procs, StoreCount(p) PROVE TypeOK'
  BY <1>8 DEF StoreCount
<1>9. ASSUME NEW p \in Procs, Produce(p) PROVE TypeOK'
  <2>1. id[p] \in Ids /\ (IF id[p] + 1 >= MaxId THEN 0 ELSE id[p] + 1) \in Ids
    OBVIOUS
  <2>2. id' \in [Procs -> Ids] /\ item' \in [Procs -> Ids \cup {Empty}]
    BY <1>9, <2>1 DEF Produce
  <2>3. pc' \in [Procs -> Labels]
    BY <1>9 DEF Produce
  <2> QED
    BY <1>9, <2>2, <2>3 DEF Produce
<1>10. ASSUME NEW p \in Procs, InsertItem(p) PROVE TypeOK'
  <2>1. index[p] \in Positions /\ item[p] \in Ids \cup {Empty}
    OBVIOUS
  <2>2. memItems' \in [Positions -> Ids \cup {Empty}]
    BY <1>10, <2>1 DEF InsertItem
  <2>3. unread' \in SUBSET Positions
    BY <1>10, <2>1 DEF InsertItem
  <2>4. pc' \in [Procs -> Labels]
    BY <1>10 DEF InsertItem
  <2> QED
    BY <1>10, <2>2, <2>3, <2>4 DEF InsertItem
<1>11. ASSUME NEW c \in Procs, RemoveItem(c) PROVE TypeOK'
  BY <1>11 DEF RemoveItem
<1>12. ASSUME NEW p \in Procs, InsertCheck(p) \/ Consume(p) \/ RemoveCheck(p) \/ Start(p)
       PROVE TypeOK'
  BY <1>12 DEF InsertCheck, Consume, RemoveCheck, Start
<1>13. ASSUME NEW p \in Procs, Kill(p) PROVE TypeOK'
  BY <1>13 DEF Kill
<1>14. CASE UNCHANGED vars
  BY <1>14
<1> QED
  BY <1>1, <1>2, <1>3, <1>4, <1>5, <1>6, <1>7, <1>8, <1>9, <1>10, <1>11, <1>12, <1>13, <1>14
     DEF Next, Step, Construct, Mutex, Insert, Remove

-----------------------------------------------------------------------------
(* The constructors, whatever their order and wherever they are cut short. *)

(* The steps that write neither the count nor the token.                   *)
Harmless(p) ==
  \/ InsertCheck(p) \/ InsertItem(p) \/ Produce(p)
  \/ Consume(p) \/ RemoveCheck(p) \/ RemoveItem(p)

LEMMA SlotsWrittenStep == TypeOK /\ SlotsWritten /\ [Next]_vars => SlotsWritten'
<1> SUFFICES ASSUME TypeOK, SlotsWritten, [Next]_vars PROVE SlotsWritten'
  OBVIOUS
<1> USE ProdConsAssumption DEF TypeOK, SlotsWritten, Constructed
<1>1. ASSUME NEW p \in Procs, ReadCount(p) PROVE SlotsWritten'
  BY <1>1 DEF ReadCount
<1>2. ASSUME NEW p \in Procs, ReadAvailable(p) PROVE SlotsWritten'
  BY <1>2 DEF ReadAvailable
<1>3. ASSUME NEW p \in Procs, WriteCount(p) PROVE SlotsWritten'
  BY <1>3 DEF WriteCount
<1>4. ASSUME NEW p \in Procs, WriteAvailable(p) PROVE SlotsWritten'
  BY <1>4 DEF WriteAvailable
<1>5. ASSUME NEW p \in Procs, AcquireTest(p) PROVE SlotsWritten'
  BY <1>5 DEF AcquireTest
<1>6. ASSUME NEW p \in Procs, AcquireSet(p) PROVE SlotsWritten'
  BY <1>6 DEF AcquireSet
<1>7. ASSUME NEW p \in Procs, Release(p) PROVE SlotsWritten'
  BY <1>7 DEF Release
<1>8. ASSUME NEW p \in Procs, NEW delta \in {-1, 1}, LoadCount(p, delta) PROVE SlotsWritten'
  BY <1>8 DEF LoadCount
<1>9. ASSUME NEW p \in Procs, StoreCount(p) PROVE SlotsWritten'
  <2>1. count[p] # Empty
    OBVIOUS
  <2> QED
    BY <1>9, <2>1 DEF StoreCount
<1>10. ASSUME NEW p \in Procs, Harmless(p) PROVE SlotsWritten'
  BY <1>10 DEF Harmless, InsertCheck, InsertItem, Produce, Consume, RemoveCheck, RemoveItem
<1>11. ASSUME NEW p \in Procs, Start(p) PROVE SlotsWritten'
  BY <1>11 DEF Start
<1>12. ASSUME NEW p \in Procs, Kill(p) PROVE SlotsWritten'
  BY <1>12 DEF Kill
<1>13. CASE UNCHANGED vars
  BY <1>13
<1> QED
  BY <1>1, <1>2, <1>3, <1>4, <1>5, <1>6, <1>7, <1>8, <1>9, <1>10, <1>11, <1>12, <1>13
     DEF Next, Step, Construct, Mutex, Insert, Remove, Harmless

(* Type correctness: the positions, ids and local counts of both processes *)
(* and the content of every slot keep their types.  It rests on the slots  *)
(* being written: the sum of an empty string and 1 is no count.            *)
THEOREM TypeCorrect == Spec => []TypeOK
  BY InitTyped, InitWritten, StepTyped, SlotsWrittenStep, PTL DEF Spec

LEMMA SlotsAlwaysWritten == Spec => []SlotsWritten
  BY InitTyped, InitWritten, StepTyped, SlotsWrittenStep, PTL DEF Spec

(* Integer.parseInt in insert and remove always finds a number: the        *)
(* constructors leave the count written in every order of their steps, and *)
(* when some of them are killed half-way.                                  *)
THEOREM CountIsParsed == Spec => []ParsesAnInteger
<1>1. SlotsWritten => ParsesAnInteger
  BY DEF SlotsWritten, ParsesAnInteger, Constructed
<1> QED
  BY <1>1, SlotsAlwaysWritten, PTL

-----------------------------------------------------------------------------
(* The token. *)

(* The deployed acquire may let both processes take the token, and two     *)
(* releases then put it back while one of them is still inside; but if     *)
(* nobody is killed, whoever leaves its critical section last leaves the   *)
(* token behind.                                                           *)
THEOREM TokenReturns ==
  ASSUME Mortal = {}
  PROVE  Spec => []TokenNotLost
<1> USE DEF TokenNotLost
<1>1. Init => TokenNotLost
  BY ProdConsAssumption DEF Init
<1>2. TypeOK /\ TokenNotLost /\ [Next]_vars => TokenNotLost'
  <2> SUFFICES ASSUME TypeOK, TokenNotLost, [Next]_vars PROVE TokenNotLost'
    OBVIOUS
  <2>1. ASSUME NEW p \in Procs, AcquireSet(p) PROVE TokenNotLost'
    BY <2>1 DEF AcquireSet, TypeOK
  <2>2. ASSUME NEW p \in Procs, Release(p) \/ WriteAvailable(p) PROVE TokenNotLost'
    BY <2>2 DEF Release, WriteAvailable
  <2>3. ASSUME memAvailable' = memAvailable,
               \A q \in Procs : pc[q] \in Critical => pc'[q] \in Critical
        PROVE  TokenNotLost'
    BY <2>3
  <2>4. ASSUME NEW p \in Procs, ReadCount(p) \/ ReadAvailable(p) \/ WriteCount(p)
        PROVE  TokenNotLost'
    BY <2>4, <2>3 DEF ReadCount, ReadAvailable, WriteCount, TypeOK
  <2>5. ASSUME NEW p \in Procs, NEW delta \in {-1, 1}, LoadCount(p, delta)
        PROVE  TokenNotLost'
    BY <2>5, <2>3 DEF LoadCount, TypeOK
  <2>6. ASSUME NEW p \in Procs, StoreCount(p) \/ AcquireTest(p) \/ Start(p)
        PROVE  TokenNotLost'
    BY <2>6, <2>3 DEF StoreCount, AcquireTest, Start, TypeOK
  <2>7. ASSUME NEW p \in Procs, Harmless(p) PROVE TokenNotLost'
    BY <2>7, <2>3
       DEF Harmless, InsertCheck, InsertItem, Produce, Consume, RemoveCheck, RemoveItem, TypeOK
  <2>8. CASE UNCHANGED vars
    BY <2>8, <2>3
  <2>9. ASSUME NEW p \in Procs, Kill(p) PROVE FALSE
    BY <2>9 DEF Kill
  <2> QED
    BY <2>1, <2>2, <2>4, <2>5, <2>6, <2>7, <2>8, <2>9
       DEF Next, Step, Construct, Mutex, Insert, Remove, Harmless
<1> QED
  BY <1>1, <1>2, TypeCorrect, PTL DEF Spec

(* A token lost with the process that held it stays lost for ever: nobody  *)
(* can pass acquire, and a restarted process finds both slots written and  *)
(* does not write them again.                                              *)
THEOREM LossIsPermanent == Spec => TokenLossIsPermanent
<1>1. TypeOK /\ SlotsWritten /\ [Next]_vars => [TokenLost => TokenLost']_vars
  <2> SUFFICES ASSUME TypeOK, SlotsWritten, TokenLost, Next PROVE TokenLost'
    OBVIOUS
  <2> USE ProdConsAssumption DEF TypeOK, TokenLost
  <2>1. ASSUME NEW p \in Procs, ReadCount(p) PROVE TokenLost'
    <3>1. memCount # Empty
      BY DEF SlotsWritten
    <3> QED
      BY <2>1, <3>1 DEF ReadCount
  <2>2. ASSUME NEW p \in Procs, ReadAvailable(p) PROVE TokenLost'
    BY <2>2 DEF ReadAvailable
  <2>3. ASSUME NEW p \in Procs,
               WriteCount(p) \/ WriteAvailable(p) \/ AcquireSet(p) \/ Release(p)
                 \/ StoreCount(p) \/ LoadCount(p, 1) \/ LoadCount(p, -1)
                 \/ InsertItem(p) \/ RemoveItem(p)
        PROVE  FALSE
    BY <2>3 DEF WriteCount, WriteAvailable, AcquireSet, Release, StoreCount, LoadCount,
                InsertItem, RemoveItem
  <2>4. ASSUME NEW p \in Procs, AcquireTest(p) PROVE TokenLost'
    BY <2>4 DEF AcquireTest
  <2>5. ASSUME NEW p \in Procs, InsertCheck(p) \/ Produce(p) PROVE TokenLost'
    BY <2>5 DEF InsertCheck, Produce
  <2>6. ASSUME NEW p \in Procs, Consume(p) \/ RemoveCheck(p) \/ Start(p) PROVE TokenLost'
    BY <2>6 DEF Consume, RemoveCheck, Start
  <2>7. ASSUME NEW p \in Procs, Kill(p) PROVE TokenLost'
    BY <2>7 DEF Kill
  <2> QED
    BY <2>1, <2>2, <2>3, <2>4, <2>5, <2>6, <2>7
       DEF Next, Step, Construct, Mutex, Insert, Remove
<1> QED
  BY <1>1, TypeCorrect, SlotsAlwaysWritten, PTL DEF Spec, TokenLossIsPermanent

-----------------------------------------------------------------------------
(* The count. *)

LEMMA CountStaysStep ==
  ASSUME TypeOK, SlotsWritten, CountStays, [Next]_vars
  PROVE  CountStays'
<1> USE ProdConsAssumption
    DEF TypeOK, SlotsWritten, Constructed, CountStays, CountInRange, Checked
<1>1. ASSUME NEW p \in Procs, ReadCount(p) PROVE CountStays'
  BY <1>1 DEF ReadCount
<1>2. ASSUME NEW p \in Procs, ReadAvailable(p) PROVE CountStays'
  BY <1>2 DEF ReadAvailable
<1>3. ASSUME NEW p \in Procs, WriteCount(p) PROVE CountStays'
  BY <1>3 DEF WriteCount
<1>4. ASSUME NEW p \in Procs, WriteAvailable(p) PROVE CountStays'
  BY <1>4 DEF WriteAvailable
<1>5. ASSUME NEW p \in Procs, AcquireTest(p) PROVE CountStays'
  BY <1>5 DEF AcquireTest
<1>6. ASSUME NEW p \in Procs, AcquireSet(p) PROVE CountStays'
  BY <1>6 DEF AcquireSet
<1>7. ASSUME NEW p \in Procs, Release(p) PROVE CountStays'
  BY <1>7 DEF Release
<1>8. ASSUME LoadCount(producer, 1) PROVE CountStays'
  BY <1>8 DEF LoadCount
<1>9. ASSUME LoadCount(consumer, -1) PROVE CountStays'
  BY <1>9 DEF LoadCount
<1>10. ASSUME StoreCount(producer) PROVE CountStays'
  BY <1>10 DEF StoreCount
<1>11. ASSUME StoreCount(consumer) PROVE CountStays'
  BY <1>11 DEF StoreCount
<1>12. ASSUME InsertCheck(producer) PROVE CountStays'
  BY <1>12 DEF InsertCheck
<1>13. ASSUME RemoveCheck(consumer) PROVE CountStays'
  BY <1>13 DEF RemoveCheck
<1>14. ASSUME NEW p \in Procs, InsertItem(p) \/ RemoveItem(p) PROVE CountStays'
  BY <1>14 DEF InsertItem, RemoveItem
<1>15. ASSUME NEW p \in Procs, Produce(p) \/ Consume(p) PROVE CountStays'
  BY <1>15 DEF Produce, Consume
<1>16. ASSUME NEW p \in Procs, Start(p) PROVE CountStays'
  BY <1>16 DEF Start
<1>17. ASSUME NEW p \in Procs, Kill(p) PROVE CountStays'
  BY <1>17 DEF Kill
<1>18. CASE UNCHANGED vars
  BY <1>18
<1> QED
  BY <1>1, <1>2, <1>3, <1>4, <1>5, <1>6, <1>7, <1>8, <1>9, <1>10, <1>11, <1>12, <1>13,
     <1>14, <1>15, <1>16, <1>17, <1>18
     DEF Next, Step, Construct, Mutex, Insert, Remove

(* The shared count stays between 0 and the size of the buffer, with the   *)
(* deployed acquire that lets both processes in at once, and with either   *)
(* of them killed and started again at any step.  So it has one digit,     *)
(* which is what lets ProdCons take its reads and writes for single steps. *)
THEOREM CountStaysInRange == Spec => []CountInRange
<1>1. Init => CountStays
  BY ProdConsAssumption DEF Init, CountStays, CountInRange, Checked
<1>2. TypeOK /\ SlotsWritten /\ CountStays /\ [Next]_vars => CountStays'
  BY CountStaysStep
<1>3. CountStays => CountInRange
  BY DEF CountStays
<1> QED
  BY <1>1, <1>2, <1>3, TypeCorrect, SlotsAlwaysWritten, PTL DEF Spec

-----------------------------------------------------------------------------
(* Mutual exclusion, while test-and-sets do not overlap. *)

LEMMA TokenHeldStep ==
  ASSUME TypeOK, SlotsWritten, TokenHeld, Apart, Apart', [Next]_vars
  PROVE  TokenHeld'
<1> USE ProdConsAssumption
    DEF TypeOK, SlotsWritten, Constructed, TokenHeld, MutualExclusion, Apart, TestAndSet,
        InConstructor
<1>1. ASSUME NEW p \in Procs, ReadCount(p) PROVE TokenHeld'
  <2>1. /\ pc[p] = "ctor_read_count" /\ pc'[p] = "ctor_read_available"
        /\ blank'[p] => memCount = Empty
        /\ memAvailable' = memAvailable /\ memCount' = memCount
        /\ \A q \in Procs \ {p} : pc'[q] = pc[q] /\ blank'[q] = blank[q]
    BY <1>1 DEF ReadCount
  <2>2. \A q \in Procs \ {p} : pc'[q] \notin TestAndSet
    BY <2>1
  <2> QED
    BY <2>1, <2>2
<1>2. ASSUME NEW p \in Procs, ReadAvailable(p) PROVE TokenHeld'
  <2>1. /\ pc[p] = "ctor_read_available"
        /\ UNCHANGED <<memCount, memAvailable, blank>>
        /\ \A q \in Procs \ {p} : pc'[q] = pc[q]
    BY <1>2 DEF ReadAvailable
  <2>2. \A q \in Procs \ {p} : pc[q] \notin TestAndSet
    BY <2>1
  <2>3. CASE pc'[p] = "ctor_write_count"
    <3>1. memAvailable = Empty
      BY <1>2, <2>3 DEF ReadAvailable
    <3>2. \A q \in Procs : ~Constructed(q)
      BY <3>1
    <3> QED
      BY <2>1, <2>2, <2>3, <3>2
  <2>4. CASE pc'[p] = "run"
    BY <2>1, <2>2, <2>4
  <2> QED
    BY <1>2, <2>3, <2>4 DEF ReadAvailable
<1>3. ASSUME NEW p \in Procs, WriteCount(p) PROVE TokenHeld'
  BY <1>3 DEF WriteCount
<1>4. ASSUME NEW p \in Procs, WriteAvailable(p) PROVE TokenHeld'
  <2>1. /\ pc[p] = "ctor_write_available" /\ pc'[p] = "run"
        /\ \A q \in Procs \ {p} : ~Constructed(q) /\ pc'[q] = pc[q]
    BY <1>4 DEF WriteAvailable
  <2>2. \A q \in Procs \ {p} : pc[q] \notin TestAndSet
    BY <2>1
  <2> QED
    BY <2>1, <2>2
<1>5. ASSUME NEW p \in Procs, AcquireTest(p) PROVE TokenHeld'
  <2>1. /\ pc[p] = "test"
        /\ UNCHANGED <<memCount, memAvailable, blank>>
        /\ \/ pc'[p] = "set" /\ memAvailable = "true"
           \/ pc'[p] = "check"
        /\ \A q \in Procs \ {p} : pc'[q] = pc[q]
    BY <1>5 DEF AcquireTest
  <2> QED
    BY <2>1
<1>6. ASSUME NEW p \in Procs, AcquireSet(p) PROVE TokenHeld'
  BY <1>6 DEF AcquireSet
<1>7. ASSUME NEW p \in Procs, Release(p) PROVE TokenHeld'
  BY <1>7 DEF Release
<1>8. ASSUME NEW p \in Procs, NEW delta \in {-1, 1}, LoadCount(p, delta)
      PROVE  TokenHeld'
  BY <1>8 DEF LoadCount
<1>9. ASSUME NEW p \in Procs, StoreCount(p) PROVE TokenHeld'
  BY <1>9 DEF StoreCount
<1>10. ASSUME NEW p \in Procs, Harmless(p) PROVE TokenHeld'
  <2>1. /\ UNCHANGED <<memCount, memAvailable, blank>>
        /\ \A q \in Procs \ {p} : pc'[q] = pc[q]
        /\ \/ pc[p] = "run" /\ pc'[p] = "check"
           \/ pc[p] = "check" /\ pc'[p] = "test"
           \/ pc[p] = "access" /\ pc'[p] = "release"
    BY <1>10
       DEF Harmless, InsertCheck, InsertItem, Produce, Consume, RemoveCheck, RemoveItem
  <2> QED
    BY <2>1
<1>11. ASSUME NEW p \in Procs, Start(p) PROVE TokenHeld'
  BY <1>11 DEF Start
<1>12. ASSUME NEW p \in Procs, Kill(p) PROVE TokenHeld'
  <2>1. /\ pc'[p] = "off" /\ ~blank'[p] /\ memCount' = memCount
        /\ \A q \in Procs \ {p} : pc'[q] = pc[q] /\ blank'[q] = blank[q]
        /\ \/ memAvailable' = memAvailable
           \/ pc[p] \in WritesToken /\ memAvailable' = "false"
    BY <1>12 DEF Kill
  <2> QED
    BY <2>1 DEF WritesToken
<1>13. CASE UNCHANGED vars
  BY <1>13
<1> QED
  BY <1>1, <1>2, <1>3, <1>4, <1>5, <1>6, <1>7, <1>8, <1>9, <1>10, <1>11, <1>12, <1>13
     DEF Next, Step, Construct, Mutex, Insert, Remove, Harmless

LEMMA IdleTokenHeld == Idle => TokenHeld /\ NoLostUpdate
  BY DEF Idle, TokenHeld, MutualExclusion, NoLostUpdate, TestAndSet, InConstructor

(* Two processes with the token at once is the work of two test-and-sets   *)
(* that overlap, and of nothing else: as soon as both processes are        *)
(* outside at the same time, whatever came before, they exclude each other *)
(* until the next overlap, killed and started again as they may be.        *)
THEOREM ExclusionHeals == Spec => ExclusionReturns
<1>1. TokenHeld => MutualExclusion
  BY DEF TokenHeld
<1>2. TypeOK /\ SlotsWritten /\ TokenHeld /\ Apart /\ Apart' /\ [Next]_vars => TokenHeld'
  BY TokenHeldStep
<1>3. Idle => TokenHeld
  BY IdleTokenHeld
<1> QED
  BY <1>1, <1>2, <1>3, TypeCorrect, SlotsAlwaysWritten, PTL DEF Spec, ExclusionReturns

LEMMA NoLostUpdateStep ==
  ASSUME TypeOK, SlotsWritten, TokenHeld, NoLostUpdate, [Next]_vars
  PROVE  NoLostUpdate'
<1> USE ProdConsAssumption DEF TypeOK, NoLostUpdate
<1>1. ASSUME LoadCount(producer, 1) PROVE NoLostUpdate'
  BY <1>1 DEF LoadCount, TokenHeld, MutualExclusion
<1>2. ASSUME LoadCount(consumer, -1) PROVE NoLostUpdate'
  BY <1>2 DEF LoadCount, TokenHeld, MutualExclusion
<1>3. ASSUME NEW p \in Procs, StoreCount(p) PROVE NoLostUpdate'
  BY <1>3 DEF StoreCount, TokenHeld, MutualExclusion
<1>4. ASSUME NEW p \in Procs, WriteCount(p) PROVE NoLostUpdate'
  BY <1>4 DEF WriteCount, TokenHeld, Constructed
<1>5. ASSUME NEW p \in Procs, Kill(p) PROVE NoLostUpdate'
  BY <1>5 DEF Kill
<1>6. ASSUME UNCHANGED <<memCount, count>>,
             \A q \in Procs : pc'[q] = "store" => pc[q] = "store"
      PROVE  NoLostUpdate'
  BY <1>6
<1>7. ASSUME NEW p \in Procs,
             ReadCount(p) \/ ReadAvailable(p) \/ WriteAvailable(p) \/ Start(p)
      PROVE  NoLostUpdate'
  BY <1>7, <1>6 DEF ReadCount, ReadAvailable, WriteAvailable, Start
<1>8. ASSUME NEW p \in Procs, AcquireTest(p) \/ AcquireSet(p) \/ Release(p)
      PROVE  NoLostUpdate'
  BY <1>8, <1>6 DEF AcquireTest, AcquireSet, Release
<1>9. ASSUME NEW p \in Procs, Harmless(p) PROVE NoLostUpdate'
  BY <1>9, <1>6
     DEF Harmless, InsertCheck, InsertItem, Produce, Consume, RemoveCheck, RemoveItem
<1>10. CASE UNCHANGED vars
  BY <1>10
<1> QED
  BY <1>1, <1>2, <1>3, <1>4, <1>5, <1>7, <1>8, <1>9, <1>10
     DEF Next, Step, Construct, Mutex, Insert, Remove, Harmless

(* An update of the count is lost only after test-and-sets overlapped: as  *)
(* soon as both processes are outside at the same time, nobody writes the  *)
(* slot between the read and the write of an insert() or a remove() until  *)
(* the next overlap, and neither does a constructor.                       *)
THEOREM UpdatesHeal == Spec => UpdatesReturn
<1>1. TypeOK /\ SlotsWritten /\ TokenHeld /\ Apart /\ Apart' /\ [Next]_vars => TokenHeld'
  BY TokenHeldStep
<1>2. TypeOK /\ SlotsWritten /\ TokenHeld /\ NoLostUpdate /\ [Next]_vars => NoLostUpdate'
  BY NoLostUpdateStep
<1>3. Idle => TokenHeld /\ NoLostUpdate
  BY IdleTokenHeld
<1> QED
  BY <1>1, <1>2, <1>3, TypeCorrect, SlotsAlwaysWritten, PTL DEF Spec, UpdatesReturn

-----------------------------------------------------------------------------
(* Positions on a ring of n places.                                        *)

(* A position less than two rounds away from the first place.              *)
LEMMA Wrap ==
  \A n \in Nat \ {0} : \A x \in 0 .. 2 * n :
    x % n = IF x < n THEN x ELSE IF x < 2 * n THEN x - n ELSE 0
<1> TAKE n \in Nat \ {0}
<1> TAKE x \in 0 .. 2 * n
<1>1. CASE x < n
  BY <1>1
<1>2. CASE n <= x /\ x < 2 * n
  <2>1. x - n \in 0 .. n - 1 /\ x = n * 1 + (x - n)
    BY <1>2
  <2> QED
    BY <2>1, <1>2
<1>3. CASE x = 2 * n
  <2>1. x = n * 2 + 0
    BY <1>3
  <2> QED
    BY <2>1, <1>3
<1> QED
  BY <1>1, <1>2, <1>3

LEMMA PlaceWraps ==
  \A x \in 0 .. 2 * bufferSize :
    Place(x) = IF x < bufferSize THEN x ELSE IF x < 2 * bufferSize THEN x - bufferSize ELSE 0
<1>1. bufferSize \in Nat \ {0}
  BY ProdConsAssumption
<1> QED
  BY <1>1, Wrap DEF Place

(* An item put at the first free place.                                    *)
LEMMA PutOnRing ==
  ASSUME NEW o \in 0 .. bufferSize, NEW f \in 0 .. bufferSize - 1, NEW x \in Positions,
         Place(o + f) = Place(x)
  PROVE  /\ Place(o + f) = x
         /\ x \notin Places(o, f)
         /\ Places(o, f) \cup {x} = Places(o, f + 1)
         /\ Place(o + (f + 1)) = Place(x + 1)
<1> USE ProdConsAssumption, PlaceWraps
<1>1. Place(o + f) = x
  OBVIOUS
<1>2. Place(o + (f + 1)) = Place(x + 1)
  OBVIOUS
<1>3. ASSUME NEW i \in 0 .. f - 1
      PROVE  Place(o + i) # x
  BY <1>1
<1>4. 0 .. (f + 1) - 1 = 0 .. f - 1 \cup {f}
  OBVIOUS
<1>5. x \notin Places(o, f)
  BY <1>3, Zenon DEF Places
<1>6. Places(o, f) \cup {x} = Places(o, f + 1)
  <2>1. \A I, k : {Place(o + i) : i \in I} \cup {Place(o + k)} = {Place(o + i) : i \in I \cup {k}}
    OBVIOUS
  <2>2. {Place(o + i) : i \in 0 .. f - 1} \cup {Place(o + f)}
          = {Place(o + i) : i \in 0 .. f - 1 \cup {f}}
    BY <2>1, Zenon
  <2> QED
    BY <2>2, <1>1, <1>4, Zenon DEF Places
<1> QED
  BY <1>1, <1>2, <1>5, <1>6, Zenon

(* The oldest item taken away.                                             *)
LEMMA TakeFromRing ==
  ASSUME NEW x \in Positions, NEW f \in 1 .. bufferSize
  PROVE  /\ Place(x) = x
         /\ x \in Places(x, f)
         /\ Places(x, f) \ {x} = Places(x + 1, f - 1)
<1> USE ProdConsAssumption, PlaceWraps
<1>1. Place(x) = x
  OBVIOUS
<1>2. x \in Places(x, f)
  BY <1>1 DEF Places
<1>3. ASSUME NEW i \in 1 .. f - 1
      PROVE  Place(x + i) # x
  OBVIOUS
<1>4. ASSUME NEW y
      PROVE  y \in Places(x, f) \ {x} <=> y \in Places(x + 1, f - 1)
  <2>1. ASSUME y \in Places(x, f), y # x
        PROVE  y \in Places(x + 1, f - 1)
    <3>1. PICK i \in 0 .. f - 1 : y = Place(x + i)
      BY <2>1 DEF Places
    <3>2. i # 0
      BY <1>1, <2>1, <3>1
    <3>3. i - 1 \in 0 .. (f - 1) - 1 /\ y = Place((x + 1) + (i - 1))
      BY <3>1, <3>2
    <3> QED
      BY <3>3 DEF Places
  <2>2. ASSUME y \in Places(x + 1, f - 1)
        PROVE  y \in Places(x, f) /\ y # x
    <3>1. PICK i \in 0 .. (f - 1) - 1 : y = Place((x + 1) + i)
      BY <2>2 DEF Places
    <3>2. i + 1 \in 0 .. f - 1 /\ i + 1 \in 1 .. f - 1 /\ y = Place(x + (i + 1))
      BY <3>1
    <3> QED
      BY <3>2, <1>3 DEF Places
  <2> QED
    BY <2>1, <2>2
<1> QED
  BY <1>1, <1>2, <1>4

(* The position brought back into the ring.                                *)
LEMMA RoundTheRing ==
  ASSUME NEW x \in Positions, NEW f \in 0 .. bufferSize
  PROVE  /\ Place(x + 1) \in Positions
         /\ Place(Place(x + 1)) = Place(x + 1)
         /\ \A i \in 0 .. bufferSize : Place(Place(x + 1) + i) = Place((x + 1) + i)
         /\ Places(Place(x + 1), f) = Places(x + 1, f)
<1>1. PICK y \in Positions : y = Place(x + 1) /\ y = IF x + 1 < bufferSize THEN x + 1 ELSE 0
  BY ProdConsAssumption, PlaceWraps
<1>2. Place(y) = y
  BY ProdConsAssumption, PlaceWraps
<1>3. \A i \in 0 .. bufferSize : Place(y + i) = Place((x + 1) + i)
  BY <1>1, ProdConsAssumption, PlaceWraps
<1>4. Places(y, f) = Places(x + 1, f)
  <2>1. \A i \in 0 .. f - 1 : Place(y + i) = Place((x + 1) + i)
    BY <1>3, ProdConsAssumption
  <2> QED
    BY <2>1 DEF Places
<1> QED
  BY <1>1, <1>2, <1>3, <1>4

-----------------------------------------------------------------------------
(* The ring, while test-and-sets do not overlap and nobody is killed. *)

(* What is shown above of such a behaviour.                                *)
PairInv == TypeOK /\ SlotsWritten /\ TokenHeld /\ NoLostUpdate /\ CountStays

LEMMA PairInvariant == Spec /\ Undisturbed => []PairInv
<1>1. Init => CountStays /\ Idle
  BY ProdConsAssumption
     DEF Init, CountStays, CountInRange, Checked, Idle, TestAndSet, InConstructor
<1>2. TypeOK /\ SlotsWritten /\ CountStays /\ [Next]_vars => CountStays'
  BY CountStaysStep
<1>3. TypeOK /\ SlotsWritten /\ TokenHeld /\ Apart /\ Apart' /\ [Next]_vars => TokenHeld'
  BY TokenHeldStep
<1>4. TypeOK /\ SlotsWritten /\ TokenHeld /\ NoLostUpdate /\ [Next]_vars => NoLostUpdate'
  BY NoLostUpdateStep
<1> QED
  BY <1>1, <1>2, <1>3, <1>4, IdleTokenHeld, TypeCorrect, SlotsAlwaysWritten, PTL
     DEF Spec, PairInv, Undisturbed

LEMMA TwoProcesses ==
  /\ producer \in Procs /\ consumer \in Procs /\ producer # consumer
  /\ \A p \in Procs : p = producer \/ p = consumer
BY ProdConsAssumption

(* A step that writes no count and no item and moves nobody into or out of *)
(* an access or a release keeps the ring in step.                          *)
LEMMA RingUntouched ==
  ASSUME PairInv, RingInStep,
         UNCHANGED <<memCount, index, unread>>,
         \A p \in Procs : pc'[p] \in {"access", "release"} \/ pc[p] \in {"access", "release"}
                            => pc'[p] = pc[p],
         pc'[producer] \in Holding => UNCHANGED <<item, id>> /\ pc[producer] \in Holding,
         pc'[consumer] = "store" => pc[consumer] = "store" \/ memCount \notin {Empty, 0},
         ~Constructed(producer)' => ~Constructed(producer)
  PROVE  RingInStep'
<1>1. Filled' = Filled /\ Oldest' = Oldest /\ NextFree' = NextFree
  BY TwoProcesses DEF Filled, Oldest, NextFree
<1> QED
  BY <1>1, TwoProcesses DEF RingInStep

LEMMA RingStep ==
  ASSUME PairInv, RingInStep, [Next]_vars, [Survived]_vars
  PROVE  RingInStep'
<1> USE DEF PairInv, TypeOK, SlotsWritten, Constructed
<1>1. ASSUME NEW p \in Procs, ReadCount(p) \/ ReadAvailable(p) \/ WriteAvailable(p) \/ Start(p)
      PROVE  RingInStep'
  <2>1. CASE ReadCount(p)
    BY <2>1, RingUntouched, TwoProcesses DEF ReadCount, Holding
  <2>2. CASE ReadAvailable(p)
    BY <2>2, RingUntouched, TwoProcesses DEF ReadAvailable, Holding
  <2>3. CASE WriteAvailable(p)
    BY <2>3, RingUntouched, TwoProcesses DEF WriteAvailable, Holding
  <2>4. CASE Start(p)
    BY <2>4, RingUntouched, TwoProcesses DEF Start, Holding
  <2> QED
    BY <1>1, <2>1, <2>2, <2>3, <2>4
<1>2. ASSUME NEW p \in Procs, AcquireTest(p) \/ AcquireSet(p)
      PROVE  RingInStep'
  BY <1>2, RingUntouched, TwoProcesses DEF AcquireTest, AcquireSet, Holding
<1>3. ASSUME InsertCheck(producer) \/ Consume(consumer) \/ RemoveCheck(consumer)
      PROVE  RingInStep'
  BY <1>3, RingUntouched, TwoProcesses DEF InsertCheck, Consume, RemoveCheck, Holding
<1>4. ASSUME LoadCount(producer, 1)
      PROVE  RingInStep'
  BY <1>4, RingUntouched, TwoProcesses DEF LoadCount, Holding
<1>5. ASSUME LoadCount(consumer, -1)
      PROVE  RingInStep'
  BY <1>5, RingUntouched, TwoProcesses DEF LoadCount, Holding, CountStays, Checked
<1>6. CASE UNCHANGED vars
  BY <1>6, RingUntouched, TwoProcesses DEF Holding
<1>7. ASSUME NEW p \in Procs, Kill(p)
      PROVE  FALSE
  BY <1>7, TwoProcesses DEF Kill, Survived, PairInv, TypeOK
<1>8. ASSUME NEW p \in Procs, WriteCount(p)
      PROVE  RingInStep'
  <2>1. /\ ~Constructed(producer) /\ ~Constructed(consumer)
        /\ memCount \in {Empty, 0} /\ memCount' = 0
        /\ UNCHANGED <<index, unread, item, id>>
        /\ pc' = [pc EXCEPT ![p] = "ctor_write_available"]
    BY <1>8, TwoProcesses DEF WriteCount, TokenHeld, RingInStep
  <2>2. Filled' = Filled /\ Oldest' = Oldest /\ NextFree' = NextFree
    BY <2>1, TwoProcesses, ProdConsAssumption DEF Filled, Oldest, NextFree
  <2> QED
    BY <2>1, <2>2, TwoProcesses DEF RingInStep, Holding
<1>9. ASSUME Produce(producer)
      PROVE  RingInStep'
  <2>1. Filled' = Filled /\ Oldest' = Oldest /\ NextFree' = NextFree
    BY <1>9, TwoProcesses DEF Produce, Filled, Oldest, NextFree
  <2>2. item'[producer] \in Ids /\ id'[producer] = (item'[producer] + 1) % MaxId
    <3>1. PICK x \in 0 .. 2 * MaxId : x = id[producer] + 1 /\ x <= MaxId
      BY TwoProcesses, ProdConsAssumption
    <3>2. MaxId \in Nat \ {0}
      BY ProdConsAssumption
    <3>3. x % MaxId = IF x < MaxId THEN x ELSE IF x < 2 * MaxId THEN x - MaxId ELSE 0
      BY <3>2, Wrap
    <3>4. x % MaxId = IF x >= MaxId THEN 0 ELSE x
      BY <3>1, <3>2, <3>3
    <3>5. item'[producer] = id[producer] /\ id[producer] \in Ids
      BY <1>9, TwoProcesses DEF Produce
    <3>6. id'[producer] = IF x >= MaxId THEN 0 ELSE x
      BY <1>9, <3>1, TwoProcesses DEF Produce
    <3> QED
      BY <3>1, <3>4, <3>5, <3>6
  <2> QED
    BY <1>9, <2>1, <2>2, TwoProcesses DEF Produce, RingInStep
<1>10. ASSUME NEW p \in Procs, StoreCount(p)
       PROVE  RingInStep'
  <2>1. /\ memCount \in Int /\ pc[p] = "store"
        /\ memCount' = IF p = producer THEN memCount + 1 ELSE memCount - 1
        /\ UNCHANGED <<index, unread, item, id>>
        /\ pc' = [pc EXCEPT ![p] = "access"]
    BY <1>10, TwoProcesses, ProdConsAssumption DEF StoreCount, NoLostUpdate
  <2>2. Filled' = Filled /\ Oldest' = Oldest /\ NextFree' = NextFree
    BY <2>1, TwoProcesses, ProdConsAssumption DEF Filled, Oldest, NextFree
  <2> QED
    BY <2>1, <2>2, TwoProcesses DEF RingInStep, Holding
<1>11. ASSUME InsertItem(producer)
       PROVE  RingInStep'
  <2>1. /\ pc[producer] = "access" /\ pc[consumer] \notin Critical
        /\ pc' = [pc EXCEPT ![producer] = "release"]
        /\ UNCHANGED <<memCount, index, item, id>>
        /\ unread' = unread \cup {index[producer]}
    BY <1>11, TwoProcesses DEF InsertItem, TokenHeld, MutualExclusion
  <2>2. memCount \in 1 .. bufferSize /\ Filled = memCount - 1
    BY <2>1, TwoProcesses, ProdConsAssumption DEF CountStays, CountInRange, RingInStep, Filled
  <2>3. Filled' = Filled + 1 /\ Oldest' = Oldest /\ NextFree = index[producer] /\ NextFree' = NextFree + 1
    BY <2>1, <2>2, TwoProcesses, ProdConsAssumption DEF Filled, Oldest, NextFree
  <2>4. /\ Oldest \in 0 .. bufferSize /\ Filled \in 0 .. bufferSize - 1
        /\ index[producer] \in Positions
    BY <2>2, TwoProcesses, ProdConsAssumption DEF Oldest
  <2>5. Place(Oldest + Filled) = Place(index[producer])
    BY <2>3 DEF RingInStep
  <2>6. /\ Places(Oldest, Filled) \cup {index[producer]} = Places(Oldest, Filled + 1)
        /\ Place(Oldest + (Filled + 1)) = Place(index[producer] + 1)
    BY <2>4, <2>5, PutOnRing
  <2>7. unread' = Places(Oldest', Filled') /\ Place(Oldest' + Filled') = Place(NextFree')
    BY <2>1, <2>3, <2>6 DEF RingInStep
  <2> QED
    BY <2>1, <2>2, <2>3, <2>7, TwoProcesses DEF RingInStep, Holding
<1>12. ASSUME RemoveItem(consumer)
       PROVE  RingInStep'
  <2>1. /\ pc[consumer] = "access" /\ pc[producer] \notin Critical
        /\ Constructed(producer)
        /\ pc' = [pc EXCEPT ![consumer] = "release"]
        /\ UNCHANGED <<memCount, index, id>>
        /\ item'[producer] = item[producer]
        /\ unread' = unread \ {index[consumer]}
    BY <1>12, TwoProcesses DEF RemoveItem, TokenHeld, MutualExclusion, RingInStep
  <2>2. memCount \in 0 .. bufferSize - 1 /\ Filled = memCount + 1
    BY <2>1, TwoProcesses, ProdConsAssumption DEF CountStays, CountInRange, RingInStep, Filled
  <2>3. Filled' = Filled - 1 /\ Oldest = index[consumer] /\ Oldest' = Oldest + 1 /\ NextFree' = NextFree
    BY <2>1, <2>2, TwoProcesses, ProdConsAssumption DEF Filled, Oldest, NextFree
  <2>4. Filled \in 1 .. bufferSize /\ Oldest \in Positions
    BY <2>2, <2>3, TwoProcesses, ProdConsAssumption
  <2>5. Places(Oldest, Filled) \ {Oldest} = Places(Oldest + 1, Filled - 1)
    BY <2>4, TakeFromRing
  <2>6. unread' = Places(Oldest', Filled')
    BY <2>1, <2>3, <2>5 DEF RingInStep
  <2>7. (Oldest + 1) + (Filled - 1) = Oldest + Filled
    BY <2>4
  <2>8. Place(Oldest' + Filled') = Place(NextFree')
    BY <2>3, <2>7 DEF RingInStep
  <2>9. Filled' \in 0 .. bufferSize
    BY <2>2, <2>3, ProdConsAssumption
  <2>10. pc'[producer] = pc[producer]
    BY <2>1, TwoProcesses
  <2> QED
    BY <2>1, <2>6, <2>8, <2>9, <2>10 DEF RingInStep, Holding
<1>13. ASSUME NEW p \in Procs, Release(p)
       PROVE  RingInStep'
  <2>1. /\ pc[p] = "release" /\ pc' = [pc EXCEPT ![p] = "run"]
        /\ UNCHANGED <<memCount, id, item, unread>>
        /\ index[p] \in Positions
        /\ index' = [index EXCEPT ![p] = Place(index[p] + 1)]
    BY <1>13 DEF Release, Place
  <2>2. Filled' = Filled /\ Filled \in 0 .. bufferSize
    BY <2>1, TwoProcesses DEF Filled, RingInStep
  <2>3. Place(Oldest' + Filled') = Place(NextFree') /\ unread' = Places(Oldest', Filled')
    <3>1. CASE p = producer
      <4>1. /\ Oldest' = Oldest /\ NextFree = index[p] + 1
            /\ NextFree' = Place(index[p] + 1)
        <5>1. Place(index[p] + 1) \in Positions
          BY <2>1, <2>2, RoundTheRing
        <5> QED
          BY <2>1, <3>1, <5>1, TwoProcesses DEF Oldest, NextFree
      <4>2. Place(NextFree') = Place(NextFree)
        BY <2>1, <2>2, <4>1, RoundTheRing
      <4> QED
        BY <2>1, <2>2, <4>1, <4>2 DEF RingInStep
    <3>2. CASE p = consumer
      <4>1. /\ NextFree' = NextFree /\ Oldest = index[p] + 1
            /\ Oldest' = Place(index[p] + 1)
        <5>1. Place(index[p] + 1) \in Positions
          BY <2>1, <2>2, RoundTheRing
        <5> QED
          BY <2>1, <3>2, <5>1, TwoProcesses DEF Oldest, NextFree
      <4>2. /\ Place(Oldest' + Filled) = Place(Oldest + Filled)
            /\ Places(Oldest', Filled) = Places(Oldest, Filled)
        BY <2>1, <2>2, <4>1, RoundTheRing
      <4> QED
        BY <2>1, <2>2, <4>1, <4>2 DEF RingInStep
    <3> QED
      BY <3>1, <3>2, TwoProcesses
  <2> QED
    BY <2>1, <2>2, <2>3, TwoProcesses DEF RingInStep, Holding
<1> QED
  BY <1>1, <1>2, <1>3, <1>4, <1>5, <1>6, <1>7, <1>8, <1>9, <1>10, <1>11, <1>12, <1>13, TwoProcesses
     DEF Next, Step, Construct, Mutex, Insert, Remove

LEMMA RingAlwaysInStep == Spec /\ Undisturbed => []RingInStep
<1>1. Init => RingInStep
  <2> SUFFICES ASSUME Init PROVE RingInStep
    OBVIOUS
  <2>1. Filled = 0 /\ Oldest = 0 /\ NextFree = 0
    BY TwoProcesses DEF Init, Filled, Oldest, NextFree
  <2>2. Places(0, 0) = {}
    BY DEF Places
  <2> QED
    BY <2>1, <2>2, TwoProcesses, ProdConsAssumption DEF Init, RingInStep, Holding, Constructed
<1>2. PairInv /\ RingInStep /\ [Next]_vars /\ [Survived]_vars => RingInStep'
  BY RingStep
<1> QED
  BY <1>1, <1>2, PairInvariant, PTL DEF Spec, Undisturbed

(* An item is overwritten only after an overlap or a kill: otherwise the   *)
(* producer's position is free when it writes, at every size of the ring   *)
(* and also when the consumer's update of the count came between its own   *)
(* test and its update.                                                    *)
THEOREM InsertsWhereFree == Spec /\ Undisturbed => []NextPositionFree
<1>1. PairInv /\ RingInStep => NextPositionFree
  <2> SUFFICES ASSUME PairInv, RingInStep, pc[producer] = "access"
               PROVE  index[producer] \notin unread
    BY TwoProcesses DEF NextPositionFree
  <2> USE DEF PairInv, TypeOK
  <2>1. pc[consumer] # "access" /\ pc[consumer] # "release"
    BY TwoProcesses DEF TokenHeld, MutualExclusion
  <2>2. memCount \in 1 .. bufferSize /\ Filled = memCount - 1 /\ NextFree = index[producer]
    BY <2>1, TwoProcesses, ProdConsAssumption
       DEF SlotsWritten, Constructed, CountStays, CountInRange, RingInStep, Filled, NextFree
  <2>3. /\ Oldest \in 0 .. bufferSize /\ Filled \in 0 .. bufferSize - 1
        /\ index[producer] \in Positions
    BY <2>2, TwoProcesses, ProdConsAssumption DEF Oldest
  <2> QED
    BY <2>2, <2>3, PutOnRing DEF RingInStep
<1> QED
  BY <1>1, PairInvariant, RingAlwaysInStep, PTL

(* Only after an overlap or a kill remove() delivers a place twice, or one *)
(* never written: otherwise the consumer's position holds an item not      *)
(* removed yet when it reads.                                              *)
THEOREM RemovesWhereFull == Spec /\ Undisturbed => []NextPositionFull
<1>1. PairInv /\ RingInStep => NextPositionFull
  <2> SUFFICES ASSUME PairInv, RingInStep, pc[consumer] = "access"
               PROVE  index[consumer] \in unread
    BY TwoProcesses DEF NextPositionFull
  <2> USE DEF PairInv, TypeOK
  <2>1. pc[producer] # "access"
    BY TwoProcesses DEF TokenHeld, MutualExclusion
  <2>2. Filled \in 1 .. bufferSize /\ Oldest = index[consumer] /\ Oldest \in Positions
    BY <2>1, TwoProcesses, ProdConsAssumption
       DEF SlotsWritten, Constructed, CountStays, CountInRange, RingInStep, Filled, Oldest
  <2> QED
    BY <2>2, TakeFromRing DEF RingInStep
<1> QED
  BY <1>1, PairInvariant, RingAlwaysInStep, PTL

-----------------------------------------------------------------------------
(* The refinement of Buffer. *)

Values == Ids \cup {Empty}

LEMMA ItemsAreASequence ==
  ASSUME NEW m \in [Positions -> Values], NEW o \in 0 .. bufferSize, NEW f \in 0 .. bufferSize
  PROVE  /\ Items(m, o, f) \in Seq(Values)
         /\ Len(Items(m, o, f)) = f
         /\ \A i \in 1 .. f : Items(m, o, f)[i] = m[Place(o + (i - 1))]
<1>1. ASSUME NEW i \in 1 .. f
      PROVE  m[Place(o + (i - 1))] \in Values
  <2>1. Place(o + (i - 1)) \in Positions
    BY PlaceWraps, ProdConsAssumption
  <2> QED
    BY <2>1
<1>2. Items(m, o, f) \in [1 .. f -> Values]
  BY <1>1 DEF Items
<1>3. f \in Nat
  BY ProdConsAssumption
<1>4. Items(m, o, f) \in Seq(Values)
  BY <1>2, <1>3, SeqDef
<1>5. Len(Items(m, o, f)) = f
  BY <1>2, <1>3, <1>4, LenProperties
<1> QED
  BY <1>4, <1>5 DEF Items

(* insert() takes effect when it writes the item.                          *)
LEMMA InsertImplements ==
  ASSUME PairInv, RingInStep, InsertItem(producer)
  PROVE  Fifo!Insert
<1> USE DEF PairInv, TypeOK
<1>1. /\ pc[producer] = "access" /\ pc[consumer] \notin Critical
      /\ pc' = [pc EXCEPT ![producer] = "release"]
      /\ UNCHANGED <<memCount, index, item, id>>
      /\ memItems' = [memItems EXCEPT ![index[producer]] = item[producer]]
  BY TwoProcesses DEF InsertItem, TokenHeld, MutualExclusion
<1>2. memCount \in 1 .. bufferSize /\ Filled = memCount - 1
  BY <1>1, TwoProcesses, ProdConsAssumption
     DEF SlotsWritten, Constructed, CountStays, CountInRange, RingInStep, Filled
<1>3. Filled' = Filled + 1 /\ Oldest' = Oldest /\ NextFree = index[producer]
  BY <1>1, <1>2, TwoProcesses, ProdConsAssumption DEF Filled, Oldest, NextFree
<1>4. /\ Oldest \in 0 .. bufferSize /\ Filled \in 0 .. bufferSize - 1
      /\ index[producer] \in Positions
      /\ Filled \in 0 .. bufferSize /\ Filled + 1 \in 0 .. bufferSize /\ Filled \in Int
  BY <1>2, TwoProcesses, ProdConsAssumption DEF Oldest
<1>5. Place(Oldest + Filled) = index[producer] /\ index[producer] \notin Places(Oldest, Filled)
  BY <1>3, <1>4, PutOnRing DEF RingInStep
<1>6. item[producer] \in Values
  BY TwoProcesses DEF Values
<1>7. memItems \in [Positions -> Values] /\ memItems' \in [Positions -> Values]
  BY <1>1, <1>4, <1>6 DEF Values
<1> DEFINE q == Items(memItems, Oldest, Filled)
           r == Items(memItems', Oldest, Filled + 1)
<1>8. /\ q \in Seq(Values) /\ Len(q) = Filled
      /\ \A i \in 1 .. Filled : q[i] = memItems[Place(Oldest + (i - 1))]
  BY <1>4, <1>7, ItemsAreASequence
<1>9. /\ r \in Seq(Values) /\ Len(r) = Filled + 1
      /\ \A i \in 1 .. Filled + 1 : r[i] = memItems'[Place(Oldest + (i - 1))]
  BY <1>4, <1>7, ItemsAreASequence
<1> HIDE DEF q, r
<1>10. r[Filled + 1] = item[producer]
  <2>1. Filled + 1 \in 1 .. Filled + 1 /\ Oldest + ((Filled + 1) - 1) = Oldest + Filled
    BY <1>4
  <2>2. r[Filled + 1] = memItems'[Place(Oldest + Filled)]
    BY <1>9, <2>1
  <2> QED
    BY <1>1, <1>4, <1>5, <1>7, <2>2
<1>11. ASSUME NEW i \in 1 .. Filled
       PROVE  r[i] = q[i]
  <2>1. i - 1 \in 0 .. Filled - 1 /\ i \in 1 .. Filled + 1
    BY <1>4
  <2>2. Place(Oldest + (i - 1)) \in Places(Oldest, Filled)
    BY <2>1 DEF Places
  <2>3. /\ r[i] = memItems'[Place(Oldest + (i - 1))]
        /\ q[i] = memItems[Place(Oldest + (i - 1))]
    BY <1>8, <1>9, <2>1
  <2>4. Place(Oldest + (i - 1)) # index[producer]
    BY <1>5, <2>2
  <2> QED
    BY <1>1, <1>7, <2>3, <2>4
<1>12. r = Append(q, item[producer])
  <2> DEFINE a == Append(q, item[producer])
  <2>1. /\ a \in Seq(Values) /\ Len(a) = Filled + 1
        /\ \A i \in 1 .. Filled : a[i] = q[i]
        /\ a[Filled + 1] = item[producer]
    <3>1. q \in Seq(Values) /\ Len(q) = Filled
      BY <1>8
    <3>2. /\ a \in Seq(Values) /\ Len(a) = Len(q) + 1
          /\ \A i \in 1 .. Len(q) : a[i] = q[i]
          /\ a[Len(q) + 1] = item[producer]
      BY <1>6, <3>1, AppendProperties
    <3> QED
      BY <3>1, <3>2
  <2> HIDE DEF a
  <2>2. \A i \in 1 .. Filled + 1 : r[i] = a[i]
    <3> SUFFICES ASSUME NEW i \in 1 .. Filled + 1 PROVE r[i] = a[i]
      OBVIOUS
    <3>1. CASE i = Filled + 1
      BY <1>10, <2>1, <3>1
    <3>2. CASE i # Filled + 1
      <4>1. i \in 1 .. Filled
        BY <1>4, <3>2
      <4> QED
        BY <1>11, <2>1, <4>1
    <3> QED
      BY <3>1, <3>2
  <2> QED
    BY <1>9, <2>1, <2>2, SeqEqual DEF a
<1>13. Upcoming = item[producer] /\ Upcoming' = id[producer] /\ id[producer] = (item[producer] + 1) % MaxId
  BY <1>1, TwoProcesses DEF Upcoming, RingInStep, Holding
<1>14. Items(memItems, Oldest, Filled)' = r
  BY <1>3 DEF r, Items
<1>15. Len(Items(memItems, Oldest, Filled)) < bufferSize
  BY <1>4, <1>8, ProdConsAssumption DEF q
<1>16. item'[consumer] = item[consumer]
  BY <1>1
<1> QED
  BY <1>12, <1>13, <1>14, <1>15, <1>16 DEF Fifo!Insert, q

(* remove() takes effect when it reads the item.                           *)
LEMMA RemoveImplements ==
  ASSUME PairInv, RingInStep, RemoveItem(consumer)
  PROVE  Fifo!Remove
<1> USE DEF PairInv, TypeOK
<1>1. /\ pc[consumer] = "access" /\ pc[producer] \notin Critical
      /\ pc' = [pc EXCEPT ![consumer] = "release"]
      /\ UNCHANGED <<memCount, memItems, index, id>>
      /\ item' = [item EXCEPT ![consumer] = memItems[index[consumer]]]
  BY TwoProcesses DEF RemoveItem, TokenHeld, MutualExclusion
<1>2. memCount \in 0 .. bufferSize - 1 /\ Filled = memCount + 1
  BY <1>1, TwoProcesses, ProdConsAssumption
     DEF SlotsWritten, Constructed, CountStays, CountInRange, RingInStep, Filled
<1>3. Filled' = Filled - 1 /\ Oldest = index[consumer] /\ Oldest' = Oldest + 1
  BY <1>1, <1>2, TwoProcesses, ProdConsAssumption DEF Filled, Oldest
<1>4. /\ Filled \in 1 .. bufferSize /\ Filled \in 0 .. bufferSize /\ Filled - 1 \in 0 .. bufferSize
      /\ Oldest \in Positions /\ Oldest \in 0 .. bufferSize /\ Oldest + 1 \in 0 .. bufferSize
  BY <1>2, <1>3, TwoProcesses, ProdConsAssumption
<1>5. Place(Oldest) = Oldest
  BY <1>4, TakeFromRing
<1>6. memItems \in [Positions -> Values]
  BY DEF Values
<1> DEFINE q == Items(memItems, Oldest, Filled)
           r == Items(memItems, Oldest + 1, Filled - 1)
<1>7. /\ q \in Seq(Values) /\ Len(q) = Filled
      /\ \A i \in 1 .. Filled : q[i] = memItems[Place(Oldest + (i - 1))]
  BY <1>4, <1>6, ItemsAreASequence
<1>8. /\ r \in Seq(Values) /\ Len(r) = Filled - 1
      /\ \A i \in 1 .. Filled - 1 : r[i] = memItems[Place((Oldest + 1) + (i - 1))]
  BY <1>4, <1>6, ItemsAreASequence
<1> HIDE DEF q, r
<1>9. q # << >> /\ Head(q) = memItems[index[consumer]]
  <2>1. 1 \in 1 .. Filled /\ Oldest + (1 - 1) = Oldest
    BY <1>4
  <2>2. q[1] = memItems[Oldest]
    BY <1>5, <1>7, <2>1
  <2>3. q # << >>
    BY <1>4, <1>7, EmptySeq
  <2> QED
    BY <1>3, <2>2, <2>3, <1>7
<1>10. r = Tail(q)
  <2> DEFINE t == Tail(q)
  <2>1. t \in Seq(Values) /\ Len(t) = Filled - 1 /\ \A i \in 1 .. Filled - 1 : t[i] = q[i + 1]
    BY <1>7, <1>9, HeadTailProperties
  <2> HIDE DEF t
  <2>2. ASSUME NEW i \in 1 .. Filled - 1
        PROVE  t[i] = r[i]
    <3>1. i + 1 \in 1 .. Filled /\ Oldest + ((i + 1) - 1) = (Oldest + 1) + (i - 1)
      BY <1>4
    <3> QED
      BY <1>7, <1>8, <2>1, <3>1
  <2> QED
    BY <1>8, <2>1, <2>2, SeqEqual DEF t
<1>11. Items(memItems, Oldest, Filled)' = r
  BY <1>1, <1>3 DEF r, Items
<1>12. Upcoming' = Upcoming /\ item'[consumer] = memItems[index[consumer]]
  BY <1>1, TwoProcesses DEF Upcoming
<1> QED
  BY <1>9, <1>10, <1>11, <1>12 DEF Fifo!Remove, q

(* A step that neither writes an item nor reads one is a stutter.          *)
LEMMA QueueUntouched ==
  ASSUME UNCHANGED <<memItems, Filled, Oldest, Upcoming, item[consumer]>>
  PROVE  UNCHANGED Fifo!bvars
<1>1. Items(memItems, Oldest, Filled)' = Items(memItems, Oldest, Filled)
  BY DEF Items
<1> QED
  BY <1>1 DEF Fifo!bvars

(* A process that put the token back moves to the next position, which is  *)
(* where the queue already ended or began.                                 *)
LEMMA ReleaseImplements ==
  ASSUME PairInv, RingInStep, NEW p \in Procs, Release(p)
  PROVE  UNCHANGED Fifo!bvars
<1> USE DEF PairInv, TypeOK
<1>1. /\ pc[p] = "release" /\ pc' = [pc EXCEPT ![p] = "run"]
      /\ UNCHANGED <<memCount, memItems, id, item>>
      /\ index[p] \in Positions
      /\ index' = [index EXCEPT ![p] = Place(index[p] + 1)]
  BY DEF Release, Place
<1>2. Filled' = Filled /\ Filled \in 0 .. bufferSize /\ Upcoming' = Upcoming
  BY <1>1, TwoProcesses DEF Filled, RingInStep, Upcoming
<1>3. CASE p = producer
  <2>1. Oldest' = Oldest
    BY <1>1, <1>3, TwoProcesses DEF Oldest
  <2> QED
    BY <1>1, <1>2, <2>1, QueueUntouched
<1>4. CASE p = consumer
  <2>1. Place(index[p] + 1) \in Positions
    BY <1>1, <1>2, RoundTheRing
  <2>2. Oldest = index[p] + 1 /\ Oldest' = Place(index[p] + 1)
    BY <1>1, <1>4, <2>1, TwoProcesses DEF Oldest
  <2>3. ASSUME NEW i \in 1 .. Filled
        PROVE  Place(Oldest' + (i - 1)) = Place(Oldest + (i - 1))
    <3>1. i - 1 \in 0 .. bufferSize
      BY <1>2, ProdConsAssumption, SMTT(30)
    <3>2. \A k \in 0 .. bufferSize : Place(Oldest' + k) = Place(Oldest + k)
      BY <1>1, <1>2, <2>2, RoundTheRing
    <3> QED
      BY <3>1, <3>2
  <2>4. Items(memItems, Oldest, Filled)' = Items(memItems, Oldest, Filled)
    BY <1>1, <1>2, <2>3 DEF Items
  <2> QED
    BY <1>1, <1>2, <2>4 DEF Fifo!bvars
<1> QED
  BY <1>3, <1>4, TwoProcesses

LEMMA StepImplements ==
  ASSUME PairInv, RingInStep, [Next]_vars, [Survived]_vars
  PROVE  [Fifo!Next]_(Fifo!bvars)
<1> USE DEF PairInv, TypeOK, SlotsWritten, Constructed
<1>1. ASSUME NEW p \in Procs, ReadCount(p) \/ ReadAvailable(p) \/ WriteAvailable(p) \/ Start(p)
      PROVE  UNCHANGED Fifo!bvars
  <2>1. /\ UNCHANGED <<memCount, memItems, index, id, item>>
        /\ pc[p] \in Constructing \cup {"off"} /\ pc'[p] \in Constructing \cup {"run"}
        /\ \A q \in Procs \ {p} : pc'[q] = pc[q]
    BY <1>1 DEF ReadCount, ReadAvailable, WriteAvailable, Start
  <2>2. UNCHANGED <<Filled, Oldest, Upcoming>>
    BY <2>1, TwoProcesses DEF Filled, Oldest, Upcoming
  <2> QED
    BY <2>1, <2>2, QueueUntouched
<1>2. ASSUME NEW p \in Procs, WriteCount(p)
      PROVE  UNCHANGED Fifo!bvars
  <2>1. /\ ~Constructed(producer) /\ ~Constructed(consumer)
        /\ memCount \in {Empty, 0} /\ memCount' = 0
        /\ UNCHANGED <<memItems, index, item, id>>
        /\ pc' = [pc EXCEPT ![p] = "ctor_write_available"]
    BY <1>2, TwoProcesses DEF WriteCount, TokenHeld, RingInStep
  <2>2. UNCHANGED <<Filled, Oldest, Upcoming>>
    BY <2>1, TwoProcesses, ProdConsAssumption DEF Filled, Oldest, Upcoming
  <2> QED
    BY <2>1, <2>2, QueueUntouched
<1>3. ASSUME NEW p \in Procs,
             AcquireTest(p) \/ AcquireSet(p) \/ (\E delta \in {-1, 1} : LoadCount(p, delta))
               \/ InsertCheck(p) \/ (p = consumer /\ (Consume(p) \/ RemoveCheck(p)))
      PROVE  UNCHANGED Fifo!bvars
  <2>1. /\ UNCHANGED <<memCount, memItems, index, id, item>>
        /\ {pc[p], pc'[p]} \cap {"access", "release"} = {}
        /\ p = producer => {pc[p], pc'[p]} \subseteq Holding
        /\ \A q \in Procs \ {p} : pc'[q] = pc[q]
    BY <1>3, TwoProcesses
       DEF AcquireTest, AcquireSet, LoadCount, InsertCheck, Consume, RemoveCheck, Holding
  <2>2. UNCHANGED <<Filled, Oldest, Upcoming>>
    BY <2>1, TwoProcesses DEF Filled, Oldest, Upcoming, Holding
  <2> QED
    BY <2>1, <2>2, QueueUntouched
<1>4. ASSUME NEW p \in Procs, StoreCount(p)
      PROVE  UNCHANGED Fifo!bvars
  <2>1. /\ memCount \in Int /\ pc[p] = "store"
        /\ memCount' = IF p = producer THEN memCount + 1 ELSE memCount - 1
        /\ UNCHANGED <<memItems, index, item, id>>
        /\ pc' = [pc EXCEPT ![p] = "access"]
    BY <1>4, TwoProcesses, ProdConsAssumption DEF StoreCount, NoLostUpdate
  <2>2. UNCHANGED <<Filled, Oldest, Upcoming>>
    BY <2>1, TwoProcesses, ProdConsAssumption DEF Filled, Oldest, Upcoming
  <2> QED
    BY <2>1, <2>2, QueueUntouched
<1>5. ASSUME Produce(producer)
      PROVE  UNCHANGED Fifo!bvars
  <2>1. /\ UNCHANGED <<memCount, memItems, index, item[consumer]>>
        /\ item'[producer] = id[producer] /\ pc[producer] = "run"
        /\ pc' = [pc EXCEPT ![producer] = "check"]
    BY <1>5, TwoProcesses DEF Produce
  <2>2. UNCHANGED <<Filled, Oldest, Upcoming>>
    BY <2>1, TwoProcesses DEF Filled, Oldest, Upcoming
  <2> QED
    BY <2>1, <2>2, QueueUntouched
<1>6. ASSUME NEW p \in Procs, Kill(p)
      PROVE  FALSE
  BY <1>6, TwoProcesses DEF Kill, Survived, PairInv, TypeOK
<1>7. CASE UNCHANGED vars
  <2>1. UNCHANGED <<Filled, Oldest, Upcoming>>
    BY <1>7 DEF Filled, Oldest, Upcoming
  <2> QED
    BY <1>7, <2>1, QueueUntouched
<1>8. ASSUME NEW p \in Procs, Release(p)
      PROVE  UNCHANGED Fifo!bvars
  BY <1>8, ReleaseImplements
<1> QED
  BY <1>1, <1>2, <1>3, <1>4, <1>5, <1>6, <1>7, <1>8,
     InsertImplements, RemoveImplements, TwoProcesses
     DEF Next, Step, Construct, Mutex, Insert, Remove, Fifo!Next

(* A behaviour of the program in which test-and-sets never overlap and     *)
(* nobody is killed is one of the first-in first-out queue that the        *)
(* interface Buffer promises, for every length of the ring and every range *)
(* of ids: each insert() and remove() of BoundedBuffer takes effect in one *)
(* step.                                                                   *)
THEOREM BufferImplemented == Spec /\ Undisturbed => ImplementsBuffer
<1>1. Init => Fifo!Init
  <2> SUFFICES ASSUME Init PROVE Fifo!Init
    OBVIOUS
  <2>1. Filled = 0 /\ Oldest = 0 /\ Upcoming = 0 /\ item[consumer] = Empty
    BY TwoProcesses DEF Init, Filled, Oldest, Upcoming
  <2>2. Items(memItems, 0, 0) = << >>
    BY DEF Items
  <2> QED
    BY <2>1, <2>2 DEF Fifo!Init
<1>2. PairInv /\ RingInStep /\ [Next]_vars /\ [Survived]_vars => [Fifo!Next]_(Fifo!bvars)
  BY StepImplements
<1> QED
  BY <1>1, <1>2, PairInvariant, RingAlwaysInStep, PTL DEF Spec, Undisturbed, ImplementsBuffer, Fifo!Spec
=============================================================================
