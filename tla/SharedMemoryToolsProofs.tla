---------------------- MODULE SharedMemoryToolsProofs ----------------------
(***************************************************************************)
(* Proofs about SharedMemoryTools, for every number of readers and writers *)
(* that are started, killed and started over at any time.                  *)
(***************************************************************************)
EXTENDS SharedMemoryToolsInvariants, SharedMemoryProofs

USE DEF Users, calls, history, vars, Leave, toolVars

LEMMA SlotsAndTexts ==
  /\ size = 5 /\ maxsize = 5 /\ Slots = 0 .. 4
  /\ \A i \in Slots : /\ Strings[i] = {text(i)} /\ text(i) \in Text /\ Len(text(i)) \in 1 .. 5
                      /\ Known(i) = {text(i), << >>}
<1>1. size = 5 /\ maxsize = 5 /\ Slots = 0 .. 4
  BY ToolsAssumption DEF Slots
<1>2. ASSUME NEW i \in Slots
      PROVE  Strings[i] = {text(i)} /\ text(i) \in Text /\ Len(text(i)) \in 1 .. 5
  <2>1. Strings[i] = {text(i)}
    BY <1>1, ToolsAssumption DEF ToolStrings, text
  <2>2. text(i) \in Text
    BY <2>1, SharedMemoryAssumption DEF Text
  <2>3. i = 0 \/ i = 1 \/ i = 2 \/ i = 3 \/ i = 4
    BY <1>1
  <2>4. Len(text(i)) \in 1 .. 5
    BY <2>3 DEF text, buffer
  <2> QED
    BY <2>1, <2>2, <2>4
<1>3. ASSUME NEW i \in Slots
      PROVE  Known(i) = {text(i), << >>}
  <2>1. Fitting(text(i)) = text(i)
    <3>1. SubSeq(text(i), 1, Len(text(i))) = text(i)
      BY <1>2, SubSeqFull DEF Text
    <3>2. Len(text(i)) <= maxsize
      <4>1. Len(text(i)) \in 1 .. 5
        BY <1>2
      <4>2. \A l \in 1 .. 5 : l <= maxsize
        BY <1>1
      <4> QED
        BY <4>1, <4>2
    <3> QED
      BY <3>1, <3>2 DEF Fitting
  <2> QED
    BY <1>2, <2>1 DEF Known
<1> QED
  BY <1>1, <1>2, <1>3

-----------------------------------------------------------------------------
(* The tools make the steps of the library.                                *)

LEMMA InitAtPlace ==
  ToolsInit => AtPlace
<1> QED
  BY DEF ToolsInit, Init, AtPlace

LEMMA ToolsStepIsStep ==
  AtPlace /\ [ToolsNext]_toolVars => [Next]_vars
<1> SUFFICES ASSUME AtPlace, ToolsNext \/ UNCHANGED toolVars PROVE Next \/ UNCHANGED vars
  OBVIOUS
<1>1. CASE UNCHANGED toolVars \/ alloc \/ displaySharedMemory
  BY <1>1 DEF alloc, displaySharedMemory
<1>2. CASE KeyPressed
  BY <1>2 DEF KeyPressed, Next
<1>3. ASSUME NEW u \in Users, StartTool(u)
      PROVE  UNCHANGED vars
  BY <1>3 DEF StartTool
<1>4. ASSUME NEW u \in Users, NextCall(u)
      PROVE  Next
  <2>1. place[u] \in Slots
    BY <1>4, SlotsAndTexts DEF NextCall, Running, AtPlace
  <2> QED
    BY <1>4, <2>1 DEF NextCall, Next, Call
<1>5. ASSUME NEW u \in Users, InsideCall(u) \/ CallReturns(u)
      PROVE  Next
  BY <1>5 DEF InsideCall, CallReturns, Next, Continue
<1>6. ASSUME NEW u \in Users, KillTool(u)
      PROVE  Next \/ UNCHANGED vars
  BY <1>6 DEF KillTool, Next
<1> QED
  BY <1>1, <1>2, <1>3, <1>4, <1>5, <1>6 DEF ToolsNext, Tool

LEMMA AtPlaceStep ==
  CallsInSlot /\ AtPlace /\ [ToolsNext]_toolVars => AtPlace'
<1> SUFFICES ASSUME CallsInSlot, AtPlace, ToolsNext \/ UNCHANGED toolVars PROVE AtPlace'
  OBVIOUS
<1>t. /\ pc \in [Users -> {"idle", "write", "read", "copy", "returned", "crashed"}]
      /\ pos \in [Users -> Slots] /\ place \in [Users -> 0 .. 5]
      /\ \A u \in Users :
           /\ pc[u] \in {"write", "read", "copy", "returned"} => pos[u] = place[u] /\ pos[u] \in 0 .. 4
           /\ pc[u] \in {"read", "copy", "returned"} => u \in Readers
  BY SlotsAndTexts DEF CallsInSlot, TypeOK, AtPlace
<1>1. CASE UNCHANGED toolVars \/ alloc \/ displaySharedMemory \/ KeyPressed
  BY <1>1, <1>t DEF alloc, displaySharedMemory, KeyPressed, Free, AtPlace
<1>2. ASSUME NEW u \in Users, StartTool(u)
      PROVE  AtPlace'
  BY <1>2, <1>t DEF StartTool, AtPlace
<1>3. ASSUME NEW u \in Users, NextCall(u)
      PROVE  AtPlace'
  BY <1>3, <1>t DEF NextCall, Running, BeginRead, BeginWrite, Crash, AtPlace
<1>4. ASSUME NEW u \in Users, InsideCall(u)
      PROVE  AtPlace'
  BY <1>4, <1>t DEF InsideCall, WriteByte, TestByte, CopyByte, EndRead, AtPlace
<1>5. ASSUME NEW u \in Users, CallReturns(u)
      PROVE  AtPlace'
  BY <1>5, <1>t DEF CallReturns, EndWrite, Return, AtPlace
<1>6. ASSUME NEW u \in Users, KillTool(u)
      PROVE  AtPlace'
  BY <1>6, <1>t DEF KillTool, Kill, AtPlace
<1> QED
  BY <1>1, <1>2, <1>3, <1>4, <1>5, <1>6 DEF ToolsNext, Tool

LEMMA ToolsKeepTheLibrary ==
  ToolsSpec => [](AtPlace /\ CallsInSlot /\ HistoryKept /\ BytesAccountedFor /\ OneStringSoFar
                  /\ FirstByteOffered)
<1>1. ToolsInit => /\ AtPlace /\ CallsInSlot /\ HistoryKept /\ BytesAccountedFor /\ OneStringSoFar
                   /\ FirstByteOffered
  <2>1. Init => FirstByteOffered
    BY DEF Init, FirstByteOffered
  <2> QED
    BY <2>1, InitAtPlace, InitInSlot, InitHistory, InitBytes, InitOneString DEF ToolsInit
<1>2. /\ AtPlace /\ CallsInSlot /\ HistoryKept /\ BytesAccountedFor /\ OneStringSoFar
      /\ FirstByteOffered /\ [ToolsNext]_toolVars
      => (AtPlace /\ CallsInSlot /\ HistoryKept /\ BytesAccountedFor /\ OneStringSoFar
          /\ FirstByteOffered)'
  <2> SUFFICES ASSUME AtPlace, CallsInSlot, HistoryKept, BytesAccountedFor, OneStringSoFar,
                      FirstByteOffered, [ToolsNext]_toolVars
               PROVE  /\ AtPlace' /\ CallsInSlot' /\ HistoryKept' /\ BytesAccountedFor'
                      /\ OneStringSoFar' /\ FirstByteOffered'
    OBVIOUS
  <2>1. [Next]_vars
    BY ToolsStepIsStep
  <2>2. AtPlace' /\ CallsInSlot' /\ HistoryKept' /\ BytesAccountedFor'
    BY <2>1, AtPlaceStep, InSlotStep, HistoryStep, BytesStep
  <2>3. OneStringSoFar' /\ FirstByteOffered'
    BY <2>1, <2>2, OneStringStep, FirstByteStep
  <2> QED
    BY <2>2, <2>3
<1> QED
  BY <1>1, <1>2, PTL DEF ToolsSpec

-----------------------------------------------------------------------------
(* The slots fill with the text, in order.                                 *)

(* Whatever a writer stores at byte j of its slot is byte j of the text.   *)
LEMMA TextIsStored ==
  ASSUME CallsInSlot, NEW u \in Users, WriteByte(u) \/ EndWrite(u)
  PROVE  \/ seg' = seg /\ j[u] = maxsize
         \/ /\ pos[u] \in Slots /\ j[u] \in 0 .. maxsize - 1
            /\ seg'[Cell(pos[u], j[u])] = Byte(text(pos[u]), j[u])
            /\ \A i \in Slots : \A k \in 0 .. maxsize - 1 :
                 i # pos[u] \/ k # j[u] => seg'[Cell(i, k)] = seg[Cell(i, k)]
<1>0. pos[u] \in Slots /\ j[u] \in 0 .. maxsize /\ maxsize = 5 /\ j[u] \in Nat
  BY CallTypes, SlotsAndTexts
<1>1. pc[u] = "write" => str[u] = text(pos[u])
  BY CallTypes, SlotsAndTexts
<1>2. ASSUME NEW v \in 0 .. 127, Stores(u, v), v = Byte(text(pos[u]), j[u])
      PROVE  /\ pos[u] \in Slots /\ j[u] \in 0 .. maxsize - 1
             /\ seg'[Cell(pos[u], j[u])] = Byte(text(pos[u]), j[u])
             /\ \A i \in Slots : \A k \in 0 .. maxsize - 1 :
                  i # pos[u] \/ k # j[u] => seg'[Cell(i, k)] = seg[Cell(i, k)]
  <2>1. j[u] \in 0 .. maxsize - 1
    BY <1>0, <1>2 DEF Stores
  <2> QED
    BY <1>0, <1>2, <2>1, StoredByteStays
<1>3. CASE WriteByte(u)
  <2>1. PICK v : v = str[u][j[u] + 1]
    OBVIOUS
  <2>2. v \in 1 .. 127 /\ Stores(u, v) /\ j[u] < Len(str[u])
    BY <1>3, <2>1, WriteByteStores
  <2>3. v \in 0 .. 127 /\ v = Byte(text(pos[u]), j[u])
    BY <1>1, <2>1, <2>2 DEF Byte, Stores
  <2> QED
    BY <1>2, <2>2, <2>3
<1>4. CASE EndWrite(u)
  <2>1. CASE j[u] = maxsize
    BY <1>4, <2>1, EndWriteStores
  <2>2. CASE j[u] < maxsize
    <3>1. Stores(u, NUL) /\ Len(str[u]) <= j[u] /\ Len(str[u]) \in Nat
      BY <1>4, <2>2, EndWriteStores
    <3>2. NUL \in 0 .. 127 /\ NUL = Byte(text(pos[u]), j[u])
      BY <1>0, <1>1, <3>1 DEF Byte, Stores, NUL
    <3> QED
      BY <1>2, <3>1, <3>2
  <2> QED
    BY <1>0, <2>1, <2>2
<1> QED
  BY <1>3, <1>4

(* Only these two actions change the segment.                              *)
LEMMA OnlyWritersStore ==
  ASSUME [Next]_vars, seg' # seg
  PROVE  \E u \in Users : WriteByte(u) \/ EndWrite(u)
<1> QED
  BY DEF Next, Call, Continue, Free, BeginRead, BeginWrite, Crash, TestByte, CopyByte,
         EndRead, Return, Kill

LEMMA TextStays ==
  ASSUME CallsInSlot, [Next]_vars, NEW i \in Slots, NEW k \in 0 .. maxsize - 1
  PROVE  seg'[Cell(i, k)] = seg[Cell(i, k)] \/ seg'[Cell(i, k)] = Byte(text(i), k)
<1>1. CASE seg' = seg
  BY <1>1
<1>2. CASE seg' # seg
  <2>1. PICK u \in Users : WriteByte(u) \/ EndWrite(u)
    BY <1>2, OnlyWritersStore
  <2>2. /\ seg'[Cell(pos[u], j[u])] = Byte(text(pos[u]), j[u])
        /\ i # pos[u] \/ k # j[u] => seg'[Cell(i, k)] = seg[Cell(i, k)]
    BY <1>2, <2>1, TextIsStored
  <2> QED
    BY <2>2
<1> QED
  BY <1>1, <1>2

LEMMA FullStays ==
  ASSUME CallsInSlot, [Next]_vars, NEW i \in Slots, Full(i)
  PROVE  Full(i)'
<1> QED
  BY TextStays DEF Full

LEMMA BytesOfTextStep ==
  CallsInSlot /\ BytesOfText /\ [Next]_vars => BytesOfText'
<1> QED
  BY TextStays DEF BytesOfText

LEMMA InitText ==
  ToolsInit => BytesOfText /\ PassedIsFull
<1> SUFFICES ASSUME ToolsInit PROVE BytesOfText /\ PassedIsFull
  OBVIOUS
<1>1. \A i \in Slots : \A k \in 0 .. maxsize - 1 : seg[Cell(i, k)] = NUL
  BY InitBlank DEF ToolsInit
<1>2. \A u \in Users : place[u] = 5 /\ pc[u] = "idle"
  BY DEF ToolsInit, Init
<1> QED
  BY <1>1, <1>2 DEF BytesOfText, PassedIsFull

(* A slot is full when its writer goes on to the next one.                 *)
LEMMA EndWriteFills ==
  ASSUME CallsInSlot, BytesOfText, PassedIsFull, [Next]_vars,
         NEW u \in Writers, EndWrite(u), NEW i \in Slots, i = pos[u]
  PROVE  Full(i)'
<1> SUFFICES ASSUME NEW k \in 0 .. maxsize - 1 PROVE seg'[Cell(i, k)] = Byte(text(i), k)
  BY DEF Full
<1>0. /\ u \in Users /\ pc[u] = "write" /\ j[u] \in Nat /\ k \in Nat /\ maxsize = 5 /\ k < maxsize
      /\ j[u] \in 0 .. maxsize
  BY CallTypes, SlotsAndTexts DEF EndWrite
<1>1. CASE k < j[u]
  <2>1. k \in 0 .. j[u] - 1
    BY <1>0, <1>1
  <2>2. seg[Cell(i, k)] = Byte(text(i), k)
    BY <1>0, <2>1 DEF PassedIsFull
  <2> QED
    BY <2>2, TextStays
<1>2. CASE ~(k < j[u])
  <2>1. j[u] < maxsize
    BY <1>0, <1>2
  <2>2. Len(str[u]) <= j[u] /\ Len(str[u]) \in Nat
    BY <1>0, <2>1, EndWriteStores
  <2>3. str[u] = text(i)
    BY <1>0, CallTypes, SlotsAndTexts
  <2>4. Byte(text(i), k) = NUL
    BY <1>0, <1>2, <2>2, <2>3 DEF Byte
  <2>5. seg[Cell(i, k)] = NUL
    BY <2>4 DEF BytesOfText
  <2> QED
    BY <2>4, <2>5, TextStays
<1> QED
  BY <1>1, <1>2

LEMMA PassedSlots ==
  ASSUME AtPlace, CallsInSlot, BytesOfText, PassedIsFull, [ToolsNext]_toolVars,
         NEW u \in Writers, place'[u] < 5, NEW h \in 0 .. place'[u] - 1
  PROVE  Full(h)'
<1>n. [Next]_vars
  BY ToolsStepIsStep
<1>u. u \in Users /\ place \in [Users -> 0 .. 5] /\ Slots = 0 .. 4
  BY SlotsAndTexts DEF AtPlace
<1>1. ASSUME place'[u] = place[u]
      PROVE  Full(h)'
  <2>1. h \in Slots /\ Full(h)
    BY <1>1, <1>u DEF PassedIsFull
  <2> QED
    BY <1>n, <2>1, FullStays
<1>2. ASSUME NEW q \in Users, StartTool(q) \/ KillTool(q)
      PROVE  Full(h)'
  <2>1. CASE q = u
    BY <1>2, <1>u, <2>1 DEF StartTool, KillTool
  <2>2. CASE q # u
    BY <1>1, <1>2, <1>u, <2>2 DEF StartTool, KillTool
  <2> QED
    BY <2>1, <2>2
<1>3. ASSUME NEW q \in Users, CallReturns(q)
      PROVE  Full(h)'
  <2>1. CASE q = u
    <3>1. EndWrite(u)
      <4>1. ~Return(u)
        BY <1>u, ToolsAssumption DEF Return, AtPlace
      <4> QED
        BY <1>3, <2>1, <4>1 DEF CallReturns
    <3>2. pos[u] = place[u] /\ place'[u] = place[u] + 1 /\ pos[u] \in Slots
      BY <1>3, <1>u, <2>1, <3>1, CallTypes DEF CallReturns, EndWrite, AtPlace
    <3>3. CASE h = pos[u]
      BY <1>n, <3>1, <3>2, <3>3, EndWriteFills
    <3>4. CASE h # pos[u]
      <4>1. h \in 0 .. place[u] - 1 /\ place[u] < 5 /\ h \in Slots
        BY <1>u, <3>2, <3>4
      <4>2. Full(h)
        BY <4>1 DEF PassedIsFull
      <4> QED
        BY <1>n, <4>1, <4>2, FullStays
    <3> QED
      BY <3>3, <3>4
  <2>2. CASE q # u
    BY <1>1, <1>3, <1>u, <2>2 DEF CallReturns
  <2> QED
    BY <2>1, <2>2
<1>4. CASE \/ UNCHANGED toolVars \/ alloc \/ displaySharedMemory \/ KeyPressed
           \/ \E q \in Users : NextCall(q) \/ InsideCall(q)
  BY <1>1, <1>4 DEF alloc, displaySharedMemory, KeyPressed, NextCall, InsideCall
<1> QED
  BY <1>2, <1>3, <1>4 DEF ToolsNext, Tool

LEMMA PassedBytes ==
  ASSUME CallsInSlot, PassedIsFull, [Next]_vars,
         NEW u \in Writers, pc'[u] = "write", NEW k \in 0 .. j'[u] - 1
  PROVE  seg'[Cell(pos'[u], k)] = Byte(text(pos'[u]), k)
<1>t. /\ pc \in [Users -> {"idle", "write", "read", "copy", "returned", "crashed"}]
      /\ pos \in [Users -> Slots] /\ j \in [Users -> 0 .. maxsize]
      /\ maxsize = 5 /\ u \in Users
  BY SlotsAndTexts DEF CallsInSlot, TypeOK
<1>1. ASSUME pc[u] = "write", pos'[u] = pos[u], k \in 0 .. j[u] - 1
      PROVE  seg'[Cell(pos'[u], k)] = Byte(text(pos'[u]), k)
  <2>1. seg[Cell(pos[u], k)] = Byte(text(pos[u]), k)
    BY <1>1, <1>t DEF PassedIsFull
  <2>2. k \in 0 .. maxsize - 1 /\ pos[u] \in Slots
    BY <1>1, <1>t
  <2>3. seg'[Cell(pos[u], k)] = Byte(text(pos[u]), k)
    BY <2>1, <2>2, TextStays
  <2> QED
    BY <1>1, <2>3
<1>2. CASE WriteByte(u)
  <2>1. pc[u] = "write" /\ pos' = pos /\ j'[u] = j[u] + 1 /\ j[u] < maxsize
    BY <1>2, <1>t, WriteByteStores DEF WriteByte, Stores
  <2>2. CASE k = j[u]
    <3>1. seg'[Cell(pos[u], j[u])] = Byte(text(pos[u]), j[u])
      BY <1>2, <1>t, <2>1, TextIsStored
    <3> QED
      BY <2>1, <2>2, <3>1
  <2>3. CASE k # j[u]
    BY <1>1, <1>t, <2>1, <2>3
  <2> QED
    BY <2>2, <2>3
<1>3. ASSUME NEW i \in Slots, NEW s \in Strings[i], BeginWrite(u, i, s)
      PROVE  seg'[Cell(pos'[u], k)] = Byte(text(pos'[u]), k)
  BY <1>3, <1>t DEF BeginWrite
<1>4. CASE pc[u] = "write" /\ pos'[u] = pos[u] /\ j'[u] = j[u]
  BY <1>1, <1>4
<1>5. ASSUME NEW q \in Users, q # u, Call(q) \/ Continue(q) \/ Kill(q)
      PROVE  pc'[u] = pc[u] /\ pos'[u] = pos[u] /\ j'[u] = j[u]
  BY <1>5, <1>t DEF Call, Continue, Kill, BeginRead, BeginWrite, Crash, WriteByte, EndWrite,
                   TestByte, CopyByte, EndRead, Return
<1>6. CASE UNCHANGED vars \/ Free
  BY <1>4, <1>6 DEF Free
<1>7. CASE \/ Crash(u) \/ EndWrite(u) \/ TestByte(u) \/ CopyByte(u) \/ EndRead(u) \/ Return(u)
           \/ Kill(u) \/ \E i \in Slots : BeginRead(u, i)
  BY <1>7, <1>t DEF Crash, EndWrite, TestByte, CopyByte, EndRead, Return, Kill, BeginRead
<1> QED
  BY <1>2, <1>3, <1>4, <1>5, <1>6, <1>7 DEF Next, Call, Continue

LEMMA PassedIsFullStep ==
  AtPlace /\ CallsInSlot /\ BytesOfText /\ PassedIsFull /\ [ToolsNext]_toolVars => PassedIsFull'
<1> SUFFICES ASSUME AtPlace, CallsInSlot, BytesOfText, PassedIsFull, [ToolsNext]_toolVars
             PROVE  PassedIsFull'
  OBVIOUS
<1>n. [Next]_vars
  BY ToolsStepIsStep
<1>1. \A u \in Writers : place'[u] < 5 => \A h \in 0 .. place'[u] - 1 : Full(h)'
  BY PassedSlots
<1>2. \A u \in Writers : pc'[u] = "write" =>
        \A k \in 0 .. j'[u] - 1 : seg'[Cell(pos'[u], k)] = Byte(text(pos'[u]), k)
  BY <1>n, PassedBytes
<1>3. ASSUME NEW i \in Slots, NEW k \in 0 .. maxsize - 1, seg'[Cell(i, k)] # NUL,
             NEW h \in 0 .. i - 1
      PROVE  Full(h)'
  <2>0. h \in Slots /\ Slots = 0 .. 4
    BY SlotsAndTexts
  <2>1. Full(h)
    <3>1. CASE seg[Cell(i, k)] # NUL
      BY <3>1 DEF PassedIsFull
    <3>2. CASE seg'[Cell(i, k)] # seg[Cell(i, k)]
      <4>1. PICK u \in Users : WriteByte(u) \/ EndWrite(u)
        BY <1>n, <3>2, OnlyWritersStore
      <4>2. i = pos[u]
        BY <3>2, <4>1, TextIsStored
      <4>3. pc[u] = "write" /\ u \in Writers /\ pos[u] = place[u]
        BY <4>1, CallTypes DEF WriteByte, EndWrite, AtPlace
      <4>4. place[u] < 5 /\ h \in 0 .. place[u] - 1
        BY <2>0, <4>2, <4>3
      <4> QED
        BY <4>3, <4>4 DEF PassedIsFull
    <3> QED
      BY <1>3, <3>1, <3>2
  <2> QED
    BY <1>n, <2>0, <2>1, FullStays
<1> QED
  BY <1>1, <1>2, <1>3 DEF PassedIsFull

LEMMA AlwaysPassedIsFull ==
  ToolsSpec => [](BytesOfText /\ PassedIsFull)
<1>1. CallsInSlot /\ BytesOfText /\ AtPlace /\ [ToolsNext]_toolVars => BytesOfText'
  BY ToolsStepIsStep, BytesOfTextStep
<1> QED
  BY <1>1, InitText, PassedIsFullStep, ToolsKeepTheLibrary, PTL DEF ToolsSpec

(* The string that NewStringUTF makes of a full slot.                      *)
LEMMA UpToNULIs ==
  ASSUME NEW s \in Seq(0 .. 127), NEW t \in Text, Len(t) <= Len(s),
         \A b \in 1 .. Len(t) : s[b] = t[b],
         \A b \in 1 .. Len(s) : b > Len(t) => s[b] = NUL
  PROVE  UpToNUL(s) = t
<1>0. Len(s) \in Nat /\ Len(t) \in Nat /\ \A b \in 1 .. Len(t) : t[b] # NUL
  <2>1. \A b \in 1 .. Len(t) : t[b] \in 1 .. 127
    BY TextIsChars
  <2>2. \A c \in 1 .. 127 : c # NUL
    BY DEF NUL
  <2> QED
    BY <2>1, <2>2, LenProperties DEF Text
<1>s. t \in Seq(0 .. 127)
  BY TextIsChars
<1> DEFINE I == {b \in 1 .. Len(s) : s[b] = NUL}
           m == Min(I)
<1>1. Contains(s, NUL) <=> I # {}
  BY DEF Contains
<1>2. CASE I = {}
  <2>1. UpToNUL(s) = s
    BY <1>1, <1>2 DEF UpToNUL
  <2>2. Len(t) = Len(s)
    <3>1. SUFFICES ASSUME Len(t) # Len(s) PROVE FALSE
      OBVIOUS
    <3>2. Len(s) \in 1 .. Len(s) /\ Len(s) > Len(t)
      BY <1>0, <3>1
    <3> QED
      BY <1>2, <3>2
  <2>3. s = t
    BY <1>s, <2>2, SeqEqual
  <2> QED
    BY <2>1, <2>3
<1>3. CASE I # {}
  <2>1. m \in I /\ \A y \in I : m <= y
    <3>1. I \subseteq Nat
      BY <1>0
    <3> HIDE DEF I
    <3> QED
      BY <1>3, <3>1, LeastElement
  <2>2. SelectInSeq(s, LAMBDA c : c = NUL) = m
    BY <1>3 DEF SelectInSeq
  <2>3. UpToNUL(s) = SubSeq(s, 1, m - 1)
    BY <1>1, <1>3, <2>2 DEF UpToNUL
  <2>4. m \in 1 .. Len(s) /\ s[m] = NUL
    BY <2>1
  <2> HIDE DEF m
  <2>5. m = Len(t) + 1
    <3>1. ~(m <= Len(t))
      <4>1. m <= Len(t) => m \in 1 .. Len(t)
        BY <1>0, <2>4
      <4> QED
        BY <1>0, <2>4, <4>1
    <3>2. Len(t) + 1 \in 1 .. Len(s) /\ Len(t) + 1 > Len(t)
      BY <1>0, <2>4, <3>1
    <3>3. m <= Len(t) + 1
      BY <2>1, <3>2
    <3> QED
      BY <1>0, <2>4, <3>1, <3>3
  <2>6. Len(t) \in 0 .. Len(s) /\ m - 1 = Len(t)
    BY <1>0, <2>5
  <2>7. /\ UpToNUL(s) \in Seq(0 .. 127) /\ Len(UpToNUL(s)) = Len(t)
        /\ \A b \in 1 .. Len(t) : UpToNUL(s)[b] = s[b]
    <3>1. PICK n \in 0 .. Len(s) : n = Len(t)
      BY <2>6
    <3>2. UpToNUL(s) = SubSeq(s, 1, n)
      BY <2>3, <2>6, <3>1
    <3>3. /\ SubSeq(s, 1, n) \in Seq(0 .. 127) /\ Len(SubSeq(s, 1, n)) = n
          /\ \A b \in 1 .. n : SubSeq(s, 1, n)[b] = s[b]
      BY Beginning
    <3> QED
      BY <3>1, <3>2, <3>3, Zenon
  <2> QED
    BY <1>s, <2>7, SeqEqual
<1> QED
  BY <1>2, <1>3

LEMMA SlotIsASequence ==
  ASSUME CallsInSlot, NEW i \in Slots
  PROVE  /\ Slot(i) \in Seq(0 .. 127) /\ Len(Slot(i)) = 5
         /\ \A b \in 1 .. 5 : b - 1 \in 0 .. maxsize - 1 /\ Slot(i)[b] = seg[Cell(i, b - 1)]
<1>1. ASSUME NEW b \in 1 .. 5
      PROVE  /\ b - 1 \in 0 .. maxsize - 1
             /\ 1 + i * 5 + b = Cell(i, b - 1) /\ seg[Cell(i, b - 1)] \in 0 .. 127
  <2>1. b - 1 \in 0 .. maxsize - 1 /\ i \in Nat /\ maxsize = 5
    BY SlotsAndTexts
  <2>2. Cell(i, b - 1) \in 2 .. totalSize - 1
    BY <2>1, CellsAreApart
  <2>3. Cell(i, b - 1) \in 0 .. totalSize - 1
    BY <2>2
  <2>4. 1 + i * 5 + b = Cell(i, b - 1)
    BY <2>1 DEF Cell
  <2> QED
    BY <2>1, <2>3, <2>4 DEF CallsInSlot, TypeOK
<1>2. \A b \in 1 .. 5 : Slot(i)[b] = seg[1 + i * 5 + b]
  BY DEF Slot
<1>3. \A b \in 1 .. 5 : Slot(i)[b] = seg[Cell(i, b - 1)] /\ Slot(i)[b] \in 0 .. 127
  BY <1>1, <1>2
<1>4. Slot(i) \in [1 .. 5 -> 0 .. 127]
  BY <1>3 DEF Slot
<1>5. Slot(i) \in Seq(0 .. 127) /\ Len(Slot(i)) = 5
  <2>1. Slot(i) \in Seq(0 .. 127)
    <3>1. [1 .. 5 -> 0 .. 127] \in {[1 .. n -> 0 .. 127] : n \in Nat}
      OBVIOUS
    <3> QED
      BY <1>4, <3>1, SeqDef
  <2>2. DOMAIN Slot(i) = 1 .. 5 /\ DOMAIN Slot(i) = 1 .. Len(Slot(i)) /\ Len(Slot(i)) \in Nat
    BY <1>4, <2>1, LenProperties
  <2>3. PICK l \in Nat : l = Len(Slot(i))
    BY <2>2
  <2>4. 1 .. 5 = 1 .. l
    BY <2>2, <2>3
  <2>5. l = 5
    <3>1. 5 \in 1 .. l /\ (l # 0 => l \in 1 .. 5)
      BY <2>4
    <3> QED
      BY <3>1
  <2> QED
    BY <2>1, <2>3, <2>5
<1> QED
  BY <1>1, <1>3, <1>5

(* The slots fill in the order of the writer's loop, and what is full      *)
(* stays so while writers are killed, started over and overlap.            *)
THEOREM FillsInOrder ==
  ToolsSpec => []FilledInOrder
<1>1. CallsInSlot /\ PassedIsFull => FilledInOrder
  <2> SUFFICES ASSUME CallsInSlot, PassedIsFull, NEW i \in Slots, NEW h \in Slots, h < i, ~Blank(i)
               PROVE  UpToNUL(Slot(h)) = buffer[h + 1]
    BY DEF FilledInOrder, Complete
  <2>1. PICK b \in 1 .. 5 : Slot(i)[b] # NUL
    BY DEF Blank
  <2>2. b - 1 \in 0 .. maxsize - 1 /\ seg[Cell(i, b - 1)] # NUL
    BY <2>1, SlotIsASequence
  <2>3. h \in 0 .. i - 1 /\ maxsize = 5
    BY SlotsAndTexts
  <2>4. Full(h)
    BY <2>2, <2>3 DEF PassedIsFull
  <2>5. text(h) \in Text /\ Len(text(h)) \in 1 .. 5
    BY SlotsAndTexts
  <2>6. /\ Slot(h) \in Seq(0 .. 127) /\ Len(Slot(h)) = 5
        /\ \A c \in 1 .. 5 : c - 1 \in 0 .. maxsize - 1 /\ Slot(h)[c] = seg[Cell(h, c - 1)]
    BY SlotIsASequence
  <2>7. \A c \in 1 .. 5 : Slot(h)[c] = Byte(text(h), c - 1)
    BY <2>4, <2>6 DEF Full
  <2>8. ASSUME NEW c \in 1 .. 5
        PROVE  /\ c \in 1 .. Len(text(h)) => Slot(h)[c] = text(h)[c]
               /\ c > Len(text(h)) => Slot(h)[c] = NUL
    <3>1. c - 1 < Len(text(h)) <=> c <= Len(text(h))
      BY <2>5
    <3>2. c - 1 + 1 = c
      OBVIOUS
    <3> QED
      BY <2>5, <2>7, <3>1, <3>2 DEF Byte
  <2>9. UpToNUL(Slot(h)) = text(h)
    <3>1. PICK l \in 1 .. 5 : l = Len(text(h))
      BY <2>5
    <3>2. l <= Len(Slot(h)) /\ \A c \in 1 .. l : c \in 1 .. 5
      BY <2>6
    <3> QED
      BY <2>5, <2>6, <2>8, <3>1, <3>2, UpToNULIs
  <2> QED
    BY <2>9 DEF text
<1> QED
  BY <1>1, ToolsKeepTheLibrary, AlwaysPassedIsFull, PTL

-----------------------------------------------------------------------------
(* A reader copies the beginning of the text.                              *)

Copied(u) ==
  /\ pc[u] \in {"read", "copy"} =>
       /\ Len(str[u]) = j[u] /\ j[u] <= Len(text(pos[u]))
       /\ \A b \in 1 .. j[u] : str[u][b] = text(pos[u])[b]
  /\ pc[u] = "copy" => seg[Cell(pos[u], j[u])] # NUL
  /\ pc[u] = "returned" => IsPrefix(str[u], text(pos[u]))

(* A byte of the text, once stored, is never cleared.                      *)
LEMMA StoredTextStays ==
  ASSUME CallsInSlot, BytesOfText, [Next]_vars,
         NEW i \in Slots, NEW k \in 0 .. maxsize - 1, seg[Cell(i, k)] # NUL
  PROVE  seg'[Cell(i, k)] # NUL
<1>1. seg[Cell(i, k)] = Byte(text(i), k)
  BY DEF BytesOfText
<1> QED
  BY <1>1, TextStays

LEMMA CopiedByAnother ==
  ASSUME CallsInSlot, BytesOfText, [Next]_vars, NEW u \in Users, Copied(u),
         pc'[u] = pc[u], pos'[u] = pos[u], str'[u] = str[u], j'[u] = j[u]
  PROVE  Copied(u)'
<1>1. ASSUME pc[u] = "copy"
      PROVE  seg'[Cell(pos[u], j[u])] # NUL
  <2>1. pos[u] \in Slots /\ j[u] \in 0 .. maxsize - 1 /\ seg[Cell(pos[u], j[u])] # NUL
    BY <1>1, CallTypes, SlotsAndTexts DEF Copied
  <2> QED
    BY <2>1, StoredTextStays
<1> QED
  BY <1>1 DEF Copied

(* A byte of the slot that is not blank belongs to the text.               *)
LEMMA NotBlank ==
  ASSUME CallsInSlot, BytesOfText, NEW i \in Slots, NEW k \in 0 .. maxsize - 1,
         seg[Cell(i, k)] # NUL
  PROVE  k < Len(text(i)) /\ seg[Cell(i, k)] = text(i)[k + 1]
<1>1. seg[Cell(i, k)] = Byte(text(i), k)
  BY DEF BytesOfText
<1> QED
  BY <1>1 DEF Byte

LEMMA CopiedTestByte ==
  ASSUME CallsInSlot, BytesOfText, NEW u \in Users, Copied(u), TestByte(u)
  PROVE  Copied(u)'
<1>1. /\ pc[u] = "read" /\ pc'[u] = "copy" /\ str' = str /\ j' = j /\ pos' = pos /\ seg' = seg
  BY DEF TestByte, CallsInSlot, TypeOK
<1>2. seg[Cell(pos[u], j[u])] # NUL
  BY CallTypes DEF TestByte, MoreToRead, Index, Start, Cell
<1> QED
  BY <1>1, <1>2 DEF Copied

LEMMA CopiedCopyByte ==
  ASSUME CallsInSlot, BytesOfText, NEW u \in Users, Copied(u), CopyByte(u)
  PROVE  Copied(u)'
<1>1. /\ pc[u] = "copy" /\ pc'[u] = "read" /\ pos' = pos
      /\ str'[u] = Append(str[u], seg[Index(u)]) /\ j'[u] = j[u] + 1
      /\ j[u] \in Nat /\ str[u] \in Seq(0 .. 127) /\ j[u] \in 0 .. maxsize - 1
      /\ pos[u] \in Slots /\ Index(u) = Cell(pos[u], j[u])
  <2>1. j[u] < maxsize /\ j[u] \in Nat /\ maxsize = 5
    BY CallTypes, SlotsAndTexts DEF CopyByte
  <2>2. j[u] \in 0 .. maxsize - 1
    BY <2>1
  <2> QED
    BY <2>2, CallTypes DEF CopyByte, CallsInSlot, TypeOK, Index, Start, Cell
<1>2. /\ Len(str[u]) = j[u] /\ \A b \in 1 .. j[u] : str[u][b] = text(pos[u])[b]
      /\ seg[Cell(pos[u], j[u])] # NUL
  BY <1>1 DEF Copied
<1>3. j[u] < Len(text(pos[u])) /\ seg[Index(u)] = text(pos[u])[j[u] + 1]
  BY <1>1, <1>2, NotBlank
<1>4. /\ Len(str'[u]) = j[u] + 1
      /\ \A b \in 1 .. j[u] : str'[u][b] = str[u][b]
      /\ str'[u][j[u] + 1] = text(pos[u])[j[u] + 1]
  BY <1>1, <1>2, <1>3, AppendProperties
<1>5. j[u] + 1 <= Len(text(pos[u])) /\ \A b \in 1 .. j[u] + 1 : b \in 1 .. j[u] \/ b = j[u] + 1
  <2>1. PICK l \in 1 .. 5 : l = Len(text(pos[u]))
    BY <1>1, SlotsAndTexts
  <2>2. j[u] + 1 <= l
    BY <1>1, <1>3, <2>1
  <2> QED
    BY <1>1, <2>1, <2>2
<1> QED
  BY <1>1, <1>2, <1>4, <1>5 DEF Copied

LEMMA CopiedEndRead ==
  ASSUME CallsInSlot, NEW u \in Users, Copied(u), EndRead(u)
  PROVE  Copied(u)'
<1>1. /\ pc[u] = "read" /\ pc'[u] = "returned" /\ pos' = pos
      /\ str'[u] = UpToNUL(str[u]) /\ str[u] \in Seq(0 .. 127) /\ pos[u] \in Slots
      /\ j[u] \in Nat
  BY CallTypes DEF EndRead, CallsInSlot, TypeOK
<1>2. /\ Len(str[u]) = j[u] /\ j[u] <= Len(text(pos[u]))
      /\ \A b \in 1 .. j[u] : str[u][b] = text(pos[u])[b]
  BY <1>1 DEF Copied
<1>3. PICK t \in Text : t = text(pos[u])
  BY <1>1, SlotsAndTexts
<1>4. /\ Len(t) \in Nat /\ t \in Seq(0 .. 127) /\ j[u] <= Len(t)
      /\ \A b \in 1 .. Len(t) : t[b] # NUL
  <2>1. \A b \in 1 .. Len(t) : t[b] \in 1 .. 127
    BY TextIsChars
  <2>2. \A c \in 1 .. 127 : c # NUL
    BY DEF NUL
  <2> QED
    BY <1>2, <1>3, <2>1, <2>2, TextIsChars, LenProperties
<1>5. UpToNUL(str[u]) = str[u]
  <2>1. \A b \in 1 .. Len(str[u]) : b \in 1 .. j[u] /\ b \in 1 .. Len(t)
    BY <1>1, <1>2, <1>4
  <2>2. \A b \in 1 .. Len(str[u]) : str[u][b] # NUL
    BY <1>2, <1>3, <1>4, <2>1
  <2> QED
    BY <1>1, <2>2, UpToNULKeeps
<1>6. IsPrefix(str[u], t)
  <2>1. PICK n \in 0 .. Len(t) : n = j[u]
    BY <1>1, <1>4
  <2>2. /\ SubSeq(t, 1, n) \in Seq(0 .. 127) /\ Len(SubSeq(t, 1, n)) = n
        /\ \A b \in 1 .. n : SubSeq(t, 1, n)[b] = t[b]
    BY <1>4, Beginning
  <2>3. SubSeq(t, 1, n) = str[u]
    BY <1>1, <1>2, <1>3, <2>1, <2>2, SeqEqual
  <2>4. SubSeq(str[u], 1, n) = str[u]
    BY <1>1, <1>2, <2>1, SubSeqFull
  <2> QED
    BY <1>2, <1>4, <2>1, <2>3, <2>4 DEF IsPrefix
<1> QED
  BY <1>1, <1>3, <1>5, <1>6 DEF Copied

LEMMA CopiedStep ==
  CallsInSlot /\ BytesOfText /\ BeginningCopied /\ [Next]_vars => BeginningCopied'
<1> SUFFICES ASSUME CallsInSlot, BytesOfText, BeginningCopied, [Next]_vars, NEW u \in Users
             PROVE  Copied(u)'
  BY DEF BeginningCopied, Copied
<1>0. Copied(u)
  BY DEF BeginningCopied, Copied
<1>t. /\ pc \in [Users -> {"idle", "write", "read", "copy", "returned", "crashed"}]
      /\ pos \in [Users -> Slots] /\ str \in [Users -> Seq(0 .. 127)]
      /\ j \in [Users -> 0 .. maxsize]
  BY DEF CallsInSlot, TypeOK
<1>1. CASE pc'[u] \notin {"read", "copy", "returned"}
  BY <1>1 DEF Copied
<1>2. CASE UNCHANGED vars \/ Free
  BY <1>0, <1>2, CopiedByAnother DEF Free
<1>3. ASSUME NEW q \in Users, q # u, Call(q) \/ Continue(q) \/ Kill(q)
      PROVE  Copied(u)'
  <2>1. pc'[u] = pc[u] /\ pos'[u] = pos[u] /\ str'[u] = str[u] /\ j'[u] = j[u]
    BY <1>3, <1>t DEF Call, Continue, Kill, BeginRead, BeginWrite, Crash, WriteByte, EndWrite,
                     TestByte, CopyByte, EndRead, Return
  <2> QED
    BY <1>0, <2>1, CopiedByAnother
<1>4. ASSUME NEW i \in Slots, BeginRead(u, i)
      PROVE  Copied(u)'
  <2>1. /\ pc'[u] = "read" /\ str'[u] = << >> /\ j'[u] = 0 /\ Len(<< >>) = 0
        /\ pos'[u] = i
    BY <1>4, <1>t, EmptySeq DEF BeginRead
  <2>2. 0 <= Len(text(i))
    <3>1. PICK l \in 1 .. 5 : l = Len(text(i))
      BY SlotsAndTexts
    <3> QED
      BY <3>1
  <2> QED
    BY <2>1, <2>2 DEF Copied
<1>5. CASE \/ Crash(u) \/ WriteByte(u) \/ EndWrite(u) \/ Return(u) \/ Kill(u)
           \/ \E i \in Slots : \E s \in Strings[i] : BeginWrite(u, i, s)
  BY <1>1, <1>5, <1>t DEF Crash, WriteByte, EndWrite, Return, Kill, BeginWrite
<1> QED
  BY <1>0, <1>2, <1>3, <1>4, <1>5, CopiedTestByte, CopiedCopyByte, CopiedEndRead
     DEF Next, Call, Continue

LEMMA AlwaysBeginningCopied ==
  ToolsSpec => []BeginningCopied
<1>1. ToolsInit => BeginningCopied
  BY DEF ToolsInit, Init, BeginningCopied
<1>2. CallsInSlot /\ BytesOfText /\ BeginningCopied /\ AtPlace /\ [ToolsNext]_toolVars
      => BeginningCopied'
  BY ToolsStepIsStep, CopiedStep
<1> QED
  BY <1>1, <1>2, ToolsKeepTheLibrary, AlwaysPassedIsFull, PTL DEF ToolsSpec

(* A reader gets a beginning of the string of the slot, and the whole of   *)
(* it if some write had ended before the read() began, although nothing    *)
(* is locked and writers die in the middle of a call.                      *)
THEOREM ReadersGetTheText ==
  ToolsSpec => []ReadsTheText
<1>1. ASSUME CallsInSlot, HistoryKept, OneStringSoFar, FirstByteOffered, BeginningCopied,
             NEW u \in Readers, pc[u] = "returned"
      PROVE  /\ IsPrefix(str[u], text(pos[u]))
             /\ << >> \notin candidates[u] => str[u] = text(pos[u])
  <2>0. u \in Users /\ pos[u] \in Slots
    BY <1>1, CallTypes
  <2>1. IsPrefix(str[u], text(pos[u]))
    BY <1>1, <2>0 DEF BeginningCopied
  <2>2. ASSUME << >> \notin candidates[u]
        PROVE  str[u] = text(pos[u])
    <3>1. candidates[u] \subseteq {text(pos[u]), << >>} /\ candidates[u] # {}
      BY <1>1, <2>0, SlotsAndTexts DEF FirstByteOffered
    <3>2. candidates[u] = {text(pos[u])}
      BY <2>2, <3>1
    <3> QED
      BY <1>1, <2>0, <3>2 DEF OneStringSoFar
  <2> QED
    BY <2>1, <2>2
<1>2. CallsInSlot /\ HistoryKept /\ OneStringSoFar /\ FirstByteOffered /\ BeginningCopied
      => ReadsTheText
  BY <1>1 DEF ReadsTheText, text
<1> QED
  BY <1>2, ToolsKeepTheLibrary, AlwaysBeginningCopied, PTL
=============================================================================
