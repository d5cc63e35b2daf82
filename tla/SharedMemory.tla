---------------------------- MODULE SharedMemory ----------------------------
(***************************************************************************)
(* The native methods of SharedMemory.c: a System V segment cut into size  *)
(* slots of maxsize bytes after a header of two bytes.  Several processes  *)
(* read and write strings in it byte by byte, with no lock; a process may  *)
(* be killed in the middle of a call.  The library is compiled without     *)
(* optimisation, so that every access to a byte in the C text is a load or *)
(* a store of its own: the loop of read() loads a byte once to test it and *)
(* again to copy it.                                                       *)
(***************************************************************************)
EXTENDS Integers, Sequences, FiniteSets, SequencesExt

CONSTANTS
  Readers,   (* the processes that call read                              *)
  Writers,   (* the processes that call write                             *)
  Mortal,    (* the processes that may be killed                          *)
  size,      (* number of slots                                           *)
  maxsize,   (* length of a slot                                          *)
  Strings    (* the strings written to each slot, as sequences of codes   *)

Users == Readers \cup Writers

NUL == 0

totalSize == size * maxsize + 2

Slots == 0 .. size - 1

(* size and maxsize are each stored in a char. *)
ASSUME SharedMemoryAssumption ==
  /\ Mortal \subseteq Users
  /\ size \in 1 .. 127
  /\ maxsize \in 1 .. 127
  /\ \A i \in Slots : Strings[i] \subseteq Seq(1 .. 127)

VARIABLES
  seg,        (* the bytes of the segment                                 *)
  removed,    (* free() was called                                        *)
  pc,         (* where each process is                                    *)
  pos,        (* the slot of the call in progress                         *)
  str,        (* the string to write, or what read() copied so far        *)
  j,          (* the loop index                                           *)
  latest,     (* history: writes of each slot that no later one replaced  *)
  candidates  (* history: the strings the slot held during the read       *)

calls == <<pc, pos, str, j>>
history == <<latest, candidates>>
vars == <<seg, removed, calls, history>>

(* alloc() clears the segment before its handle is known to anybody. *)
Init ==
  /\ seg = [i \in 0 .. totalSize - 1 |-> CASE i = 0 -> size [] i = 1 -> maxsize [] OTHER -> NUL]
  /\ removed = FALSE
  /\ pc = [p \in Users |-> "idle"]
  /\ pos = [p \in Users |-> 0]
  /\ str = [p \in Users |-> << >>]
  /\ j = [p \in Users |-> 0]
  /\ latest = [i \in Slots |-> {[str |-> << >>, open |-> {}, under |-> {}]}]
  /\ candidates = [p \in Users |-> {<< >>}]

(* The first byte of the slot, and the one under the loop index. *)
Start(p) == 2 + pos[p] * seg[1]
Index(p) == Start(p) + j[p]

InCall(p) == pc[p] \in {"write", "read", "copy"}

(* The kernel keeps a removed segment while a process is attached to it. *)
Destroyed == removed /\ \A q \in Users : ~InCall(q)

-----------------------------------------------------------------------------
(* history: a write w is replaced when another one that began after w had  *)
(* ended ends in its turn.  "open" holds the process still writing w,      *)
(* "under" the processes whose writes began after the end of w.            *)

OpenWrite(p, i, s) ==
  LET aside == {IF w.open = {} THEN [w EXCEPT !.under = @ \cup {p}] ELSE w : w \in latest[i]}
  IN  /\ latest' = [latest EXCEPT ![i] = aside \cup {[str |-> s, open |-> {p}, under |-> {}]}]
      /\ candidates' = [q \in Users |->
           IF InCall(q) /\ pc[q] # "write" /\ pos[q] = i THEN candidates[q] \cup {s}
           ELSE candidates[q]]

CloseWrite(p) ==
  latest' = [latest EXCEPT ![pos[p]] =
    {[w EXCEPT !.open = @ \ {p}] : w \in {v \in latest[pos[p]] : p \notin v.under}}]

(* A write cut short replaces nothing, and may have stored its string.     *)
AbandonWrite(p) ==
  latest' = [latest EXCEPT ![pos[p]] =
    {[w EXCEPT !.open = @ \ {p}, !.under = @ \ {p}] : w \in latest[pos[p]]}]

-----------------------------------------------------------------------------
(* The locals of the call are gone, with the string the caller received. *)
Leave(p) ==
  /\ pc' = [pc EXCEPT ![p] = "idle"]
  /\ pos' = [pos EXCEPT ![p] = 0]
  /\ str' = [str EXCEPT ![p] = << >>]
  /\ j' = [j EXCEPT ![p] = 0]

(* write(): the part of the string that fits into the slot. *)
Fitting(s) == SubSeq(s, 1, IF Len(s) <= maxsize THEN Len(s) ELSE maxsize)

(* Mutation of BeginWrite: the slot is cleared first.                      *)
BeginWriteClearing(p, i, s) ==
  /\ p \in Writers
  /\ pc[p] = "idle"
  /\ ~Destroyed
  /\ pc' = [pc EXCEPT ![p] = "write"]
  /\ pos' = [pos EXCEPT ![p] = i]
  /\ str' = [str EXCEPT ![p] = s]
  /\ j' = [j EXCEPT ![p] = 0]
  /\ OpenWrite(p, i, Fitting(s))
  /\ seg' = [seg EXCEPT ![2 + i * seg[1]] = NUL]
  /\ UNCHANGED removed

BeginWrite(p, i, s) ==
  /\ p \in Writers
  /\ pc[p] = "idle"
  /\ ~Destroyed
  /\ pc' = [pc EXCEPT ![p] = "write"]
  /\ pos' = [pos EXCEPT ![p] = i]
  /\ str' = [str EXCEPT ![p] = s]
  /\ j' = [j EXCEPT ![p] = 0]
  /\ OpenWrite(p, i, Fitting(s))
  /\ UNCHANGED <<seg, removed>>

(* Mutation of MoreToWrite: a long string is not cut.                      *)
MoreToWriteUncut(p) == j[p] < Len(str[p])

MoreToWrite(p) == j[p] < Len(str[p]) /\ j[p] < seg[1]

(* Mutation of WriteByte: the index does not advance.                      *)
WriteByteStuck(p) ==
  /\ pc[p] = "write"
  /\ MoreToWrite(p)
  /\ seg' = [seg EXCEPT ![Index(p)] = str[p][j[p] + 1]]
  /\ UNCHANGED <<removed, calls, history>>

WriteByte(p) ==
  /\ pc[p] = "write"
  /\ MoreToWrite(p)
  /\ seg' = [seg EXCEPT ![Index(p)] = str[p][j[p] + 1]]
  /\ j' = [j EXCEPT ![p] = @ + 1]
  /\ UNCHANGED <<removed, pc, pos, str, history>>

(* Mutation of EndWrite: the NUL is written behind a full slot, too.       *)
EndWriteUnguarded(p) ==
  /\ pc[p] = "write"
  /\ ~MoreToWrite(p)
  /\ seg' = [seg EXCEPT ![Index(p)] = NUL]
  /\ Leave(p)
  /\ CloseWrite(p)
  /\ UNCHANGED <<removed, candidates>>

(* Mutation of EndWrite: no NUL is written.                                *)
EndWriteNoNUL(p) ==
  /\ pc[p] = "write"
  /\ ~MoreToWrite(p)
  /\ Leave(p)
  /\ CloseWrite(p)
  /\ UNCHANGED <<seg, removed, candidates>>

(* A string shorter than the slot gets a NUL behind it. *)
EndWrite(p) ==
  /\ pc[p] = "write"
  /\ ~MoreToWrite(p)
  /\ seg' = IF j[p] < seg[1] THEN [seg EXCEPT ![Index(p)] = NUL] ELSE seg
  /\ Leave(p)
  /\ CloseWrite(p)
  /\ UNCHANGED <<removed, candidates>>

(* read() *)
BeginRead(p, i) ==
  /\ p \in Readers
  /\ pc[p] = "idle"
  /\ ~Destroyed
  /\ pc' = [pc EXCEPT ![p] = "read"]
  /\ pos' = [pos EXCEPT ![p] = i]
  /\ str' = [str EXCEPT ![p] = << >>]
  /\ j' = [j EXCEPT ![p] = 0]
  /\ candidates' = [candidates EXCEPT ![p] = {w.str : w \in latest[i]}]
  /\ UNCHANGED <<seg, removed, latest>>

MoreToRead(p) == j[p] < seg[1] /\ seg[Index(p)] # NUL

TestByte(p) ==
  /\ pc[p] = "read"
  /\ MoreToRead(p)
  /\ pc' = [pc EXCEPT ![p] = "copy"]
  /\ UNCHANGED <<seg, removed, pos, str, j, history>>

CopyByte(p) ==
  /\ pc[p] = "copy"
  /\ str' = [str EXCEPT ![p] = Append(@, seg[Index(p)])]
  /\ j' = [j EXCEPT ![p] = @ + 1]
  /\ pc' = [pc EXCEPT ![p] = "read"]
  /\ UNCHANGED <<seg, removed, pos, history>>

(* The string NewStringUTF makes of the bytes ends at the first NUL. *)
UpToNUL(s) ==
  IF Contains(s, NUL) THEN SubSeq(s, 1, SelectInSeq(s, LAMBDA c : c = NUL) - 1) ELSE s

EndRead(p) ==
  /\ pc[p] = "read"
  /\ ~MoreToRead(p)
  /\ str' = [str EXCEPT ![p] = UpToNUL(str[p])]
  /\ pc' = [pc EXCEPT ![p] = "returned"]
  /\ UNCHANGED <<seg, removed, pos, j, history>>

Return(p) ==
  /\ pc[p] = "returned"
  /\ Leave(p)
  /\ candidates' = [candidates EXCEPT ![p] = {<< >>}]
  /\ UNCHANGED <<seg, removed, latest>>

-----------------------------------------------------------------------------
(* free(), called once by the process that called alloc().                 *)
Free ==
  /\ ~removed
  /\ removed' = TRUE
  /\ UNCHANGED <<seg, calls, history>>

(* shmat fails, the error is only printed, and the address -1 is used.     *)
Crash(p) ==
  /\ pc[p] = "idle"
  /\ Destroyed
  /\ pc' = [pc EXCEPT ![p] = "crashed"]
  /\ UNCHANGED <<seg, removed, pos, str, j, history>>

(* A process killed in the middle of a call; another takes its place.      *)
Kill(p) ==
  /\ p \in Mortal
  /\ InCall(p)
  /\ Leave(p)
  /\ candidates' = [candidates EXCEPT ![p] = {<< >>}]
  /\ IF pc[p] = "write" THEN AbandonWrite(p) ELSE UNCHANGED latest
  /\ UNCHANGED <<seg, removed>>

Call(p) ==
  \/ \E i \in Slots : BeginRead(p, i) \/ \E s \in Strings[i] : BeginWrite(p, i, s)
  \/ Crash(p)

Continue(p) == WriteByte(p) \/ EndWrite(p) \/ TestByte(p) \/ CopyByte(p) \/ EndRead(p) \/ Return(p)

Next == Free \/ \E p \in Users : Call(p) \/ Continue(p) \/ Kill(p)

(* A process in the middle of a call is scheduled again. *)
Fairness == \A p \in Users : WF_vars(Continue(p))

Spec == Init /\ [][Next]_vars /\ Fairness

-----------------------------------------------------------------------------
(* Properties. *)

(* The bytes are chars, a call works on one slot and never leaves it.      *)
TypeOK ==
  /\ seg \in [0 .. totalSize - 1 -> 0 .. 127]
  /\ removed \in BOOLEAN
  /\ pc \in [Users -> {"idle", "write", "read", "copy", "returned", "crashed"}]
  /\ pos \in [Users -> Slots]
  /\ str \in [Users -> Seq(0 .. 127)]
  /\ j \in [Users -> 0 .. maxsize]

(* A byte changes only under a write() to its slot: neither the header nor *)
(* another slot is touched, however long the string is.                    *)
WritesInsideSlot ==
  [][\A i \in 0 .. totalSize - 1 : seg'[i] # seg[i] =>
       \E p \in Writers :
         /\ pc[p] = "write"
         /\ i - 2 \in pos[p] * maxsize .. (pos[p] + 1) * maxsize - 1]_seg

(* The strings a slot may hold, and the slots where no string has more     *)
(* than one character.                                                     *)
Known(i) == {Fitting(s) : s \in Strings[i]} \cup {<< >>}
OneCharacter(i) == \A s \in Strings[i] : Len(s) = 1

(* A read() that overlaps with writes may return a mixture, but never for  *)
(* strings of one character; and it returns one of the strings of the      *)
(* program, or the empty string of a blank slot, only if the slot held it  *)
(* during the call: who reads "true" was right to.                         *)
KnownStringWasStored ==
  \A p \in Users :
    pc[p] = "returned" /\ (str[p] \in Known(pos[p]) \/ OneCharacter(pos[p])) =>
      str[p] \in candidates[p]

(* The NUL is there "so that the stored string is identical when it is     *)
(* read" (SharedMemory.c:122): where no write of another string meets the  *)
(* read(), it is, cut to the slot, and no byte of an older and longer one  *)
(* is left, whoever was killed while he wrote it.                          *)
UndisturbedReadIsExact ==
  \A p \in Users :
    pc[p] = "returned" /\ Cardinality(candidates[p]) = 1 => str[p] \in candidates[p]
=============================================================================
