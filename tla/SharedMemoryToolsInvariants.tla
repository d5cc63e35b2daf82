-------------------- MODULE SharedMemoryToolsInvariants --------------------
(***************************************************************************)
(* Inductive invariants of SharedMemoryTools, from which the theorems of   *)
(* module SharedMemoryToolsProofs follow.                                  *)
(***************************************************************************)
EXTENDS SharedMemoryTools, SharedMemoryInvariants

(* The string that SharedMemoryWrite writes to slot i, and a slot that     *)
(* holds it in full.                                                       *)
text(i) == buffer[i + 1]
Full(i) == \A k \in 0 .. maxsize - 1 : seg[Cell(i, k)] = Byte(text(i), k)

(* A running tool is at the slot of its loop index.                        *)
AtPlace ==
  /\ place \in [Users -> 0 .. 5]
  /\ \A u \in Users :
       /\ pc[u] \in {"write", "read", "copy", "returned"} => pos[u] = place[u]
       /\ pc[u] \in {"read", "copy", "returned"} => u \in Readers

(* A byte of a slot is blank or that of its string.                        *)
BytesOfText ==
  \A i \in Slots : \A k \in 0 .. maxsize - 1 : seg[Cell(i, k)] \in {NUL, Byte(text(i), k)}

(* A writer has filled the slots it has passed, and the bytes it has       *)
(* passed in the present one; nothing is written beyond.                   *)
PassedIsFull ==
  /\ \A u \in Writers :
       /\ place[u] < 5 => \A h \in 0 .. place[u] - 1 : Full(h)
       /\ pc[u] = "write" =>
            \A k \in 0 .. j[u] - 1 : seg[Cell(pos[u], k)] = Byte(text(pos[u]), k)
  /\ \A i \in Slots : \A k \in 0 .. maxsize - 1 :
       seg[Cell(i, k)] # NUL => \A h \in 0 .. i - 1 : Full(h)

(* A reader has copied the beginning of the string, byte by byte; a byte   *)
(* that it tested is still there when it is copied.                        *)
BeginningCopied ==
  \A u \in Users :
    /\ pc[u] \in {"read", "copy"} =>
         /\ Len(str[u]) = j[u] /\ j[u] <= Len(text(pos[u]))
         /\ \A b \in 1 .. j[u] : str[u][b] = text(pos[u])[b]
    /\ pc[u] = "copy" => seg[Cell(pos[u], j[u])] # NUL
    /\ pc[u] = "returned" => IsPrefix(str[u], text(pos[u]))
=============================================================================
