------------------------- MODULE SharedMemoryTools -------------------------
(***************************************************************************)
(* The three programs that come with the shared memory library.            *)
(* SharedMemoryCreateBuffer allocates a segment, shows it and frees it     *)
(* when a key is pressed.  SharedMemoryWrite writes one string to each     *)
(* slot and SharedMemoryRead reads each slot, in order; the user starts    *)
(* them with the handle he was shown, several at a time and as often as he *)
(* likes.  Their calls are those of SharedMemory.                          *)
(***************************************************************************)
EXTENDS SharedMemory

(* "ABCD", "BCDEF", "CD", "D", "EFGHI"                                     *)
buffer == <<<<65, 66, 67, 68>>, <<66, 67, 68, 69, 70>>, <<67, 68>>, <<68>>, <<69, 70, 71, 72, 73>>>>

ToolStrings == [i \in 0 .. 4 |-> {buffer[i + 1]}]

ASSUME ToolsAssumption ==
  /\ size = 5 /\ maxsize = 5   (* alloc(5,5) *)
  /\ Strings = ToolStrings
  /\ Readers \cap Writers = {}

VARIABLES
  creator,  (* where SharedMemoryCreateBuffer is                           *)
  place     (* the loop index of each tool, 5 when it does not run         *)

toolVars == <<vars, creator, place>>

ToolsInit ==
  /\ Init
  /\ creator = "alloc"
  /\ place = [u \in Users |-> 5]

-----------------------------------------------------------------------------
(* SharedMemoryCreateBuffer.  When the segment cannot be had, alloc        *)
(* returns -1, and displaySharedMemory uses the address -1; alloc does so  *)
(* itself when it cannot attach the segment.                               *)

alloc ==
  /\ creator = "alloc"
  /\ creator' \in {"display", "no segment", "crashed"}
  /\ UNCHANGED <<vars, place>>

displaySharedMemory ==
  /\ \/ creator = "display" /\ creator' = "key"
     \/ creator = "no segment" /\ creator' = "crashed"
  /\ UNCHANGED <<vars, place>>

KeyPressed ==
  /\ creator = "key"
  /\ creator' = "end"
  /\ Free
  /\ UNCHANGED place

-----------------------------------------------------------------------------
(* SharedMemoryWrite and SharedMemoryRead. *)

Running(u) == place[u] < 5 /\ pc[u] # "crashed"

StartTool(u) ==
  /\ creator \in {"key", "end"}
  /\ place[u] = 5
  /\ place' = [place EXCEPT ![u] = 0]
  /\ UNCHANGED <<vars, creator>>

(* Mutation of NextCall: the writer starts at the last slot.               *)
NextCallBackwards(u) ==
  /\ Running(u)
  /\ \/ BeginRead(u, place[u])
     \/ \E s \in Strings[4 - place[u]] : BeginWrite(u, 4 - place[u], s)
     \/ Crash(u)
  /\ UNCHANGED <<creator, place>>

NextCall(u) ==
  /\ Running(u)
  /\ \/ BeginRead(u, place[u])
     \/ \E s \in Strings[place[u]] : BeginWrite(u, place[u], s)
     \/ Crash(u)
  /\ UNCHANGED <<creator, place>>

(* Inside a call; the loop goes on when it returns.                        *)
InsideCall(u) ==
  /\ WriteByte(u) \/ TestByte(u) \/ CopyByte(u) \/ EndRead(u)
  /\ UNCHANGED <<creator, place>>

CallReturns(u) ==
  /\ EndWrite(u) \/ Return(u)
  /\ place' = [place EXCEPT ![u] = @ + 1]
  /\ UNCHANGED creator

(* A tool is killed, inside a call or between two.                         *)
KillTool(u) ==
  /\ Running(u) /\ u \in Mortal
  /\ \/ Kill(u)
     \/ pc[u] = "idle" /\ UNCHANGED vars
  /\ place' = [place EXCEPT ![u] = 5]
  /\ UNCHANGED creator

Tool(u) == NextCall(u) \/ InsideCall(u) \/ CallReturns(u)

ToolsNext ==
  \/ alloc \/ displaySharedMemory \/ KeyPressed
  \/ \E u \in Users : StartTool(u) \/ Tool(u) \/ KillTool(u)

(* A tool that runs is scheduled; whether the user starts one, kills one   *)
(* or presses a key is up to him.                                          *)
ToolsFairness == \A u \in Users : WF_toolVars(Tool(u))

ToolsSpec == ToolsInit /\ [][ToolsNext]_toolVars /\ ToolsFairness

-----------------------------------------------------------------------------
(* Properties. *)

(* The bytes of slot i, and whether a write to it ever got anywhere.       *)
Slot(i) == [b \in 1 .. 5 |-> seg[1 + i * 5 + b]]
Blank(i) == \A b \in 1 .. 5 : Slot(i)[b] = NUL
Complete(i) == UpToNUL(Slot(i)) = buffer[i + 1]

(* The slots fill in the order of the writer's loop: once a byte of one is *)
(* written, the ones before it hold their strings, and keep them while the *)
(* writer is killed, started over and writes the same strings again.       *)
FilledInOrder == \A i, h \in Slots : h < i /\ ~Blank(i) => Complete(h)

(* Although nothing is locked, a reader sees no other text than what one   *)
(* of the writers has written so far: a beginning of the string of the     *)
(* slot, and the whole string if some write of it had ended before.        *)
ReadsTheText ==
  \A u \in Readers : pc[u] = "returned" =>
    /\ IsPrefix(str[u], buffer[pos[u] + 1])
    /\ << >> \notin candidates[u] => str[u] = buffer[pos[u] + 1]

(* A tool comes to its end, also when the segment is freed under it or     *)
(* another one is killed in the middle of a write.                         *)
EveryToolEnds == \A u \in Users : Running(u) ~> ~Running(u)
=============================================================================
