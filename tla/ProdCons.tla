------------------------------ MODULE ProdCons ------------------------------
(***************************************************************************)
(* The producer/consumer program of APP6/ProdCons, with one producer and   *)
(* one consumer.  Each is an operating-system process of its own (one JVM  *)
(* started by Server.main); the two share nothing but one segment of       *)
(* System V memory, cut into string slots:                                 *)
(*                                                                         *)
(*   0 .. bufferSize - 1    the ring of items                              *)
(*   sharedMemorySize - 2   the token of the mutex, "true" or "false"      *)
(*   sharedMemorySize - 1   the number of items, in decimal                *)
(*                                                                         *)
(* One call of SharedMemory.read or SharedMemory.write is one step.  That  *)
(* is what module SharedMemory, which models the bytes of a slot, shows of *)
(* the token, which while it is overwritten reads as neither "true" nor    *)
(* the empty string, which is all that "false" means here, and of a count  *)
(* of one digit.  Hence the bound on the size, and the one process of each *)
(* kind: two consumers could take the count to "-1", which is written in   *)
(* two bytes.  CountInRange says that one of each keeps to one digit.  The *)
(* code that runs between two such calls touches only the process's own    *)
(* fields and belongs to the step before it.                               *)
(***************************************************************************)
EXTENDS Integers

CONSTANTS
  producer,          (* the process started with the argument "p"          *)
  consumer,          (* the process started with the argument "c"          *)
  sharedMemorySize,  (* the number of slots given to every process         *)
  MaxId,             (* Producer.run restarts its ids at this value: 10000 *)
  Mortal,            (* the processes that may be killed                   *)
  Empty              (* the content of a slot nobody wrote                 *)

Procs == {producer, consumer}

bufferSize == sharedMemorySize - 2

Positions == 0 .. bufferSize - 1

(* The message "P<id>" of Producer.run is represented by its id. *)
Ids == 0 .. MaxId - 1

Constructing == {"ctor_read_count", "ctor_read_available",
                 "ctor_write_count", "ctor_write_available"}

(* From the end of acquire() to the end of release(). *)
Critical == {"load", "store", "access", "release"}

Labels == {"off", "run", "check", "test", "set"} \cup Constructing \cup Critical

ASSUME ProdConsAssumption ==
  /\ producer # consumer
  /\ sharedMemorySize \in 3 .. 11   (* below 3 the constructor exits,  *)
                                     (* above 11 the count has 2 digits  *)
  /\ MaxId \in Nat \ {0}
  /\ Mortal \subseteq Procs
  /\ Empty \notin Int
  /\ Empty \notin {"true", "false"}

VARIABLES
  memCount,      (* slot sharedMemorySize - 1                              *)
  memAvailable,  (* slot sharedMemorySize - 2                              *)
  memItems,      (* slots 0 .. bufferSize - 1                              *)
  pc,            (* where each process is                                  *)
  blank,         (* memoryValueOfCount.isEmpty() in the constructor        *)
  count,         (* BoundedBuffer.count, a private field of each process   *)
  index,         (* BoundedBuffer.in of a producer, .out of a consumer     *)
  id,            (* Producer.id                                            *)
  item,          (* the message being inserted, or the last one removed    *)
  unread         (* history: positions inserted into and not removed since *)

mem == <<memCount, memAvailable, memItems>>
fields == <<blank, count, index, id, item>>
vars == <<mem, pc, fields, unread>>

Init ==
  /\ memCount = Empty
  /\ memAvailable = Empty
  /\ memItems = [i \in Positions |-> Empty]
  /\ pc = [p \in Procs |-> "off"]
  /\ blank = [p \in Procs |-> FALSE]
  /\ count = [p \in Procs |-> 0]
  /\ index = [p \in Procs |-> 0]
  /\ id = [p \in Procs |-> 0]
  /\ item = [p \in Procs |-> Empty]
  /\ unread = {}

Goto(p, from, to) ==
  /\ pc[p] = from
  /\ pc' = [pc EXCEPT ![p] = to]

-----------------------------------------------------------------------------
(* Server.main and the constructor of BoundedBuffer. *)

Start(p) ==
  /\ Goto(p, "off", "ctor_read_count")
  /\ UNCHANGED <<mem, fields, unread>>

ReadCount(p) ==
  /\ Goto(p, "ctor_read_count", "ctor_read_available")
  /\ blank' = [blank EXCEPT ![p] = (memCount = Empty)]
  /\ UNCHANGED <<mem, count, index, id, item, unread>>

(* Mutation of ReadAvailable: a token that is away counts as missing.      *)
ReadAvailableRepairs(p) ==
  /\ Goto(p, "ctor_read_available",
          IF memAvailable # "true" \/ blank[p] THEN "ctor_write_count" ELSE "run")
  /\ UNCHANGED <<mem, fields, unread>>

ReadAvailable(p) ==
  /\ \/ /\ memAvailable = Empty \/ blank[p]
        /\ Goto(p, "ctor_read_available", "ctor_write_count")
     \/ /\ memAvailable # Empty /\ ~blank[p]
        /\ Goto(p, "ctor_read_available", "run")
  /\ UNCHANGED <<mem, fields, unread>>

(* Mutation of WriteCount: the count is not written.                       *)
WriteCountForgotten(p) ==
  /\ Goto(p, "ctor_write_count", "ctor_write_available")
  /\ UNCHANGED <<mem, fields, unread>>

WriteCount(p) ==
  /\ Goto(p, "ctor_write_count", "ctor_write_available")
  /\ memCount' = 0
  /\ UNCHANGED <<memAvailable, memItems, fields, unread>>

WriteAvailable(p) ==
  /\ Goto(p, "ctor_write_available", "run")
  /\ memAvailable' = "true"
  /\ UNCHANGED <<memCount, memItems, fields, unread>>

-----------------------------------------------------------------------------
(* ImpConcurrenceControl: the test and the set are two accesses. *)

(* Mutation of AcquireTest: the token is not tested.                       *)
AcquireTestBlind(p) ==
  /\ Goto(p, "test", "set")
  /\ UNCHANGED <<mem, fields, unread>>

AcquireTest(p) ==
  /\ \/ memAvailable = "true" /\ Goto(p, "test", "set")
     \/ memAvailable # "true" /\ Goto(p, "test", "check")
  /\ UNCHANGED <<mem, fields, unread>>

AcquireSet(p) ==
  /\ Goto(p, "set", "load")
  /\ memAvailable' = "false"
  /\ UNCHANGED <<memCount, memItems, fields, unread>>

(* Mutation of Release: the token is not put back.                         *)
ReleaseForgotten(p) ==
  /\ Goto(p, "release", "run")
  /\ index' = [index EXCEPT ![p] = (index[p] + 1) % bufferSize]
  /\ UNCHANGED <<mem, blank, count, id, item, unread>>

(* Mutation of Release: the position runs past the end of the ring.        *)
ReleaseNoWrap(p) ==
  /\ Goto(p, "release", "run")
  /\ memAvailable' = "true"
  /\ index' = [index EXCEPT ![p] = index[p] + 1]
  /\ UNCHANGED <<memCount, memItems, blank, count, id, item, unread>>

(* Mutation of Release: the last place of the ring is never used.          *)
ReleaseShortRing(p) ==
  /\ Goto(p, "release", "run")
  /\ memAvailable' = "true"
  /\ index' = [index EXCEPT ![p] = (index[p] + 1) % (bufferSize - 1)]
  /\ UNCHANGED <<memCount, memItems, blank, count, id, item, unread>>

(* release(), then the last statement of insert or remove, which advances  *)
(* the process's own position.                                             *)
Release(p) ==
  /\ Goto(p, "release", "run")
  /\ memAvailable' = "true"
  /\ index' = [index EXCEPT ![p] = (index[p] + 1) % bufferSize]
  /\ UNCHANGED <<memCount, memItems, blank, count, id, item, unread>>

(* The two accesses to the count inside the critical section. *)
LoadCount(p, delta) ==
  /\ Goto(p, "load", "store")
  /\ count' = [count EXCEPT ![p] = memCount + delta]
  /\ UNCHANGED <<mem, blank, index, id, item, unread>>

(* Mutation of StoreCount: only the private field is updated.              *)
StoreCountForgotten(p) ==
  /\ Goto(p, "store", "access")
  /\ UNCHANGED <<mem, fields, unread>>

StoreCount(p) ==
  /\ Goto(p, "store", "access")
  /\ memCount' = count[p]
  /\ UNCHANGED <<memAvailable, memItems, fields, unread>>

-----------------------------------------------------------------------------
(* Producer.run and BoundedBuffer.insert. *)

Produce(p) ==
  /\ Goto(p, "run", "check")
  /\ item' = [item EXCEPT ![p] = id[p]]
  /\ id' = [id EXCEPT ![p] = IF id[p] + 1 >= MaxId THEN 0 ELSE id[p] + 1]
  /\ UNCHANGED <<mem, blank, count, index, unread>>

(* Mutation of InsertCheck: the producer does not wait for a free place.   *)
InsertUnchecked(p) ==
  /\ Goto(p, "check", "test")
  /\ UNCHANGED <<mem, fields, unread>>

(* While the buffer is full the process sleeps and reads again: no step. *)
InsertCheck(p) ==
  /\ memCount # bufferSize
  /\ Goto(p, "check", "test")
  /\ UNCHANGED <<mem, fields, unread>>

InsertItem(p) ==
  /\ Goto(p, "access", "release")
  /\ memItems' = [memItems EXCEPT ![index[p]] = item[p]]
  /\ unread' = unread \cup {index[p]}
  /\ UNCHANGED <<memCount, memAvailable, fields>>

(* Consumer.run and BoundedBuffer.remove. *)

Consume(c) ==
  /\ Goto(c, "run", "check")
  /\ UNCHANGED <<mem, fields, unread>>

(* Mutation of RemoveCheck: the consumer does not wait for an item.        *)
RemoveUnchecked(c) ==
  /\ Goto(c, "check", "test")
  /\ UNCHANGED <<mem, fields, unread>>

RemoveCheck(c) ==
  /\ memCount # 0
  /\ Goto(c, "check", "test")
  /\ UNCHANGED <<mem, fields, unread>>

RemoveItem(c) ==
  /\ Goto(c, "access", "release")
  /\ item' = [item EXCEPT ![c] = memItems[index[c]]]
  /\ unread' = unread \ {index[c]}
  /\ UNCHANGED <<mem, blank, count, index, id>>

-----------------------------------------------------------------------------
(* A process that is killed loses its fields, the segment keeps its slots; *)
(* the write it was about to make may have left a token that is neither    *)
(* "true" nor empty.                                                       *)
WritesToken == {"ctor_write_available", "set", "release"}

Kill(p) ==
  /\ p \in Mortal
  /\ pc[p] # "off"
  /\ pc' = [pc EXCEPT ![p] = "off"]
  /\ blank' = [blank EXCEPT ![p] = FALSE]
  /\ count' = [count EXCEPT ![p] = 0]
  /\ index' = [index EXCEPT ![p] = 0]
  /\ id' = [id EXCEPT ![p] = 0]
  /\ item' = [item EXCEPT ![p] = Empty]
  /\ \/ UNCHANGED memAvailable
     \/ pc[p] \in WritesToken /\ memAvailable' = "false"
  /\ UNCHANGED <<memCount, memItems, unread>>

Construct(p) ==
  ReadCount(p) \/ ReadAvailable(p) \/ WriteCount(p) \/ WriteAvailable(p)

Mutex(p) == AcquireTest(p) \/ AcquireSet(p) \/ Release(p)

Insert(p) ==
  Produce(p) \/ InsertCheck(p) \/ LoadCount(p, 1) \/ StoreCount(p) \/ InsertItem(p)

Remove(c) ==
  Consume(c) \/ RemoveCheck(c) \/ LoadCount(c, -1) \/ StoreCount(c) \/ RemoveItem(c)

(* What a running process does by itself. *)
Step(p) ==
  \/ Construct(p)
  \/ Mutex(p)
  \/ p = producer /\ Insert(p)
  \/ p = consumer /\ Remove(p)

Next == \E p \in Procs : Step(p) \/ Start(p) \/ Kill(p)

(* Every process that runs is scheduled again and again, and every sleep   *)
(* ends; whether a process is started or killed is the user's choice.      *)
Fairness == \A p \in Procs : WF_vars(Step(p))

Spec == Init /\ [][Next]_vars /\ Fairness

-----------------------------------------------------------------------------
(* Behaviours that are told apart below: a process is between a test and   *)
(* the set that depends on it, in acquire() or in the constructor.         *)
InConstructor == {"ctor_read_available", "ctor_write_count", "ctor_write_available"}
TestAndSet == {"set"} \cup InConstructor

(* The two processes are not there together.                               *)
Apart == \A p, q \in Procs : pc[p] \in TestAndSet /\ pc[q] \in TestAndSet => p = q

(* Nobody is there, or holds the token.                                    *)
Idle == \A p \in Procs : pc[p] \notin TestAndSet \cup Critical

(* A step that kills nobody.                                               *)
Survived == \A p \in Procs : pc'[p] = "off" => pc[p] = "off"

(* Test-and-sets never overlap, and nobody is killed.                      *)
Undisturbed == []Apart /\ [][Survived]_vars

-----------------------------------------------------------------------------
(* Properties. *)

(* Every variable keeps its type; a local count is an integer of any sign. *)
TypeOK ==
  /\ memCount \in Int \cup {Empty}
  /\ memAvailable \in {"true", "false", Empty}
  /\ memItems \in [Positions -> Ids \cup {Empty}]
  /\ pc \in [Procs -> Labels]
  /\ blank \in [Procs -> BOOLEAN]
  /\ count \in [Procs -> Int]
  /\ index \in [Procs -> Positions]
  /\ id \in [Procs -> Ids]
  /\ item \in [Procs -> Ids \cup {Empty}]
  /\ unread \in SUBSET Positions

(* A process that is about to parse the count finds a number in the slot:  *)
(* Integer.parseInt in insert and remove never throws, whatever the order  *)
(* in which the constructors of the two ran or were cut short.             *)
ParsesAnInteger ==
  \A p \in Procs : pc[p] \in {"check", "load"} => memCount # Empty

(* As long as nobody is killed, the token is absent only while a process   *)
(* is inside its critical section and so is going to put it back, even     *)
(* though acquire() may let both of them take it at once.                  *)
TokenNotLost ==
  memAvailable = "false" => \E p \in Procs : pc[p] \in Critical

(* The shared count stays between 0 and the size of the buffer, although   *)
(* insert and remove test it before they hold the mutex.                   *)
CountInRange == memCount # Empty => memCount \in 0 .. bufferSize

(* "It allows only one process at the time to acquire a lock on a          *)
(* resource" (ImpConcurrenceControl.java:7).                               *)
MutualExclusion ==
  \A p, q \in Procs : pc[p] \in Critical /\ pc[q] \in Critical => p = q

(* What acquire() does provide: the overlap of two test-and-sets is the    *)
(* only way to break the exclusion, and it heals.  Whatever happened       *)
(* before, killed processes and two of them with the token included, once  *)
(* both are outside at the same time they exclude each other until their   *)
(* test-and-sets overlap again.                                            *)
ExclusionReturns == [](Idle /\ []Apart => []MutualExclusion)

(* No update of the count is lost: from the read of the count to its write *)
(* in insert or remove nobody else writes the slot.                        *)
NoLostUpdate ==
  /\ pc[producer] = "store" => count[producer] = memCount + 1
  /\ pc[consumer] = "store" => count[consumer] = memCount - 1

(* Likewise for the read of the count and its write (BoundedBuffer.java    *)
(* 70-72 and 97-99), which a late constructor could disturb as well: once  *)
(* both are outside, every store is of the number in the slot, plus or     *)
(* minus one, until test-and-sets overlap again.                           *)
UpdatesReturn == [](Idle /\ []Apart => []NoLostUpdate)

(* "in points to the next free position in the buffer"                     *)
(* (BoundedBuffer.java:19), at the moment insert() writes there.           *)
NextPositionFree == pc[producer] = "access" => index[producer] \notin unread

(* "out points to the next full position in the buffer"                    *)
(* (BoundedBuffer.java:20), at the moment remove() reads there.            *)
NextPositionFull == pc[consumer] = "access" => index[consumer] \in unread

(* "write to the memory the count and the available if it is not already   *)
(* written" (BoundedBuffer.java:48-49): when the constructor starts to     *)
(* write, one of the two is still missing.                                 *)
WritesOnlyIfMissing ==
  \A p \in Procs :
    pc[p] = "ctor_write_count" => memCount = Empty \/ memAvailable = Empty

(* The token is away and nobody will bring it back: neither a process in   *)
(* its critical section or about to enter it, nor a constructor that is    *)
(* about to write the slot.                                                *)
TokenLost ==
  /\ memAvailable = "false"
  /\ \A p \in Procs :
       /\ pc[p] \notin Critical \cup {"set", "ctor_write_count", "ctor_write_available"}
       /\ ~(pc[p] = "ctor_read_available" /\ blank[p])

(* Once a process was killed while it held the token, no step of any       *)
(* process, a restarted one included, ever recovers it.                    *)
TokenLossIsPermanent == [][TokenLost => TokenLost']_vars

(* "Sleep than produce a message, an infinite number of time"              *)
(* (Producer.java:24), and the same of Consumer.java:25: if the token is   *)
(* never lost and from some time on every process is running, each of them *)
(* completes calls for ever, whatever was killed and restarted before.     *)
EverybodyKeepsWorking ==
  <>[](\A q \in Procs : pc[q] # "off") /\ []~TokenLost =>
    \A p \in Procs : []<>(pc[p] = "release")
=============================================================================
