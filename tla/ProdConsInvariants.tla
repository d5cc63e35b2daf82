------------------------- MODULE ProdConsInvariants -------------------------
(***************************************************************************)
(* Inductive invariants of ProdCons, from which the theorems of module     *)
(* ProdConsProofs follow.                                                  *)
(***************************************************************************)
EXTENDS ProdConsFifo

(* The process left the constructor of its buffer. *)
Constructed(p) == pc[p] \in {"run", "check", "test", "set"} \cup Critical

(* The constructor's reads and writes, cut short or not, leave both slots  *)
(* written before any process uses the buffer, the count first; a process  *)
(* that read a count still finds one.                                      *)
SlotsWritten ==
  /\ memAvailable # Empty => memCount # Empty
  /\ \A p \in Procs :
       /\ Constructed(p) => memAvailable # Empty
       /\ pc[p] = "ctor_write_available" => memCount # Empty
       /\ pc[p] = "ctor_read_available" /\ ~blank[p] => memCount # Empty

Checked == {"test", "set", "load"}

(* What the producer learned when it tested the count stays true until it  *)
(* stores its own, because a consumer never stores more than               *)
(* bufferSize - 1 and a constructor only 0; likewise for the consumer.     *)
(* While the producer constructs with a slot missing, nothing was ever     *)
(* inserted.                                                               *)
CountStays ==
  /\ CountInRange
  /\ memAvailable = Empty => memCount \in {Empty, 0}
  /\ pc[producer] \in Checked => memCount # bufferSize
  /\ pc[producer] = "store" => count[producer] \in 1 .. bufferSize
  /\ \/ pc[producer] = "ctor_read_available" /\ blank[producer]
     \/ pc[producer] \in {"ctor_write_count", "ctor_write_available"}
     => memCount \in {Empty, 0} /\ pc[consumer] # "store"
  /\ pc[consumer] \in Checked => memCount # 0
  /\ pc[consumer] = "store" => count[consumer] \in 0 .. bufferSize - 1

(* As long as test-and-sets do not overlap, what a process read in one is  *)
(* still in the slots, and nobody is past the constructor while a          *)
(* constructor finds a slot missing.                                       *)
TokenHeld ==
  /\ MutualExclusion
  /\ \A p \in Procs :
       /\ pc[p] \in Critical => memAvailable = "false"
       /\ pc[p] = "set" => memAvailable = "true"
       /\ pc[p] = "ctor_read_available" /\ blank[p] => memCount = Empty
       /\ pc[p] \in {"ctor_write_count", "ctor_write_available"} =>
            \A q \in Procs : ~Constructed(q)

(* The places of f items, the oldest of them at position o.                *)
Places(o, f) == {Place(o + i) : i \in 0 .. f - 1}

(* The place after the youngest item.                                      *)
NextFree == index[producer] + (IF pc[producer] = "release" THEN 1 ELSE 0)

(* From the end of Producer.run's step to the write of its message.        *)
Holding == {"check", "test", "set", "load", "store", "access"}

(* The two positions are Filled places apart, the places between them are  *)
(* the ones not read yet, and the producer's id follows its message.       *)
(* Until the producer is past its constructor, nothing was inserted and    *)
(* the consumer has not come past its test of the count.                   *)
RingInStep ==
  /\ Filled \in 0 .. bufferSize
  /\ Place(Oldest + Filled) = Place(NextFree)
  /\ unread = Places(Oldest, Filled)
  /\ pc[producer] \in Holding =>
       item[producer] \in Ids /\ id[producer] = (item[producer] + 1) % MaxId
  /\ ~Constructed(producer) =>
       memCount \in {Empty, 0} /\ pc[consumer] \notin {"store", "access", "release"}
=============================================================================
