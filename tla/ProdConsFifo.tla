---------------------------- MODULE ProdConsFifo ----------------------------
(***************************************************************************)
(* The shared segment of ProdCons seen as the queue of Buffer.  An insert  *)
(* takes effect when the item is written, a remove when it is read; at     *)
(* that moment the shared count was already changed and the position of    *)
(* the process not yet, so the mapping corrects both for a process that    *)
(* stands before or after its access.                                      *)
(***************************************************************************)
EXTENDS ProdCons, Sequences

(* The number of items between the two positions. *)
Filled ==
  IF memCount = Empty THEN 0
  ELSE memCount + (IF pc[consumer] = "access" THEN 1 ELSE 0)
                - (IF pc[producer] = "access" THEN 1 ELSE 0)

Oldest == index[consumer] + (IF pc[consumer] = "release" THEN 1 ELSE 0)

(* The place of a position on the ring; the contents m of f of its places. *)
Place(x) == x % bufferSize
Items(m, o, f) == [i \in 1 .. f |-> m[Place(o + (i - 1))]]

(* The message in the producer's hands, or the one it will make. *)
Upcoming ==
  IF pc[producer] \in {"check", "test", "set", "load", "store", "access"}
  THEN item[producer] ELSE id[producer]

Fifo == INSTANCE Buffer WITH
  Capacity <- bufferSize,
  None <- Empty,
  queue <- Items(memItems, Oldest, Filled),
  next <- Upcoming,
  removed <- item[consumer]

(* As long as test-and-sets do not overlap and nobody is killed, insert()  *)
(* and remove() exchange messages through a bounded first-in first-out     *)
(* queue: none is lost, none is delivered twice, none overtakes another.   *)
ImplementsBuffer == Fifo!Spec
=============================================================================
