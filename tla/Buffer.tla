------------------------------- MODULE Buffer -------------------------------
(***************************************************************************)
(* What the interface Buffer promises to one producer and one consumer:    *)
(* insert and remove behave as single steps on a first-in first-out queue  *)
(* of bounded length.  The producer numbers its messages and starts again  *)
(* at MaxId, so that the order and the number of deliveries are visible.   *)
(***************************************************************************)
EXTENDS Naturals, Sequences

CONSTANTS
  Capacity,  (* the length of the buffer, at least 1          *)
  MaxId,     (* number of different messages of the producer  *)
  None       (* nothing removed yet                           *)

VARIABLES
  queue,    (* the messages inserted and not removed, oldest first *)
  next,     (* the message the producer inserts next               *)
  removed   (* the message the consumer removed last               *)

bvars == <<queue, next, removed>>

Init == queue = << >> /\ next = 0 /\ removed = None

Insert ==
  /\ Len(queue) < Capacity
  /\ queue' = Append(queue, next)
  /\ next' = (next + 1) % MaxId
  /\ UNCHANGED removed

Remove ==
  /\ queue # << >>
  /\ removed' = Head(queue)
  /\ queue' = Tail(queue)
  /\ UNCHANGED next

Next == Insert \/ Remove

Spec == Init /\ [][Next]_bvars
=============================================================================
