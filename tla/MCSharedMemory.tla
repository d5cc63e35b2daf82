--------------------------- MODULE MCSharedMemory ---------------------------
(* Values of the constants of SharedMemory for the model checker. *)
EXTENDS SharedMemoryInvariants

(* "true" and "false" cut down for slots of 3 bytes instead of 5: the two  *)
(* differ in every byte, one leaves room for the NUL and the other is      *)
(* longer than the slot.                                                   *)
Token == {<<116, 114>>, <<102, 97, 108, 115>>}

(* Counts of one digit.                                                    *)
Digits == {<<48>>, <<49>>}

TokenThenCount == [i \in Slots |-> IF i = 0 THEN Token ELSE Digits]

(* The hypothesis of the theorem on KnownStringWasStored.                  *)
ASSUME StringsDiffer == FirstCharacterTells
=============================================================================
