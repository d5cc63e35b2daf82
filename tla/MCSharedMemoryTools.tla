------------------------ MODULE MCSharedMemoryTools ------------------------
(* The module TLC checks for SharedMemoryTools. *)
EXTENDS SharedMemoryToolsInvariants
=============================================================================
