--------------------------- MODULE MCPerfWalshDCT ---------------------------
(* The module TLC checks for PerfWalshDCT. *)
EXTENDS PerfWalshDCT
=============================================================================
