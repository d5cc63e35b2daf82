----------------------------- MODULE MCTcpChat -----------------------------
(* The module TLC checks for TcpChat. *)
EXTENDS TcpChat
=============================================================================
