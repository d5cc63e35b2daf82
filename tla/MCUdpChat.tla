----------------------------- MODULE MCUdpChat -----------------------------
(* The module TLC checks for UdpChat. *)
EXTENDS UdpChat
=============================================================================
