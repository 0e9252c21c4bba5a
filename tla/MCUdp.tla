------------------------------- MODULE MCUdp --------------------------------
(***************************************************************************)
(* The UDP pair for TLC.                                                   *)
(***************************************************************************)
EXTENDS UdpSystem

(* The sequences of sender.cpp's two modes.                                *)
SentSequences == {1, 2, 3}

=============================================================================
