------------------------------- MODULE MCTcp --------------------------------
(***************************************************************************)
(* The TCP testbed for TLC.  The configurations use the program's own      *)
(* limits (3 retries, 3 heartbeats, 3 connect attempts), which the state   *)
(* space allows; only how often the receiver is started is a bound.        *)
(***************************************************************************)
EXTENDS TcpScenarios

(* Every argument parse_fault_mode accepts.                                *)
AllFaultModes == {"None", "DropAck", "DelayAck", "CorruptData", "Disconnect"}

=============================================================================
