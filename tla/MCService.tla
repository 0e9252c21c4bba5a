----------------------------- MODULE MCService ------------------------------
(***************************************************************************)
(* The receiver and its clients for TLC: DATA, which a second client may   *)
(* repeat, a heartbeat with the same number, and a packet that is no       *)
(* request.                                                                *)
(***************************************************************************)
EXTENDS TcpService

MCRequests ==
  {Packet("Data", 1), Packet("Heartbeat", 1), Packet("Ack", 1)}

=============================================================================
