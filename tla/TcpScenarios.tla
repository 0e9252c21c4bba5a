---------------------------- MODULE TcpScenarios ----------------------------
(***************************************************************************)
(* The scenarios of docs/phase-3.md and of the regression suite: the       *)
(* processes are started in order, nobody kills one, and the machine is    *)
(* quick.  Quick means that whatever the fault injector and the receiver   *)
(* can do takes less than the sender's 1000 ms deadline (an ACK held back  *)
(* for kAckDelayMs = 700 ms included) and less than the 2 s between        *)
(* heartbeats: a deadline passes and a heartbeat is sent only when the     *)
(* others have nothing left to do.                                         *)
(***************************************************************************)
EXTENDS TcpSystem

OthersIdle ==
  /\ ~ENABLED ProxyRun
  /\ ~ENABLED ReceiverRun

NothingToRead ==
  /\ sock[SenderEnd].buf = <<>>
  /\ ~AtEOF(SenderEnd)
  /\ ~PollErr(SenderEnd)

QuickSender ==
  \/ SenderConnect
  \/ SenderReadResponse
  \/ SenderConnectionLost
  \/ SenderSend    /\ (phase = "heartbeat" => OthersIdle)
  \/ SenderTimeout /\ OthersIdle /\ NothingToRead

QuickNext ==
  \/ QuickSender /\ proxy_pc # "down" /\ UNCHANGED <<proxyVars, receiverVars>>
  \/ ProxyRun /\ UNCHANGED <<senderVars, receiverVars>>
  \/ ProxyStart /\ starts > 0 /\ UNCHANGED <<senderVars, receiverVars>>
  \/ (ReceiverStart \/ ReceiverRun) /\ UNCHANGED <<senderVars, proxyVars>>

QuickSpec == Init /\ [][QuickNext]_vars /\ WF_vars(QuickNext)

Succeeded(attempts, connections) ==
  /\ sender_pc = "done"
  /\ attempt = attempts
  /\ fd = connections
  /\ Len(delivered) = 1

DocumentedOutcome ==
  CASE fault_mode = "None"        -> Succeeded(1, 1)
    [] fault_mode = "DelayAck"    -> Succeeded(1, 1)
    [] fault_mode = "DropAck"     -> Succeeded(2, 1)
    [] fault_mode = "Disconnect"  -> Succeeded(1, 2)
    [] fault_mode = "CorruptData" ->
         /\ sender_error = "connection lost"
         /\ receiver_pc = "exited"
         /\ delivered = <<>>

(* Every fault mode ends the way phase-3.md section 7 and runner.py record *)
(* it: a delayed ACK costs no retry, a dropped one exactly one and no      *)
(* second processing, a forced disconnect exactly one reconnect, and       *)
(* corrupted DATA ends the receiver unprocessed and then the sender.  No   *)
(* connection is reset: whoever finds one closed reads its end, as all the *)
(* logs of regression-summary.json have it ("peer disconnected").          *)
EndsAsDocumented ==
  /\ <>(SenderEnded /\ DocumentedOutcome)
  /\ [](\A e \in Ends : ~sock[e].rst)

=============================================================================
