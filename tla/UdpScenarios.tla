---------------------------- MODULE UdpScenarios ----------------------------
(***************************************************************************)
(* The tests of docs/phase-4.md section 7 and of the regression suite: the *)
(* receiver is started first, in the mode that belongs to the sender's,    *)
(* and nobody kills it.  The machine is quick: an answer that is on its    *)
(* way comes within the sender's 1000 ms, so that a deadline passes only   *)
(* when nothing can still answer.  The network may lose and copy some      *)
(* datagrams, as the relay of the regression suite does.                   *)
(***************************************************************************)
EXTENDS UdpSystem

CONSTANT MaxLost       \* bound: datagrams the network loses

VARIABLES
  lost,                \* datagrams lost so far
  lost_acks            \* history: sequences of which an ACK was lost

quickVars == <<vars, lost, lost_acks>>

(* Which arguments belong together.                                        *)
Tests == {<< <<1>>, "normal" >>, << <<1>>, "drop-first-ack" >>,
          << <<1, 3, 2>>, "out-of-order" >>}

QuickInit == Init /\ lost = 0 /\ lost_acks = {}

StartTest ==
  /\ starts = 0
  /\ ReceiverStart
  /\ <<order, receiver_mode'>> \in Tests

(* It has an ACK to send, or DATA to take: ReceiverRun is enabled.         *)
ReceiverBusy ==
  \/ receiver_pc = "reply"
  \/ receiver_pc = "recv" /\ \E d \in Datagram : d.to = "receiver" /\ OnTheWay(d)

NoAnswerComes ==
  /\ ~ReceiverBusy
  /\ \A n \in DataSequences : ~OnTheWay(AckPacket(n))

QuickSender ==
  /\ starts > 0
  /\ \/ SendData
     \/ ReadAck
     \/ AckTimeout /\ NoAnswerComes

Lose ==
  /\ lost < MaxLost
  /\ lost' = lost + 1
  /\ \E d \in Datagram :
       /\ OnTheWay(d)
       /\ net' = [net EXCEPT ![d] = @ - 1]
       /\ lost_acks' = IF d.type = "Ack" THEN lost_acks \cup {d.seq} ELSE lost_acks
  /\ UNCHANGED <<duplicated, senderVars, receiverVars>>

(* What the programs do.                                                   *)
QuickStep ==
  /\ \/ QuickSender /\ UNCHANGED receiverVars
     \/ (StartTest \/ ReceiverRun) /\ UNCHANGED senderVars
  /\ UNCHANGED <<lost, lost_acks>>

QuickNext == QuickStep \/ Lose \/ (NetStep /\ UNCHANGED <<lost, lost_acks>>)

(* The programs run; nothing need be lost or copied.                       *)
QuickSpec == QuickInit /\ [][QuickNext]_quickVars /\ WF_quickVars(QuickStep)

-----------------------------------------------------------------------------
LastSequence == order[Len(order)]
OwnDrops     == IF ack_dropped THEN 1 ELSE 0

(* Everything was processed, once and in the order it was sent.            *)
AllProcessed == [i \in DOMAIN delivered |-> delivered[i].seq] = order

Succeeded ==
  /\ sender_pc = "done"
  /\ receiver_pc = "exited"
  /\ reported = IF receiver_mode = "out-of-order" THEN {3} ELSE {}
  /\ lost = 0 /\ duplicated = 0 =>
       attempt = IF receiver_mode = "drop-first-ack" THEN 2 ELSE 1

(* The receiver answers the last sequence once and exits.                  *)
AnswerLost ==
  /\ sender_error = "retry limit"
  /\ attempt = MaxRetries + 1
  /\ receiver_pc = "exited"

(* Each test ends as phase-4.md section 7 and candidate05.py record it:    *)
(* lost datagrams cost retries and nothing else as long as there are       *)
(* retries, the one ACK that the receiver drops costs exactly one, 3 is    *)
(* reported before 2; only the loss of the last ACK, after which the       *)
(* receiver has exited, makes the sender fail when all was processed.      *)
EndsAsDocumented ==
  <>[](/\ SenderEnded
       /\ lost + OwnDrops <= MaxRetries =>
            /\ AllProcessed
            /\ LastSequence \notin lost_acks => Succeeded
            /\ LastSequence \in lost_acks /\ duplicated = 0 => AnswerLost)

(* What this says of the sender, at every moment after it ended: unless    *)
(* more was lost than there are retries, everything was processed in the   *)
(* order it was sent, what came early was reported, and the sender ended   *)
(* well or did not get the answer to its last sequence.                    *)
EndedAsDocumented ==
  SenderEnded /\ lost + OwnDrops <= MaxRetries =>
    /\ AllProcessed
    /\ reported = IF receiver_mode = "out-of-order" THEN {3} ELSE {}
    /\ sender_pc = "failed" => AnswerLost /\ LastSequence \in lost_acks

(* A retry is always the answer to a loss.                                 *)
RetriesOnlyForLoss ==
  LastSequence \notin lost_acks => attempt - 1 <= lost + OwnDrops

=============================================================================
