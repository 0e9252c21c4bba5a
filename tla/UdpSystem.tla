----------------------------- MODULE UdpSystem ------------------------------
(***************************************************************************)
(* The UDP pair: sender and receiver, and a network that may delay,        *)
(* reorder, lose and duplicate every datagram.                             *)
(***************************************************************************)
EXTENDS UdpSender, UdpReceiver

vars == <<netVars, senderVars, receiverVars>>

Init ==
  /\ NetInit
  /\ SenderInit
  /\ ReceiverInit

SenderStep   == SenderNext    /\ UNCHANGED receiverVars
ReceiverStep == ReceiverNext  /\ UNCHANGED senderVars
NetStep      == NetDuplicates /\ UNCHANGED <<senderVars, receiverVars>>

Next == SenderStep \/ ReceiverStep \/ NetStep

Spec == Init /\ [][Next]_vars

(* The operating system runs the sender.  Nothing makes a datagram arrive, *)
(* and nothing starts or kills a receiver.                                 *)
FairSpec == Spec /\ WF_vars(SenderStep)

-----------------------------------------------------------------------------
(* Every variable keeps its type: in particular no sequence is sent more   *)
(* than MaxRetries + 1 times, and only DATA being handled is answered.     *)
TypeOK ==
  /\ NetTypeOK
  /\ SenderTypeOK
  /\ ReceiverTypeOK

Processed(n) == \E i \in DOMAIN delivered : delivered[i].seq = n

(* An ACK means "processed", on the way and once matched: the receiver     *)
(* handles DATA before it answers.                                         *)
AcksAreHonest ==
  /\ \A n \in DataSequences : OnTheWay(AckPacket(n)) => Processed(n)
  /\ \A n \in completed_sequences : Processed(n)

(* One receiver process hands a sequence to the application once, however  *)
(* often it arrives.                                                       *)
ProcessedOnce ==
  \A i, j \in DOMAIN delivered : delivered[i] = delivered[j] => i = j

(* An ACK that comes late, again, or after an older one was matched never  *)
(* makes the sender give up: also not in the order 1, 3, 2, where a stale  *)
(* ACK may be of a larger sequence than the current one.                   *)
NoSequenceMismatch ==
  sender_error \notin {"expected empty ACK", "ACK sequence mismatch"}

(* A process reports a sequence as out of order exactly when one before it *)
(* was missing at the moment it came.                                      *)
GapsReported ==
  \A i \in DOMAIN delivered :
    delivered[i].process = starts =>
      (delivered[i].seq \in reported <=>
         \E n \in 1 .. delivered[i].seq - 1 :
           ~\E j \in 1 .. i - 1 : delivered[j] = [process |-> starts, seq |-> n])

-----------------------------------------------------------------------------
(* Whatever is lost, the sender ends.                                      *)
SenderTerminates == <>SenderEnded

Transfer == INSTANCE ReliableTransfer WITH
  Plans     <- Orders,
  Processes <- MaxStarts,
  plan      <- order,
  taken     <- delivered,
  confirmed <- IF sender_pc = "done" THEN Len(order) ELSE next - 1,
  outcome   <- IF sender_pc = "done" THEN "succeeded"
               ELSE IF sender_pc = "failed" THEN "failed" ELSE "running"

(* The two programs implement the transfer: every step of a process or of  *)
(* the network is a step of the transfer or invisible to it.               *)
ImplementsTransfer == Transfer!TransferSpec

=============================================================================
