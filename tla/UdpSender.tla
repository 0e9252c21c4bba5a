----------------------------- MODULE UdpSender ------------------------------
(***************************************************************************)
(* udp/sender.cpp: DATA packets one after the other, each sent at most     *)
(* MaxRetries + 1 times until its ACK comes.                               *)
(***************************************************************************)
EXTENDS UdpNet

CONSTANT MaxRetries      \* kMaxRetries

ASSUME UdpSenderAssumption ==
  /\ MaxRetries \in Nat
  /\ {1, 2, 3} \subseteq DataSequences   \* what main() sends

VARIABLES
  sender_pc,            \* "send", "wait", "done" or "failed"
  order,                \* the sequences main() sends, by its mode
  next,                 \* position of the current one
  attempt,              \* attempt of send_data_with_retry
  completed_sequences,  \* sequences whose ACK was matched
  sender_error          \* what the exception that ended main() says

senderVars == <<sender_pc, order, next, attempt, completed_sequences,
                sender_error>>

(* Without an argument, and with "out-of-order".                           *)
Orders == {<<1>>, <<1, 3, 2>>}

SenderErrors == {"none", "retry limit", "expected empty ACK",
                 "ACK sequence mismatch"}

SenderTypeOK ==
  /\ sender_pc \in {"send", "wait", "done", "failed"}
  /\ order \in Orders
  /\ next \in 1 .. Len(order)
  /\ attempt \in 1 .. MaxRetries + 1
  /\ completed_sequences \subseteq DataSequences
  /\ sender_error \in SenderErrors

SenderInit ==
  /\ sender_pc = "send"
  /\ order \in Orders
  /\ next = 1
  /\ attempt = 1
  /\ completed_sequences = {}
  /\ sender_error = "none"

Sequence == order[next]

SenderEnded == sender_pc \in {"done", "failed"}

SenderFail(reason) ==
  /\ sender_pc' = "failed"
  /\ sender_error' = reason
  /\ UNCHANGED <<next, attempt>>

(* wait_for_ack returned true: the next sequence, or close and exit.       *)
Acknowledged ==
  IF next = Len(order)
    THEN sender_pc' = "done" /\ UNCHANGED <<next, attempt, sender_error>>
    ELSE /\ sender_pc' = "send"
         /\ next' = next + 1
         /\ attempt' = 1
         /\ UNCHANGED sender_error

(* Faulty variant: one attempt too many.                                   *)
RetriesLeft_OneMore == attempt <= MaxRetries + 1

RetriesLeft == attempt <= MaxRetries

(* Faulty variant: a sequence without an ACK is given up for the next.     *)
NoAck_TakenForAck == Acknowledged

(* Faulty variant: the attempts are not counted.                           *)
NoAck_RetriesForever ==
  /\ sender_pc' = "send"
  /\ UNCHANGED <<next, attempt, sender_error>>

(* wait_for_ack returned false.                                            *)
NoAck ==
  IF RetriesLeft
    THEN /\ sender_pc' = "send"
         /\ attempt' = attempt + 1
         /\ UNCHANGED <<next, sender_error>>
    ELSE SenderFail("retry limit")

SendData ==
  /\ sender_pc = "send"
  /\ sender_pc' = "wait"
  /\ SendTo(DataPacket(Sequence))
  /\ UNCHANGED <<order, next, attempt, completed_sequences, sender_error,
                 duplicated>>

(* Faulty variant: an older sequence is taken for a completed one.         *)
Stale_ByOrder(n) == n < Sequence

(* The sequence was completed before; order 1, 3, 2 is no obstacle.        *)
Stale(n) == n \in completed_sequences

(* A datagram before the deadline.                                         *)
ReadAck ==
  /\ sender_pc = "wait"
  /\ \E d \in Datagram :
       /\ RecvFrom("sender", d)
       /\ IF d.type # "Ack"
            THEN /\ SenderFail("expected empty ACK")
                 /\ UNCHANGED completed_sequences
          ELSE IF d.seq = Sequence
            THEN /\ completed_sequences' = completed_sequences \cup {d.seq}
                 /\ Acknowledged
          ELSE IF Stale(d.seq)
            THEN UNCHANGED <<sender_pc, next, attempt, completed_sequences,
                             sender_error>>
          ELSE /\ SenderFail("ACK sequence mismatch")
               /\ UNCHANGED completed_sequences
  /\ UNCHANGED <<order, duplicated>>

(* A datagram is taken, but the deadline has passed by then.               *)
ReadLate ==
  /\ sender_pc = "wait"
  /\ \E d \in Datagram : RecvFrom("sender", d)
  /\ NoAck
  /\ UNCHANGED <<order, completed_sequences, duplicated>>

AckTimeout ==
  /\ sender_pc = "wait"
  /\ NoAck
  /\ UNCHANGED <<order, completed_sequences, net, duplicated>>

SenderNext == SendData \/ ReadAck \/ ReadLate \/ AckTimeout

=============================================================================
