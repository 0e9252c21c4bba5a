---------------------------- MODULE UdpReceiver -----------------------------
(***************************************************************************)
(* udp/receiver.cpp: process each DATA sequence once, report gaps, answer  *)
(* every DATA with an ACK, and exit when the mode of the command line says *)
(* that the test is over.                                                  *)
(*                                                                         *)
(* An operator may kill the receiver and start it again, in any mode; its  *)
(* memory does not survive.  MaxStarts bounds how often it is started.     *)
(***************************************************************************)
EXTENDS UdpNet

CONSTANT MaxStarts       \* bound: receiver processes started

ASSUME UdpReceiverAssumption == MaxStarts \in Nat

VARIABLES
  receiver_pc,          \* "down", "recv", "reply" or "exited"
  receiver_mode,        \* "normal", "drop-first-ack" or "out-of-order"
  processed_sequences,  \* DATA sequences of this process
  expected_sequence,    \* the first sequence it has not processed
  unique_received,
  ack_dropped,
  packet,               \* sequence of the DATA being handled
  duplicate,            \* it was processed before
  starts,               \* processes started so far
  delivered,            \* history: what was handed to the application
  reported              \* history: reported as out of order by this process

receiverVars == <<receiver_pc, receiver_mode, processed_sequences,
                  expected_sequence, unique_received, ack_dropped, packet,
                  duplicate, starts, delivered, reported>>

ReceiverModes == {"normal", "drop-first-ack", "out-of-order"}
Delivery      == [process : Nat, seq : DataSequences]

ReceiverTypeOK ==
  /\ receiver_pc \in {"down", "recv", "reply", "exited"}
  /\ receiver_mode \in ReceiverModes
  /\ processed_sequences \subseteq DataSequences
  /\ expected_sequence \in Nat
  /\ unique_received \in Nat
  /\ ack_dropped \in BOOLEAN
  /\ packet \in DataSequences \cup {0}
  /\ receiver_pc = "reply" => packet \in DataSequences
  /\ duplicate \in BOOLEAN
  /\ starts \in 0 .. MaxStarts
  /\ delivered \in Seq(Delivery)
  /\ reported \subseteq DataSequences

(* No process runs yet.                                                    *)
ReceiverInit ==
  /\ receiver_pc = "down"
  /\ receiver_mode = "normal"
  /\ processed_sequences = {}
  /\ expected_sequence = 1
  /\ unique_received = 0
  /\ ack_dropped = FALSE
  /\ packet = 0
  /\ duplicate = FALSE
  /\ starts = 0
  /\ delivered = <<>>
  /\ reported = {}

(* A new process, in any mode, with the local variables of main().         *)
ReceiverStart ==
  /\ receiver_pc \in {"down", "exited"}
  /\ starts < MaxStarts
  /\ starts' = starts + 1
  /\ receiver_pc' = "recv"
  /\ receiver_mode' \in ReceiverModes
  /\ processed_sequences' = {}
  /\ expected_sequence' = 1
  /\ unique_received' = 0
  /\ ack_dropped' = FALSE
  /\ packet' = 0
  /\ duplicate' = FALSE
  /\ reported' = {}
  /\ UNCHANGED <<delivered, net, duplicated>>

ReceiverCrash ==
  /\ receiver_pc \in {"recv", "reply"}
  /\ starts < MaxStarts
  /\ receiver_pc' = "down"
  /\ UNCHANGED <<receiver_mode, processed_sequences, expected_sequence,
                 unique_received, ack_dropped, packet, duplicate, starts,
                 delivered, reported, net, duplicated>>

-----------------------------------------------------------------------------
(* Faulty variant, never part of the specification: the next sequence is   *)
(* the one after the last received.                                        *)
NextExpected_AfterLast(n) == n + 1

(* expected_sequence moves over everything processed, with n just added.   *)
NextExpected(n) ==
  LET done == processed_sequences \cup {n}
  IN  CHOOSE k \in expected_sequence .. expected_sequence + Cardinality(done) :
        /\ k \notin done
        /\ \A m \in expected_sequence .. k - 1 : m \in done

(* Faulty variants: the sequence is not remembered; the ACK goes out for   *)
(* the sequence that is expected.                                          *)
Remembered_Not(n) == processed_sequences
Ack_OfExpected ==
  AckPacket(IF expected_sequence \in DataSequences THEN expected_sequence ELSE packet)

Remembered(n) == processed_sequences \cup {n}
Ack           == AckPacket(packet)

(* A new sequence.                                                         *)
Process(n) ==
  /\ reported' = IF n > expected_sequence THEN reported \cup {n} ELSE reported
  /\ delivered' = Append(delivered, [process |-> starts, seq |-> n])
  /\ processed_sequences' = Remembered(n)
  /\ unique_received' = unique_received + 1
  /\ expected_sequence' = NextExpected(n)

(* A datagram: DATA is processed unless seen before.  Nothing but DATA is  *)
(* sent to the port; anything else would end the process.                  *)
ReceiveData ==
  /\ receiver_pc = "recv"
  /\ \E d \in Datagram :
       /\ RecvFrom("receiver", d)
       /\ IF d.type # "Data"
            THEN /\ receiver_pc' = "exited"
                 /\ UNCHANGED <<packet, duplicate, reported, delivered,
                                processed_sequences, unique_received,
                                expected_sequence>>
            ELSE /\ receiver_pc' = "reply"
                 /\ packet' = d.seq
                 /\ duplicate' = (d.seq \in processed_sequences)
                 /\ IF d.seq \in processed_sequences
                      THEN UNCHANGED <<reported, delivered,
                                       processed_sequences, unique_received,
                                       expected_sequence>>
                      ELSE Process(d.seq)
  /\ UNCHANGED <<receiver_mode, ack_dropped, starts, duplicated>>

(* Faulty variant: the test with three packets is over after two.          *)
TestOver_Early ==
  \/ receiver_mode = "out-of-order" /\ unique_received >= 2
  \/ receiver_mode = "drop-first-ack" /\ duplicate
  \/ receiver_mode = "normal"

(* After an ACK the mode decides whether the test is over.                 *)
TestOver ==
  \/ receiver_mode = "out-of-order" /\ unique_received >= 3
  \/ receiver_mode = "drop-first-ack" /\ duplicate
  \/ receiver_mode = "normal"

(* The ACK of the packet, or its omission once in drop-first-ack mode.     *)
ReplyAck ==
  /\ receiver_pc = "reply"
  /\ IF receiver_mode = "drop-first-ack" /\ ~ack_dropped
       THEN /\ ack_dropped' = TRUE
            /\ receiver_pc' = "recv"
            /\ UNCHANGED net
       ELSE /\ SendTo(Ack)
            /\ receiver_pc' = IF TestOver THEN "exited" ELSE "recv"
            /\ UNCHANGED ack_dropped
  /\ UNCHANGED <<receiver_mode, processed_sequences, expected_sequence,
                 unique_received, packet, duplicate, starts, delivered,
                 reported, duplicated>>

ReceiverRun == ReceiveData \/ ReplyAck

ReceiverNext == ReceiverStart \/ ReceiverCrash \/ ReceiverRun

=============================================================================
