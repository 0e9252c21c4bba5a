----------------------------- MODULE UdpProofs ------------------------------
(***************************************************************************)
(* The safety of UdpSystem for every number of retries, duplicates and     *)
(* receiver processes, and at the end that of UdpScenarios for every       *)
(* number of losses.                                                       *)
(***************************************************************************)
EXTENDS UdpScenarios, FiniteSetTheorems, WellFoundedInduction, TLAPS

-----------------------------------------------------------------------------
(* The types the arguments below need.                                     *)

BaseOK ==
  /\ net \in [Datagram -> Nat]
  /\ order \in Orders
  /\ next \in 1 .. Len(order)
  /\ delivered \in Seq(Delivery)
  /\ processed_sequences \subseteq DataSequences
  /\ starts \in Nat
  /\ receiver_pc = "reply" => packet \in DataSequences

LEMMA OrderIsOfData ==
  ASSUME order \in Orders
  PROVE  /\ Len(order) \in Nat /\ Len(order) >= 1
         /\ \A i \in 1 .. Len(order) : order[i] \in DataSequences
<1>1. CASE order = <<1>>
  BY <1>1, UdpSenderAssumption
<1>2. CASE order = <<1, 3, 2>>
  BY <1>2, UdpSenderAssumption
<1> QED
  BY <1>1, <1>2 DEF Orders

LEMMA PacketsAreDatagrams ==
  ASSUME NEW n \in DataSequences
  PROVE  /\ DataPacket(n) \in Datagram
         /\ AckPacket(n) \in Datagram
BY DEF DataPacket, AckPacket, Datagram

(* What each action does to the network.                                   *)
LEMMA NetTyped ==
  ASSUME net \in [Datagram -> Nat], NEW d \in Datagram,
         SendTo(d) \/ RecvFrom("sender", d) \/ RecvFrom("receiver", d)
  PROVE  /\ net' \in [Datagram -> Nat]
         /\ \A e \in Datagram : OnTheWay(e)' => OnTheWay(e) \/ (e = d)
<1>1. CASE SendTo(d)
  BY <1>1 DEF SendTo, OnTheWay
<1>2. CASE RecvFrom("sender", d) \/ RecvFrom("receiver", d)
  <2>1. net[d] > 0 /\ net[d] \in Nat /\ net' = [net EXCEPT ![d] = @ - 1]
    BY <1>2 DEF RecvFrom, OnTheWay
  <2>2. net[d] - 1 \in Nat
    BY <2>1
  <2> QED
    BY <2>1, <2>2 DEF OnTheWay
<1> QED
  BY <1>1, <1>2

(* Receiving and duplicating put nothing new on the way.                   *)
LEMMA NothingNew ==
  ASSUME net \in [Datagram -> Nat],
         \/ UNCHANGED net
         \/ \E d \in Datagram : RecvFrom("sender", d) \/ RecvFrom("receiver", d)
         \/ \E d \in Datagram : OnTheWay(d) /\ SendTo(d)
  PROVE  /\ net' \in [Datagram -> Nat]
         /\ \A e \in Datagram : OnTheWay(e)' => OnTheWay(e)
<1>1. CASE UNCHANGED net
  BY <1>1 DEF OnTheWay
<1>2. CASE \E d \in Datagram : RecvFrom("sender", d) \/ RecvFrom("receiver", d)
  BY <1>2, NetTyped DEF RecvFrom
<1>3. CASE \E d \in Datagram : OnTheWay(d) /\ SendTo(d)
  BY <1>3, NetTyped
<1> QED
  BY <1>1, <1>2, <1>3

(* The steps of the pair, as far as the proofs tell them apart: only       *)
(* SendData and ReplyAck send, only ReceiveData processes.                 *)
Quiet ==
  \/ ReadAck \/ ReadLate \/ AckTimeout \/ NetDuplicates \/ UNCHANGED vars
  \/ ReceiverStart \/ ReceiverCrash

LEMMA QuietNet ==
  ASSUME BaseOK, Quiet
  PROVE  /\ net' \in [Datagram -> Nat]
         /\ \A e \in Datagram : OnTheWay(e)' => OnTheWay(e)
<1>1. \/ UNCHANGED net
      \/ \E d \in Datagram : RecvFrom("sender", d) \/ RecvFrom("receiver", d)
      \/ \E d \in Datagram : OnTheWay(d) /\ SendTo(d)
  BY DEF Quiet, ReadAck, ReadLate, AckTimeout, NetDuplicates, ReceiverStart,
         ReceiverCrash, vars, netVars
<1> QED
  BY <1>1, NothingNew DEF BaseOK

LEMMA NextSplit ==
  ASSUME [Next]_vars
  PROVE  \/ SenderStep \/ ReceiverStep
         \/ UNCHANGED <<senderVars, receiverVars>> /\ Quiet
BY DEF Next, NetStep, vars, Quiet

LEMMA NoAckPlace ==
  ASSUME BaseOK, NoAck \/ Acknowledged
  PROVE  next' \in 1 .. Len(order)
<1>1. Len(order) \in Nat /\ next \in 1 .. Len(order)
  BY OrderIsOfData DEF BaseOK
<1>2. \/ next' = next
      \/ next # Len(order) /\ next' = next + 1
  BY DEF NoAck, RetriesLeft, Acknowledged, SenderFail
<1> QED
  BY <1>1, <1>2

LEMMA BaseOKStep ==
  ASSUME BaseOK, [Next]_vars
  PROVE  BaseOK'
<1>1. CASE SenderStep
  <2>1. UNCHANGED <<order, receiverVars>>
    BY <1>1 DEF SenderStep, SenderNext, SendData, ReadAck, ReadLate, AckTimeout
  <2>2. next' \in 1 .. Len(order)
    BY <1>1, NoAckPlace DEF SenderStep, SenderNext, SendData, ReadAck, ReadLate,
       AckTimeout, SenderFail, BaseOK
  <2>3. net' \in [Datagram -> Nat]
    <3>1. CASE SendData
      <4>1. DataPacket(Sequence) \in Datagram
        BY OrderIsOfData, PacketsAreDatagrams DEF BaseOK, Sequence
      <4> QED
        BY <3>1, <4>1, NetTyped DEF SendData, BaseOK
    <3>2. CASE ReadAck \/ ReadLate \/ AckTimeout
      BY <3>2, QuietNet DEF Quiet
    <3> QED
      BY <1>1, <3>1, <3>2 DEF SenderStep, SenderNext
  <2> QED
    BY <2>1, <2>2, <2>3 DEF BaseOK, receiverVars
<1>2. CASE ReceiverStep
  <2>1. UNCHANGED <<order, next>>
    BY <1>2 DEF ReceiverStep, senderVars
  <2>2. CASE ReceiverStart \/ ReceiverCrash
    BY <2>1, <2>2, QuietNet DEF Quiet, ReceiverStart, ReceiverCrash, BaseOK
  <2>3. CASE ReceiveData
    <3>1. PICK d \in Datagram :
            /\ RecvFrom("receiver", d)
            /\ \/ d.type # "Data" /\ receiver_pc' = "exited"
                  /\ UNCHANGED <<delivered, processed_sequences>>
               \/ /\ receiver_pc' = "reply" /\ packet' = d.seq
                  /\ UNCHANGED <<delivered, processed_sequences>>
               \/ receiver_pc' = "reply" /\ packet' = d.seq /\ Process(d.seq)
      BY <2>3, Zenon DEF ReceiveData
    <3>2. net' \in [Datagram -> Nat] /\ starts' = starts
      BY <2>3, <3>1, NetTyped DEF ReceiveData, BaseOK
    <3>3. d.seq \in DataSequences
      BY DEF Datagram
    <3>4. \A r \in Delivery : Append(delivered, r) \in Seq(Delivery)
      BY DEF BaseOK
    <3>5. [process |-> starts, seq |-> d.seq] \in Delivery
      BY <3>3 DEF Delivery, BaseOK
    <3>6. delivered' \in Seq(Delivery) /\ processed_sequences' \subseteq DataSequences
      BY <3>1, <3>3, <3>4, <3>5 DEF Process, Remembered, BaseOK
    <3> QED
      BY <2>1, <3>1, <3>2, <3>3, <3>6 DEF BaseOK
  <2>4. CASE ReplyAck
    <3>1. packet \in DataSequences /\ receiver_pc' # "reply"
          /\ UNCHANGED <<delivered, processed_sequences, starts>>
      BY <2>4 DEF ReplyAck, Ack, BaseOK
    <3>2. net' \in [Datagram -> Nat]
      BY <2>4, <3>1, PacketsAreDatagrams, NetTyped DEF ReplyAck, Ack, BaseOK
    <3> QED
      BY <2>1, <3>1, <3>2 DEF BaseOK
  <2> QED
    BY <1>2, <2>2, <2>3, <2>4 DEF ReceiverStep, ReceiverNext, ReceiverRun
<1>3. CASE UNCHANGED <<senderVars, receiverVars>> /\ Quiet
  BY <1>3, QuietNet DEF senderVars, receiverVars, BaseOK
<1> QED
  BY <1>1, <1>2, <1>3, NextSplit

LEMMA BaseInvariant == Spec => []BaseOK
<1>1. Init => BaseOK
  <2> SUFFICES ASSUME Init PROVE BaseOK
    OBVIOUS
  <2>1. net \in [Datagram -> Nat]
    BY DEF Init, NetInit
  <2>2. next \in 1 .. Len(order) /\ order \in Orders
    BY OrderIsOfData DEF Init, SenderInit
  <2> QED
    BY <2>1, <2>2 DEF Init, ReceiverInit, BaseOK
<1>2. BaseOK /\ [Next]_vars => BaseOK'
  BY BaseOKStep
<1> QED
  BY <1>1, <1>2, PTL DEF Spec

-----------------------------------------------------------------------------
(* Honest ACKs: a sequence is on the way back, about to be answered or     *)
(* completed only after it was handed to the application.                  *)

HonestInv ==
  /\ \A n \in DataSequences : OnTheWay(AckPacket(n)) => Processed(n)
  /\ \A n \in completed_sequences : Processed(n)
  /\ \A n \in processed_sequences : Processed(n)
  /\ receiver_pc = "reply" => Processed(packet)
  /\ \A d \in Datagram : OnTheWay(d) => (d.to = "sender" <=> d.type = "Ack")

LEMMA AckIsUnique ==
  ASSUME NEW d \in Datagram, d.to = "sender", d.type = "Ack"
  PROVE  d = AckPacket(d.seq) /\ d.seq \in DataSequences
BY DEF Datagram, AckPacket

LEMMA HonestInvStep ==
  ASSUME BaseOK, HonestInv, [Next]_vars
  PROVE  HonestInv'
<1>1. CASE Quiet /\ UNCHANGED <<delivered, processed_sequences, completed_sequences>>
           /\ (receiver_pc' = "reply" => UNCHANGED <<receiver_pc, packet>>)
  <2>1. \A e \in Datagram : OnTheWay(e)' => OnTheWay(e)
    BY <1>1, QuietNet
  <2>2. \A n \in DataSequences : AckPacket(n) \in Datagram
    BY PacketsAreDatagrams
  <2> QED
    BY <1>1, <2>1, <2>2 DEF HonestInv, Processed
<1>2. CASE SenderStep
  <2>1. UNCHANGED receiverVars
    BY <1>2 DEF SenderStep
  <2>2. CASE SendData
    <3>1. DataPacket(Sequence) \in Datagram
      BY OrderIsOfData, PacketsAreDatagrams DEF BaseOK, Sequence
    <3>2. \A e \in Datagram : OnTheWay(e)' => OnTheWay(e) \/ e = DataPacket(Sequence)
      BY <2>2, <3>1, NetTyped DEF SendData, BaseOK
    <3>3. \A n \in DataSequences :
            AckPacket(n) \in Datagram /\ AckPacket(n) # DataPacket(Sequence)
      BY PacketsAreDatagrams DEF AckPacket, DataPacket
    <3>4. DataPacket(Sequence).to # "sender" /\ DataPacket(Sequence).type # "Ack"
      BY DEF DataPacket
    <3> QED
      BY <2>1, <2>2, <3>2, <3>3, <3>4 DEF SendData, HonestInv, Processed, receiverVars
  <2>3. CASE ReadAck /\ ~UNCHANGED completed_sequences
    <3>1. PICK d \in Datagram :
            /\ RecvFrom("sender", d) /\ d.type = "Ack"
            /\ completed_sequences' = completed_sequences \cup {d.seq}
      BY <2>3, Zenon DEF ReadAck
    <3>2. OnTheWay(d) /\ d = AckPacket(d.seq) /\ d.seq \in DataSequences
      BY <3>1, AckIsUnique DEF RecvFrom
    <3>3. Processed(d.seq)
      BY <3>2 DEF HonestInv
    <3>4. \A e \in Datagram : OnTheWay(e)' => OnTheWay(e)
      BY <2>3, QuietNet DEF Quiet
    <3>5. \A n \in DataSequences : AckPacket(n) \in Datagram
      BY PacketsAreDatagrams
    <3> QED
      BY <2>1, <3>1, <3>3, <3>4, <3>5 DEF HonestInv, Processed, receiverVars
  <2>4. CASE (ReadAck \/ ReadLate \/ AckTimeout) /\ UNCHANGED completed_sequences
    BY <1>1, <2>1, <2>4 DEF Quiet, receiverVars
  <2> QED
    BY <1>2, <2>2, <2>3, <2>4 DEF SenderStep, SenderNext, ReadLate, AckTimeout
<1>3. CASE ReceiverStep
  <2>1. UNCHANGED completed_sequences
    BY <1>3 DEF ReceiverStep, senderVars
  <2>2. CASE ReceiverCrash
    BY <1>1, <2>1, <2>2 DEF Quiet, ReceiverCrash
  <2>3. CASE ReceiverStart
    <3>1. \A e \in Datagram : OnTheWay(e)' => OnTheWay(e)
      BY <2>3, QuietNet DEF Quiet
    <3>2. \A n \in DataSequences : AckPacket(n) \in Datagram
      BY PacketsAreDatagrams
    <3> QED
      BY <2>1, <2>3, <3>1, <3>2 DEF ReceiverStart, HonestInv, Processed
  <2>4. CASE ReceiveData
    <3>1. PICK d \in Datagram :
            /\ RecvFrom("receiver", d)
            /\ \/ d.type # "Data" /\ receiver_pc' = "exited"
                  /\ UNCHANGED <<delivered, processed_sequences>>
               \/ /\ receiver_pc' = "reply" /\ packet' = d.seq
                  /\ d.seq \in processed_sequences
                  /\ UNCHANGED <<delivered, processed_sequences>>
               \/ receiver_pc' = "reply" /\ packet' = d.seq /\ Process(d.seq)
      BY <2>4, Zenon DEF ReceiveData
    <3>2. \A e \in Datagram : OnTheWay(e)' => OnTheWay(e)
      BY <3>1, NothingNew DEF BaseOK
    <3>3. \A n \in DataSequences : AckPacket(n) \in Datagram
      BY PacketsAreDatagrams
    <3>4. CASE UNCHANGED <<delivered, processed_sequences>>
               /\ (receiver_pc' = "reply" => packet' \in processed_sequences)
      BY <2>1, <3>2, <3>3, <3>4 DEF HonestInv, Processed
    <3>5. CASE receiver_pc' = "reply" /\ packet' = d.seq /\ Process(d.seq)
      <4> DEFINE r == [process |-> starts, seq |-> d.seq]
      <4>1. delivered' = Append(delivered, r) /\ r.seq = d.seq
            /\ processed_sequences' = processed_sequences \cup {d.seq}
        BY <3>5 DEF Process, Remembered
      <4> HIDE DEF r
      <4>2. /\ delivered \in Seq(Delivery)
            /\ Len(delivered) + 1 \in DOMAIN delivered'
            /\ delivered'[Len(delivered) + 1] = r
            /\ \A i \in DOMAIN delivered :
                 i \in DOMAIN delivered' /\ delivered'[i] = delivered[i]
        BY <4>1 DEF BaseOK
      <4>3. ASSUME NEW n, Processed(n) PROVE Processed(n)'
        BY <4>2, <4>3 DEF Processed
      <4>4. Processed(d.seq)'
        BY <4>1, <4>2 DEF Processed
      <4> QED
        BY <2>1, <3>2, <3>3, <3>5, <4>1, <4>3, <4>4 DEF HonestInv
    <3> QED
      BY <3>1, <3>4, <3>5
  <2>5. CASE ReplyAck
    <3>1. UNCHANGED <<delivered, processed_sequences>> /\ receiver_pc' # "reply"
          /\ packet \in DataSequences /\ Processed(packet)
      BY <2>5 DEF ReplyAck, Ack, BaseOK, HonestInv
    <3>2. AckPacket(packet) \in Datagram
      BY <3>1, PacketsAreDatagrams
    <3>3. \A e \in Datagram : OnTheWay(e)' => OnTheWay(e) \/ e = AckPacket(packet)
      BY <2>5, <3>2, NetTyped DEF ReplyAck, Ack, BaseOK, OnTheWay
    <3>4. \A n \in DataSequences :
            /\ AckPacket(n) \in Datagram
            /\ AckPacket(n) = AckPacket(packet) => n = packet
      BY PacketsAreDatagrams DEF AckPacket
    <3>5. AckPacket(packet).to = "sender" /\ AckPacket(packet).type = "Ack"
      BY DEF AckPacket
    <3> QED
      BY <2>1, <3>1, <3>3, <3>4, <3>5 DEF HonestInv, Processed
  <2> QED
    BY <1>3, <2>2, <2>3, <2>4, <2>5 DEF ReceiverStep, ReceiverNext, ReceiverRun
<1>4. CASE UNCHANGED <<senderVars, receiverVars>> /\ Quiet
  BY <1>1, <1>4 DEF senderVars, receiverVars
<1> QED
  BY <1>2, <1>3, <1>4, NextSplit

LEMMA HonestInvariant == Spec => []HonestInv
<1>1. Init => HonestInv
  <2> SUFFICES ASSUME Init PROVE HonestInv
    OBVIOUS
  <2>1. \A d \in Datagram : ~OnTheWay(d)
    BY DEF Init, NetInit, OnTheWay
  <2>2. \A n \in DataSequences : AckPacket(n) \in Datagram
    BY PacketsAreDatagrams
  <2> QED
    BY <2>1, <2>2 DEF Init, SenderInit, ReceiverInit, HonestInv
<1>2. BaseOK /\ HonestInv /\ [Next]_vars => HonestInv'
  BY HonestInvStep
<1> QED
  BY <1>1, <1>2, BaseInvariant, PTL DEF Spec

(* An ACK means processed, on the way and once it was matched.             *)
THEOREM HonestAcks == Spec => []AcksAreHonest
<1>1. HonestInv => AcksAreHonest
  BY DEF HonestInv, AcksAreHonest
<1> QED
  BY <1>1, HonestInvariant, PTL

-----------------------------------------------------------------------------
(* Processed once: what this process delivered it has in                   *)
(* processed_sequences, and no delivery is of a later process.             *)

OnceInv ==
  /\ \A i \in DOMAIN delivered :
       /\ delivered[i].process <= starts
       /\ delivered[i].process = starts => delivered[i].seq \in processed_sequences
  /\ ProcessedOnce

LEMMA OnceInvStep ==
  ASSUME BaseOK, OnceInv, [Next]_vars
  PROVE  OnceInv'
<1> USE DEF OnceInv, ProcessedOnce
<1>1. /\ delivered \in Seq(Delivery) /\ starts \in Nat
      /\ \A i \in DOMAIN delivered : delivered[i] \in Delivery
  BY DEF BaseOK
<1>2. CASE UNCHANGED <<delivered, processed_sequences, starts>>
  BY <1>2
<1>3. CASE ReceiverStart
  <2>1. UNCHANGED delivered /\ starts' = starts + 1
    BY <1>3 DEF ReceiverStart
  <2>2. \A i \in DOMAIN delivered :
          delivered[i].process \in Nat /\ delivered[i].process < starts'
    BY <1>1, <2>1 DEF Delivery
  <2> QED
    BY <1>1, <2>1, <2>2
<1>4. CASE ReceiveData
  <2>1. PICK d \in Datagram :
          \/ UNCHANGED <<delivered, processed_sequences>>
          \/ d.seq \notin processed_sequences /\ Process(d.seq)
    BY <1>4, Zenon DEF ReceiveData
  <2>2. starts' = starts
    BY <1>4 DEF ReceiveData
  <2>3. CASE d.seq \notin processed_sequences /\ Process(d.seq)
    <3> DEFINE r == [process |-> starts, seq |-> d.seq]
    <3>1. /\ delivered' = Append(delivered, r)
          /\ processed_sequences' = processed_sequences \cup {r.seq}
          /\ r.process = starts /\ r.seq \notin processed_sequences
      BY <2>3 DEF Process, Remembered
    <3> HIDE DEF r
    <3>2. /\ Len(delivered) \in Nat
          /\ DOMAIN delivered = 1 .. Len(delivered)
          /\ DOMAIN delivered' = 1 .. Len(delivered) + 1
          /\ delivered'[Len(delivered) + 1] = r
          /\ \A i \in DOMAIN delivered : delivered'[i] = delivered[i]
      BY <1>1, <3>1
    <3>3. \A i \in DOMAIN delivered : delivered[i] # r
      BY <3>1
    <3> QED
      BY <1>1, <2>2, <3>1, <3>2, <3>3
  <2> QED
    BY <1>2, <2>1, <2>2, <2>3
<1>5. CASE ReceiverStep /\ ~ReceiverStart /\ ~ReceiveData
  BY <1>2, <1>5
     DEF ReceiverStep, ReceiverNext, ReceiverRun, ReceiverCrash, ReplyAck, Ack
<1>6. CASE UNCHANGED receiverVars
  BY <1>2, <1>6 DEF receiverVars
<1> QED
  BY <1>3, <1>4, <1>5, <1>6, NextSplit DEF SenderStep, ReceiverStep

LEMMA OnceInvariant == Spec => []OnceInv
<1>1. Init => OnceInv
  BY DEF Init, ReceiverInit, OnceInv, ProcessedOnce
<1>2. BaseOK /\ OnceInv /\ [Next]_vars => OnceInv'
  BY OnceInvStep
<1> QED
  BY <1>1, <1>2, BaseInvariant, PTL DEF Spec

(* However often a sequence arrives, one receiver process hands it to the  *)
(* application once.                                                       *)
THEOREM ProcessesOnce == Spec => []ProcessedOnce
<1>1. OnceInv => ProcessedOnce
  BY DEF OnceInv
<1> QED
  BY <1>1, OnceInvariant, PTL

-----------------------------------------------------------------------------
(* No mismatch: only sequences the sender came to are in the system, and   *)
(* it has completed all of them but the current one.                       *)

Reached(n) == \E i \in 1 .. next : n = order[i]

MatchInv ==
  /\ \A d \in Datagram : OnTheWay(d) => Reached(d.seq)
  /\ receiver_pc = "reply" => Reached(packet)
  /\ sender_pc \in {"send", "wait"} =>
       \A i \in 1 .. next - 1 : order[i] \in completed_sequences
  /\ NoSequenceMismatch

LEMMA ReachedGrows ==
  ASSUME BaseOK, order' = order, next' = next \/ next' = next + 1,
         NEW n, Reached(n)
  PROVE  Reached(n)'
<1>1. next \in Nat
  BY OrderIsOfData DEF BaseOK
<1> QED
  BY <1>1 DEF Reached

(* A matched ACK of a current or an older sequence is no mismatch.         *)
LEMMA ReadAckMatches ==
  ASSUME BaseOK, HonestInv, MatchInv, ReadAck
  PROVE  /\ sender_error' = sender_error \/ sender_error' = "retry limit"
         /\ next' = next \/ next' = next + 1
         /\ sender_pc' \in {"send", "wait"} =>
              \A i \in 1 .. next' - 1 : order[i] \in completed_sequences'
<1>1. next \in Nat /\ Len(order) \in Nat /\ next \in 1 .. Len(order)
  BY OrderIsOfData DEF BaseOK
<1>2. \A i \in 1 .. next - 1 : order[i] \in completed_sequences
  BY DEF ReadAck, MatchInv
<1>3. PICK d \in Datagram :
        /\ RecvFrom("sender", d)
        /\ IF d.type # "Ack"
             THEN /\ SenderFail("expected empty ACK")
                  /\ UNCHANGED completed_sequences
           ELSE IF d.seq = Sequence
             THEN /\ completed_sequences' = completed_sequences \cup {d.seq}
                  /\ Acknowledged
           ELSE IF Stale(d.seq)
             THEN UNCHANGED <<sender_pc, next, attempt, completed_sequences,
                              sender_error>>
           ELSE /\ SenderFail("ACK sequence mismatch")
                /\ UNCHANGED completed_sequences
  BY Zenon DEF ReadAck
<1>4. d.type = "Ack" /\ Reached(d.seq)
  BY <1>3 DEF RecvFrom, HonestInv, MatchInv
<1>5. d.seq = Sequence \/ Stale(d.seq)
  BY <1>1, <1>2, <1>4 DEF Reached, Sequence, Stale
<1>6. CASE d.seq = Sequence
  <2>1. completed_sequences' = completed_sequences \cup {order[next]} /\ Acknowledged
    BY <1>3, <1>4, <1>6 DEF Sequence
  <2>2. CASE next = Len(order)
    <3>1. sender_pc' = "done" /\ UNCHANGED <<next, sender_error>>
      BY <2>1, <2>2 DEF Acknowledged
    <3> QED
      BY <3>1
  <2>3. CASE next # Len(order)
    <3>1. next' = next + 1 /\ UNCHANGED sender_error
      BY <2>1, <2>3 DEF Acknowledged
    <3>2. next' - 1 = next
      BY <1>1, <3>1
    <3>3. \A i \in 1 .. next : i = next \/ i \in 1 .. next - 1
      BY <1>1
    <3> QED
      BY <1>2, <2>1, <3>1, <3>2, <3>3
  <2> QED
    BY <2>2, <2>3
<1>7. CASE d.seq # Sequence
  <2>1. UNCHANGED <<sender_pc, next, completed_sequences, sender_error>>
    BY <1>3, <1>4, <1>5, <1>7, Zenon
  <2> QED
    BY <1>2, <2>1
<1> QED
  BY <1>6, <1>7

LEMMA MatchInvStep ==
  ASSUME BaseOK, HonestInv, MatchInv, [Next]_vars
  PROVE  MatchInv'
<1>1. next \in Nat /\ Len(order) \in Nat /\ next \in 1 .. Len(order)
  BY OrderIsOfData DEF BaseOK
<1>2. CASE SenderStep
  <2>1. UNCHANGED <<order, receiver_pc, packet>>
    BY <1>2 DEF SenderStep, SenderNext, SendData, ReadAck, ReadLate, AckTimeout,
       receiverVars
  <2>2. CASE SendData
    <3>1. DataPacket(Sequence) \in Datagram /\ DataPacket(Sequence).seq = order[next]
      BY OrderIsOfData, PacketsAreDatagrams DEF BaseOK, Sequence, DataPacket
    <3>2. \A e \in Datagram : OnTheWay(e)' => OnTheWay(e) \/ e = DataPacket(Sequence)
      BY <2>2, <3>1, NetTyped DEF SendData, BaseOK
    <3>3. Reached(order[next])
      BY <1>1 DEF Reached
    <3>4. UNCHANGED <<next, completed_sequences, sender_error>> /\ sender_pc = "send"
      BY <2>2 DEF SendData
    <3>5. \A n : Reached(n)' <=> Reached(n)
      BY <2>1, <3>4 DEF Reached
    <3> QED
      BY <2>1, <3>1, <3>2, <3>3, <3>4, <3>5 DEF MatchInv, NoSequenceMismatch
  <2>3. CASE ReadAck \/ ReadLate \/ AckTimeout
    <3>1. \A e \in Datagram : OnTheWay(e)' => OnTheWay(e)
      BY <2>3, QuietNet DEF Quiet
    <3>2. /\ sender_error' = sender_error \/ sender_error' = "retry limit"
          /\ next' = next \/ next' = next + 1
          /\ sender_pc' \in {"send", "wait"} =>
               \A i \in 1 .. next' - 1 : order[i] \in completed_sequences'
      <4>1. CASE ReadAck
        BY <4>1, ReadAckMatches
      <4>2. CASE ReadLate \/ AckTimeout
        <5>1. sender_pc = "wait" /\ NoAck /\ UNCHANGED completed_sequences
          BY <4>2 DEF ReadLate, AckTimeout
        <5> QED
          BY <5>1 DEF NoAck, RetriesLeft, SenderFail, MatchInv
      <4> QED
        BY <2>3, <4>1, <4>2
    <3>3. \A n : Reached(n) => Reached(n)'
      BY <2>1, <3>2, ReachedGrows
    <3> QED
      BY <2>1, <3>1, <3>2, <3>3 DEF MatchInv, NoSequenceMismatch
  <2> QED
    BY <1>2, <2>2, <2>3 DEF SenderStep, SenderNext
<1>3. CASE ReceiverStep \/ (UNCHANGED <<senderVars, receiverVars>> /\ Quiet)
  <2>1. UNCHANGED <<order, next, sender_pc, completed_sequences, sender_error>>
    BY <1>3 DEF ReceiverStep, senderVars
  <2>2. \A n : Reached(n)' <=> Reached(n)
    BY <2>1 DEF Reached
  <2>3. ASSUME \A e \in Datagram : OnTheWay(e)' => Reached(e.seq),
               receiver_pc' = "reply" => Reached(packet')
        PROVE  MatchInv'
    BY <2>1, <2>2, <2>3 DEF MatchInv, NoSequenceMismatch
  <2>4. CASE Quiet /\ (receiver_pc' = "reply" => UNCHANGED <<receiver_pc, packet>>)
    BY <2>3, <2>4, QuietNet DEF MatchInv
  <2>5. CASE ReceiveData
    <3>1. PICK d \in Datagram :
            /\ RecvFrom("receiver", d)
            /\ receiver_pc' = "reply" => packet' = d.seq
      BY <2>5, Zenon DEF ReceiveData
    <3>2. \A e \in Datagram : OnTheWay(e)' => OnTheWay(e)
      BY <3>1, NothingNew DEF BaseOK
    <3>3. Reached(d.seq)
      BY <3>1 DEF RecvFrom, MatchInv
    <3> QED
      BY <2>3, <3>1, <3>2, <3>3 DEF MatchInv
  <2>6. CASE ReplyAck
    <3>1. receiver_pc' # "reply" /\ packet \in DataSequences /\ Reached(packet)
      BY <2>6 DEF ReplyAck, Ack, BaseOK, MatchInv
    <3>2. AckPacket(packet) \in Datagram /\ AckPacket(packet).seq = packet
      BY <3>1, PacketsAreDatagrams DEF AckPacket
    <3>3. \A e \in Datagram : OnTheWay(e)' => OnTheWay(e) \/ e = AckPacket(packet)
      BY <2>6, <3>2, NetTyped DEF ReplyAck, Ack, BaseOK, OnTheWay
    <3> QED
      BY <2>3, <3>1, <3>2, <3>3 DEF MatchInv
  <2>7. CASE ReceiverStep
    BY <2>4, <2>5, <2>6, <2>7
       DEF ReceiverStep, ReceiverNext, ReceiverRun, Quiet, ReceiverStart, ReceiverCrash
  <2>8. CASE UNCHANGED receiverVars /\ Quiet
    BY <2>4, <2>8 DEF receiverVars
  <2> QED
    BY <1>3, <2>7, <2>8
<1> QED
  BY <1>2, <1>3, NextSplit

LEMMA MatchInvariant == Spec => []MatchInv
<1>1. Init => MatchInv
  <2> SUFFICES ASSUME Init PROVE MatchInv
    OBVIOUS
  <2>1. \A d \in Datagram : ~OnTheWay(d)
    BY DEF Init, NetInit, OnTheWay
  <2>2. next = 1 /\ receiver_pc # "reply" /\ sender_error = "none"
    BY DEF Init, SenderInit, ReceiverInit
  <2> QED
    BY <2>1, <2>2 DEF MatchInv, NoSequenceMismatch
<1>2. BaseOK /\ HonestInv /\ MatchInv /\ [Next]_vars => MatchInv'
  BY MatchInvStep
<1> QED
  BY <1>1, <1>2, BaseInvariant, HonestInvariant, PTL DEF Spec

(* A late, duplicated or overtaken ACK never makes the sender give up.     *)
THEOREM AcksMatch == Spec => []NoSequenceMismatch
<1>1. MatchInv => NoSequenceMismatch
  BY DEF MatchInv
<1> QED
  BY <1>1, MatchInvariant, PTL

-----------------------------------------------------------------------------
(* Gaps: expected_sequence is the first sequence this process has not      *)
(* processed, and processed_sequences is what it has delivered.            *)

(* A set of numbers that is not empty has a least one.                     *)
LEMMA LeastNatural ==
  ASSUME NEW T, T \subseteq Nat, T # {}
  PROVE  \E x \in T : \A y \in T : x <= y
<1> DEFINE R == OpToRel(<, Nat)
<1>1. \E x \in T : \A y \in T : ~ (<<y, x>> \in R)
  <2>1. IsWellFoundedOn(R, Nat)
    BY NatLessThanWellFounded
  <2> HIDE DEF R
  <2> QED BY <2>1, WFMin
<1>2. \A x, y \in Nat : y < x => <<y, x>> \in R
  BY DEF OpToRel
<1> HIDE DEF R
<1>3. PICK x \in T : \A y \in T : ~ (<<y, x>> \in R)
  BY <1>1
<1>4. ASSUME NEW y \in T PROVE x <= y
  <2>1. x \in Nat /\ y \in Nat /\ ~(y < x)
    BY <1>2, <1>3
  <2> QED BY <2>1
<1> QED BY <1>4

(* Of the numbers from e on, one that a finite set lacks is the first: the *)
(* CHOOSE of NextExpected has a value.                                     *)
LEMMA LeastAbsent ==
  ASSUME NEW done \in SUBSET Nat, IsFiniteSet(done), NEW e \in Nat
  PROVE  \E k \in e .. e + Cardinality(done) :
           k \notin done /\ \A m \in e .. k - 1 : m \in done
<1> DEFINE c == Cardinality(done)
           T == (e .. e + c) \ done
<1>1. c \in Nat
  BY FS_CardinalityType
<1>2. T # {}
  <2> SUFFICES ASSUME e .. e + c \subseteq done PROVE FALSE
    OBVIOUS
  <2>1. Cardinality(e .. e + c) <= c
    BY FS_Subset
  <2>2. \A b \in Int : b >= e => Cardinality(e .. b) = b - e + 1
    BY FS_Interval
  <2>3. c \in Int /\ e + c \in Int /\ e + c >= e
    BY <1>1
  <2>4. Cardinality(e .. e + c) = c + 1
    BY <1>1, <2>2, <2>3
  <2> QED BY <1>1, <2>1, <2>4
<1>3. T \subseteq Nat
  BY <1>1
<1> HIDE DEF T
<1>4. PICK k \in T : \A y \in T : k <= y
  BY <1>2, <1>3, LeastNatural
<1> QED
  BY <1>1, <1>4 DEF T

LEMMA NextExpectedIsFirst ==
  ASSUME processed_sequences \subseteq DataSequences,
         IsFiniteSet(processed_sequences),
         expected_sequence \in Nat,
         NEW n \in DataSequences
  PROVE  LET done == processed_sequences \cup {n}
             k    == NextExpected(n)
         IN  /\ k \in Nat /\ expected_sequence <= k
             /\ k \notin done
             /\ \A m \in expected_sequence .. k - 1 : m \in done
<1> DEFINE done == processed_sequences \cup {n}
           e    == expected_sequence
<1>1. done \in SUBSET Nat /\ IsFiniteSet(done)
  BY FS_AddElement, UdpNetAssumption
<1>2. Cardinality(done) \in Nat
  BY <1>1, FS_CardinalityType
<1>3. \E k \in e .. e + Cardinality(done) :
        k \notin done /\ \A m \in e .. k - 1 : m \in done
  BY <1>1, LeastAbsent
<1>4. NextExpected(n) = CHOOSE k \in e .. e + Cardinality(done) :
                          k \notin done /\ \A m \in e .. k - 1 : m \in done
  BY Zenon DEF NextExpected
<1> HIDE DEF done
<1>5. /\ NextExpected(n) \in e .. e + Cardinality(done)
      /\ NextExpected(n) \notin done
      /\ \A m \in e .. NextExpected(n) - 1 : m \in done
  BY <1>3, <1>4
<1>6. NextExpected(n) \in Nat /\ e <= NextExpected(n)
  BY <1>2, <1>5
<1> QED
  BY <1>5, <1>6 DEF done

(* n came to this process before its i-th delivery.                        *)
CameBefore(n, i) ==
  \E j \in 1 .. i - 1 : delivered[j] = [process |-> starts, seq |-> n]

GapInv ==
  /\ IsFiniteSet(processed_sequences)
  /\ expected_sequence \in Nat \ {0}
  /\ expected_sequence \notin processed_sequences
  /\ \A m \in 1 .. expected_sequence - 1 : m \in processed_sequences
  /\ \A n \in processed_sequences :
       \E i \in DOMAIN delivered : delivered[i] = [process |-> starts, seq |-> n]
  /\ reported \subseteq processed_sequences
  /\ GapsReported

LEMMA GapInvStep ==
  ASSUME BaseOK, OnceInv, GapInv, [Next]_vars
  PROVE  GapInv'
<1>1. /\ delivered \in Seq(Delivery) /\ starts \in Nat
      /\ Len(delivered) \in Nat /\ DOMAIN delivered = 1 .. Len(delivered)
      /\ \A i \in DOMAIN delivered : delivered[i] \in Delivery
      /\ processed_sequences \subseteq DataSequences
  BY DEF BaseOK
<1>2. CASE UNCHANGED <<delivered, processed_sequences, starts, reported,
                       expected_sequence>>
  <2>1. GapsReported'
    <3>1. GapsReported
      BY DEF GapInv
    <3>2. delivered' = delivered /\ starts' = starts /\ reported' = reported
      BY <1>2
    <3>3. SUFFICES ASSUME NEW i \in DOMAIN delivered, delivered[i].process = starts
                   PROVE  delivered[i].seq \in reported <=>
                            \E n \in 1 .. delivered[i].seq - 1 :
                              ~\E j \in 1 .. i - 1 :
                                 delivered[j] = [process |-> starts, seq |-> n]
      BY <3>2 DEF GapsReported
    <3> QED
      BY <3>1, <3>3 DEF GapsReported
  <2>2. \A n \in processed_sequences : \E i \in DOMAIN delivered' :
          delivered'[i] = [process |-> starts', seq |-> n]
    BY <1>2 DEF GapInv
  <2> QED
    BY <1>2, <2>1, <2>2 DEF GapInv
<1>3. CASE ReceiverStart
  <2>1. /\ UNCHANGED delivered /\ starts' = starts + 1
        /\ processed_sequences' = {} /\ expected_sequence' = 1 /\ reported' = {}
    BY <1>3 DEF ReceiverStart
  <2>2. \A i \in DOMAIN delivered : delivered[i].process # starts'
    BY <1>1, <2>1 DEF OnceInv, Delivery
  <2>3. IsFiniteSet({})
    BY FS_EmptySet
  <2> QED
    BY <2>1, <2>2, <2>3 DEF GapInv, GapsReported
<1>4. CASE ReceiveData
  <2>1. PICK d \in Datagram :
          \/ UNCHANGED <<delivered, processed_sequences, reported,
                         expected_sequence>>
          \/ d.seq \notin processed_sequences /\ Process(d.seq)
    BY <1>4, Zenon DEF ReceiveData
  <2>2. starts' = starts
    BY <1>4 DEF ReceiveData
  <2>3. CASE d.seq \notin processed_sequences /\ Process(d.seq)
    <3> DEFINE n == d.seq
               e == expected_sequence
               r == [process |-> starts, seq |-> n]
               L == Len(delivered)
    <3>1. /\ delivered' = Append(delivered, r)
          /\ processed_sequences' = processed_sequences \cup {n}
          /\ n \notin processed_sequences
          /\ reported' = IF n > e THEN reported \cup {n} ELSE reported
          /\ expected_sequence' = NextExpected(n)
      BY <2>3 DEF Process, Remembered
    <3>2. n \in DataSequences /\ n \in Nat /\ n >= 1 /\ e \in Nat /\ e >= 1
      <4>1. n \in DataSequences
        BY DEF Datagram
      <4>2. e \in Nat \ {0}
        BY DEF GapInv
      <4> HIDE DEF n, e
      <4>3. n \in Nat \ {0}
        BY <4>1, UdpNetAssumption
      <4> QED BY <4>1, <4>2, <4>3
    <3>3. /\ expected_sequence' \in Nat /\ e <= expected_sequence'
          /\ expected_sequence' \notin processed_sequences'
          /\ \A m \in e .. expected_sequence' - 1 : m \in processed_sequences'
      BY <1>1, <3>1, <3>2, NextExpectedIsFirst DEF GapInv
    <3>4. /\ r.process = starts /\ r.seq = n
          /\ L \in Nat
          /\ DOMAIN delivered = 1 .. L
          /\ DOMAIN delivered' = 1 .. L + 1
          /\ delivered'[L + 1] = r
          /\ \A i \in 1 .. L : delivered'[i] = delivered[i]
      BY <1>1, <3>1
    <3>5. \A i \in 1 .. L : delivered[i].process = starts =>
             delivered[i].seq \in processed_sequences /\ delivered[i].seq # n
      BY <1>1, <3>1 DEF OnceInv
    <3>6. \A m \in 1 .. expected_sequence' - 1 : m \in processed_sequences'
      BY <3>1, <3>2, <3>3 DEF GapInv
    <3>7. IsFiniteSet(processed_sequences')
      BY <3>1, FS_AddElement DEF GapInv
    <3>8. \A k \in processed_sequences' : \E i \in DOMAIN delivered' :
             delivered'[i] = [process |-> starts', seq |-> k]
      <4>1. \A k \in processed_sequences : \E i \in 1 .. L :
               delivered[i] = [process |-> starts, seq |-> k]
        BY <3>4 DEF GapInv
      <4> HIDE DEF L
      <4>2. \A k \in processed_sequences : \E i \in 1 .. L + 1 :
               delivered'[i] = [process |-> starts, seq |-> k]
        BY <3>4, <4>1
      <4>3. L + 1 \in 1 .. L + 1 /\ delivered'[L + 1] = [process |-> starts, seq |-> n]
        BY <3>4
      <4> QED
        BY <2>2, <3>1, <3>4, <4>2, <4>3
    <3>9. reported' \subseteq processed_sequences'
      BY <3>1 DEF GapInv
    <3>10. GapsReported'
      <4> HIDE DEF n, e, L
      <4>1. ASSUME NEW i \in 1 .. L, delivered[i].process = starts
            PROVE  delivered'[i].seq \in reported' <=>
                     \E m \in 1 .. delivered'[i].seq - 1 :
                       ~\E j \in 1 .. i - 1 :
                          delivered'[j] = [process |-> starts', seq |-> m]
        <5>1. delivered[i].seq \in reported <=>
                \E m \in 1 .. delivered[i].seq - 1 :
                  ~\E j \in 1 .. i - 1 :
                     delivered[j] = [process |-> starts, seq |-> m]
          BY <3>4, <4>1 DEF GapInv, GapsReported
        <5>2. delivered[i].seq \in reported' <=> delivered[i].seq \in reported
          BY <3>1, <3>5, <4>1
        <5>3. \A j \in 1 .. i - 1 : delivered'[j] = delivered[j]
          BY <3>4
        <5>4. delivered'[i] = delivered[i]
          BY <3>4
        <5> QED
          BY <2>2, <5>1, <5>2, <5>3, <5>4
      <4>2. n \in reported' <=>
              \E m \in 1 .. n - 1 :
                ~\E j \in 1 .. L : delivered[j] = [process |-> starts, seq |-> m]
        <5>1. \A m : (\E j \in 1 .. L : delivered[j] = [process |-> starts, seq |-> m])
                        <=> m \in processed_sequences
          BY <3>4, <3>5 DEF GapInv
        <5>2. CASE n > e
          <6>1. e \in 1 .. n - 1 /\ e \notin processed_sequences
            BY <3>2, <5>2 DEF GapInv, e
          <6> QED
            BY <3>1, <5>1, <5>2, <6>1
        <5>3. CASE ~(n > e)
          <6>1. \A m \in 1 .. n - 1 : m \in processed_sequences
            BY <3>2, <5>3 DEF GapInv, e
          <6>2. n \notin reported'
            BY <3>1, <5>3 DEF GapInv
          <6> QED
            BY <5>1, <6>1, <6>2
        <5> QED
          BY <5>2, <5>3
      <4>3. L + 1 - 1 = L
        BY <3>4
      <4>4. ASSUME NEW i \in DOMAIN delivered', delivered'[i].process = starts'
            PROVE  delivered'[i].seq \in reported' <=>
                     \E m \in 1 .. delivered'[i].seq - 1 :
                       ~\E j \in 1 .. i - 1 :
                          delivered'[j] = [process |-> starts', seq |-> m]
        <5>1. CASE i = L + 1
          <6>1. \A j \in 1 .. i - 1 : delivered'[j] = delivered[j]
            BY <3>4, <4>3, <5>1
          <6>2. delivered'[i].seq = n /\ i - 1 = L
            BY <3>4, <4>3, <5>1
          <6> QED
            BY <2>2, <4>2, <6>1, <6>2
        <5>2. CASE i \in 1 .. L
          BY <2>2, <3>4, <4>1, <4>4, <5>2
        <5> QED
          BY <3>4, <5>1, <5>2
      <4> QED
        BY <4>4 DEF GapsReported
    <3>11. expected_sequence' \in Nat \ {0}
      BY <3>2, <3>3
    <3> QED
      BY <3>3, <3>6, <3>7, <3>8, <3>9, <3>10, <3>11 DEF GapInv
  <2> QED
    BY <1>2, <2>1, <2>2, <2>3
<1>5. CASE ReceiverStep /\ ~ReceiverStart /\ ~ReceiveData
  BY <1>2, <1>5
     DEF ReceiverStep, ReceiverNext, ReceiverRun, ReceiverCrash, ReplyAck, Ack
<1>6. CASE UNCHANGED receiverVars
  BY <1>2, <1>6 DEF receiverVars
<1> QED
  BY <1>3, <1>4, <1>5, <1>6, NextSplit DEF SenderStep, ReceiverStep

LEMMA GapInvariant == Spec => []GapInv
<1>1. Init => GapInv
  BY FS_EmptySet DEF Init, ReceiverInit, GapInv, GapsReported
<1>2. BaseOK /\ OnceInv /\ GapInv /\ [Next]_vars => GapInv'
  BY GapInvStep
<1> QED
  BY <1>1, <1>2, BaseInvariant, OnceInvariant, PTL DEF Spec

(* A sequence is reported as out of order exactly when one before it was   *)
(* missing as it came.                                                     *)
THEOREM ReportsGaps == Spec => []GapsReported
<1>1. GapInv => GapsReported
  BY DEF GapInv
<1> QED
  BY <1>1, GapInvariant, PTL

-----------------------------------------------------------------------------
(* Types: what BaseOK and GapInv do not say.                               *)

OtherTypes ==
  /\ duplicated \in 0 .. MaxDuplicated
  /\ sender_pc \in {"send", "wait", "done", "failed"}
  /\ attempt \in 1 .. MaxRetries + 1
  /\ completed_sequences \subseteq DataSequences
  /\ sender_error \in SenderErrors
  /\ receiver_pc \in {"down", "recv", "reply", "exited"}
  /\ receiver_mode \in ReceiverModes
  /\ unique_received \in Nat
  /\ ack_dropped \in BOOLEAN
  /\ packet \in DataSequences \cup {0}
  /\ duplicate \in BOOLEAN
  /\ starts \in 0 .. MaxStarts

LEMMA NoAckTyped ==
  ASSUME attempt \in 1 .. MaxRetries + 1, NoAck \/ Acknowledged,
         sender_error \in SenderErrors
  PROVE  /\ sender_pc' \in {"send", "wait", "done", "failed"}
         /\ attempt' \in 1 .. MaxRetries + 1
         /\ sender_error' \in SenderErrors
<1>1. MaxRetries \in Nat /\ attempt \in Nat /\ 1 <= attempt
      /\ attempt <= MaxRetries + 1
  BY UdpSenderAssumption
<1>2. /\ sender_pc' \in {"send", "done", "failed"}
      /\ \/ attempt' = attempt
         \/ attempt <= MaxRetries /\ attempt' = attempt + 1
         \/ attempt' = 1
      /\ sender_error' \in {sender_error, "retry limit"}
  BY DEF NoAck, Acknowledged, RetriesLeft, SenderFail
<1>3. attempt' \in 1 .. MaxRetries + 1
  <2>1. CASE attempt' = attempt
    BY <1>1, <2>1
  <2>2. CASE attempt <= MaxRetries /\ attempt' = attempt + 1
    BY <1>1, <2>2
  <2>3. CASE attempt' = 1
    BY <1>1, <2>3
  <2> QED
    BY <1>2, <2>1, <2>2, <2>3
<1> QED
  BY <1>2, <1>3 DEF SenderErrors

LEMMA OtherTypesStep ==
  ASSUME BaseOK, OtherTypes, [Next]_vars
  PROVE  OtherTypes'
<1>1. CASE SenderStep
  <2>1. UNCHANGED <<duplicated, receiverVars>>
    BY <1>1 DEF SenderStep, SenderNext, SendData, ReadAck, ReadLate, AckTimeout
  <2>2. CASE SendData
    BY <2>1, <2>2 DEF SendData, OtherTypes, receiverVars
  <2>3. CASE ReadAck
    <3>1. /\ \/ Acknowledged
             \/ UNCHANGED <<sender_pc, attempt, sender_error>>
             \/ SenderFail("expected empty ACK")
             \/ SenderFail("ACK sequence mismatch")
          /\ completed_sequences' \subseteq DataSequences
      BY <2>3 DEF ReadAck, Datagram, OtherTypes
    <3>2. /\ sender_pc' \in {"send", "wait", "done", "failed"}
          /\ attempt' \in 1 .. MaxRetries + 1
          /\ sender_error' \in SenderErrors
      BY <3>1, NoAckTyped DEF SenderFail, SenderErrors, OtherTypes
    <3> QED
      BY <2>1, <3>1, <3>2 DEF OtherTypes, receiverVars
  <2>4. CASE ReadLate \/ AckTimeout
    <3>1. NoAck /\ UNCHANGED completed_sequences
      BY <2>4 DEF ReadLate, AckTimeout
    <3> QED
      BY <2>1, <3>1, NoAckTyped DEF OtherTypes, receiverVars
  <2> QED
    BY <1>1, <2>2, <2>3, <2>4 DEF SenderStep, SenderNext
<1>2. CASE ReceiverStep
  <2>1. UNCHANGED <<duplicated, sender_pc, attempt, completed_sequences, sender_error>>
    BY <1>2 DEF ReceiverStep, senderVars, ReceiverNext, ReceiverRun, ReceiverStart,
       ReceiverCrash, ReceiveData, ReplyAck
  <2>2. CASE ReceiverStart
    <3>1. starts \in Nat /\ starts < MaxStarts /\ starts' = starts + 1
      BY <2>2 DEF ReceiverStart, OtherTypes
    <3>2. starts' \in 0 .. MaxStarts
      BY <3>1, UdpReceiverAssumption
    <3> QED
      BY <2>1, <2>2, <3>2 DEF ReceiverStart, OtherTypes
  <2>3. CASE ReceiverCrash
    BY <2>1, <2>3 DEF ReceiverCrash, OtherTypes
  <2>4. CASE ReceiveData
    <3>1. /\ \/ receiver_pc' = "exited" /\ UNCHANGED <<packet, duplicate>>
             \/ receiver_pc' = "reply" /\ packet' \in DataSequences
                /\ duplicate' \in BOOLEAN
          /\ unique_received' \in {unique_received, unique_received + 1}
          /\ UNCHANGED <<receiver_mode, ack_dropped, starts>>
      <4>1. PICK d \in Datagram :
              \/ /\ receiver_pc' = "exited"
                 /\ UNCHANGED <<packet, duplicate, unique_received>>
              \/ /\ receiver_pc' = "reply" /\ packet' = d.seq
                 /\ duplicate' = (d.seq \in processed_sequences)
                 /\ UNCHANGED unique_received \/ Process(d.seq)
        BY <2>4, Zenon DEF ReceiveData
      <4>2. d.seq \in DataSequences
        BY DEF Datagram
      <4>3. (d.seq \in processed_sequences) \in BOOLEAN
        OBVIOUS
      <4>4. receiver_pc' = "reply" => duplicate' \in BOOLEAN
        BY <4>1, <4>3, Zenon
      <4>5. unique_received' \in {unique_received, unique_received + 1}
        BY <4>1 DEF Process
      <4>6. \/ receiver_pc' = "exited" /\ UNCHANGED <<packet, duplicate>>
            \/ receiver_pc' = "reply" /\ packet' \in DataSequences
        BY <4>1, <4>2
      <4> QED
        BY <2>4, <4>4, <4>5, <4>6, Zenon DEF ReceiveData
    <3> QED
      BY <2>1, <3>1 DEF OtherTypes
  <2>5. CASE ReplyAck
    <3>1. /\ receiver_pc' \in {"recv", "exited"} /\ ack_dropped' \in {TRUE, ack_dropped}
          /\ UNCHANGED <<receiver_mode, unique_received, packet, duplicate, starts>>
      BY <2>5 DEF ReplyAck
    <3> QED
      BY <2>1, <3>1 DEF OtherTypes
  <2> QED
    BY <1>2, <2>2, <2>3, <2>4, <2>5 DEF ReceiverStep, ReceiverNext, ReceiverRun
<1>3. CASE NetStep
  <2>1. duplicated' \in 0 .. MaxDuplicated
    <3>1. duplicated \in Nat /\ duplicated < MaxDuplicated
          /\ duplicated' = duplicated + 1
      BY <1>3 DEF NetStep, NetDuplicates, OtherTypes
    <3> QED
      BY <3>1, UdpNetAssumption
  <2> QED
    BY <1>3, <2>1 DEF NetStep, senderVars, receiverVars, OtherTypes
<1>4. CASE UNCHANGED vars
  BY <1>4 DEF vars, netVars, senderVars, receiverVars, OtherTypes
<1> QED
  BY <1>1, <1>2, <1>3, <1>4 DEF Next

LEMMA OtherTypesInvariant == Spec => []OtherTypes
<1>1. Init => OtherTypes
  <2> SUFFICES ASSUME Init PROVE OtherTypes
    OBVIOUS
  <2>1. 0 \in 0 .. MaxDuplicated /\ 0 \in 0 .. MaxStarts
        /\ 1 \in 1 .. MaxRetries + 1
    BY UdpNetAssumption, UdpSenderAssumption, UdpReceiverAssumption
  <2> QED
    BY <2>1 DEF Init, NetInit, SenderInit, ReceiverInit, OtherTypes,
       SenderErrors, ReceiverModes
<1>2. BaseOK /\ OtherTypes /\ [Next]_vars => OtherTypes'
  BY OtherTypesStep
<1> QED
  BY <1>1, <1>2, BaseInvariant, PTL DEF Spec

(* Every variable keeps its type, for every number of retries, copies and  *)
(* receiver processes.                                                     *)
THEOREM TypeCorrect == Spec => []TypeOK
<1>1. BaseOK /\ OtherTypes /\ GapInv => TypeOK
  BY DEF BaseOK, OtherTypes, GapInv, TypeOK, NetTypeOK, SenderTypeOK,
         ReceiverTypeOK
<1> QED
  BY <1>1, BaseInvariant, OtherTypesInvariant, GapInvariant, PTL

-----------------------------------------------------------------------------
(* The transfer: what a step of the pair is in the abstract specification. *)

(* Only a process that was started receives.                               *)
StartedInv == receiver_pc \in {"recv", "reply"} => starts >= 1

LEMMA StartedInvStep ==
  ASSUME BaseOK, StartedInv, [Next]_vars
  PROVE  StartedInv'
<1>1. starts \in Nat
  BY DEF BaseOK
<1>2. CASE UNCHANGED receiverVars
  BY <1>2 DEF receiverVars, StartedInv
<1>3. CASE ReceiverStart
  <2>1. starts' = starts + 1
    BY <1>3 DEF ReceiverStart
  <2> QED
    BY <1>1, <2>1 DEF StartedInv
<1>4. CASE ReceiverCrash \/ ReceiveData \/ ReplyAck
  <2>1. UNCHANGED starts
        /\ (receiver_pc \in {"recv", "reply"} \/ receiver_pc' = "down")
    BY <1>4 DEF ReceiverCrash, ReceiveData, ReplyAck
  <2> QED
    BY <2>1 DEF StartedInv
<1> QED
  BY <1>2, <1>3, <1>4, NextSplit
     DEF SenderStep, ReceiverStep, ReceiverNext, ReceiverRun

LEMMA StartedInvariant == Spec => []StartedInv
<1>1. Init => StartedInv
  BY DEF Init, ReceiverInit, StartedInv
<1>2. BaseOK /\ StartedInv /\ [Next]_vars => StartedInv'
  BY StartedInvStep
<1> QED
  BY <1>1, <1>2, BaseInvariant, PTL DEF Spec

(* The mapping of UdpSystem, named.                                        *)
Confirmed == IF sender_pc = "done" THEN Len(order) ELSE next - 1
Outcome   == IF sender_pc = "done" THEN "succeeded"
             ELSE IF sender_pc = "failed" THEN "failed" ELSE "running"

LEMMA TransferStarts ==
  ASSUME Init
  PROVE  Transfer!TransferInit
BY DEF Init, SenderInit, ReceiverInit, Transfer!TransferInit

(* wait_for_ack returned true: the sequence is confirmed.                  *)
LEMMA AcknowledgedConfirms ==
  ASSUME BaseOK, sender_pc = "wait", Acknowledged, Processed(Sequence),
         UNCHANGED <<order, delivered>>
  PROVE  Transfer!Confirm
<1>1. Len(order) \in Nat /\ next \in Nat /\ next <= Len(order)
  BY OrderIsOfData DEF BaseOK
<1>2. Confirmed = next - 1 /\ Outcome = "running"
  BY DEF Confirmed, Outcome
<1>3. PICK j \in DOMAIN delivered : delivered[j].seq = order[next]
  BY DEF Processed, Sequence
<1>4. Confirmed' = next
      /\ Outcome' = IF next = Len(order) THEN "succeeded" ELSE "running"
  <2>1. CASE next = Len(order)
    BY <1>1, <2>1 DEF Acknowledged, Confirmed, Outcome
  <2>2. CASE next # Len(order)
    <3>1. sender_pc' = "send" /\ next' = next + 1
      BY <2>2 DEF Acknowledged
    <3> QED
      BY <1>1, <2>2, <3>1 DEF Confirmed, Outcome
  <2> QED
    BY <2>1, <2>2
<1>5. Confirmed + 1 = next /\ Confirmed < Len(order)
  BY <1>1, <1>2
<1> QED
  BY <1>2, <1>3, <1>4, <1>5 DEF Transfer!Confirm, Confirmed, Outcome

LEMMA FailureGivesUp ==
  ASSUME sender_pc = "wait", sender_pc' = "failed", UNCHANGED <<order, delivered, next>>
  PROVE  Transfer!GiveUp
BY DEF Transfer!GiveUp

LEMMA SenderInTransfer ==
  ASSUME BaseOK, HonestInv, SenderStep
  PROVE  Transfer!TransferNext \/ UNCHANGED Transfer!transferVars
<1>1. UNCHANGED <<order, delivered>>
  BY DEF SenderStep, SenderNext, SendData, ReadAck, ReadLate, AckTimeout,
         receiverVars
<1>2. ASSUME sender_pc \in {"send", "wait"}, sender_pc' \in {"send", "wait"},
             UNCHANGED next
      PROVE  UNCHANGED Transfer!transferVars
  BY <1>1, <1>2 DEF Transfer!transferVars
<1>3. CASE SendData
  BY <1>2, <1>3 DEF SendData
<1>4. CASE ReadLate \/ AckTimeout
  <2>1. sender_pc = "wait" /\ NoAck
    BY <1>4 DEF ReadLate, AckTimeout
  <2>2. \/ sender_pc' = "send" /\ UNCHANGED next
        \/ sender_pc' = "failed" /\ UNCHANGED next
    BY <2>1 DEF NoAck, SenderFail
  <2> QED
    BY <1>1, <1>2, <2>1, <2>2, FailureGivesUp DEF Transfer!TransferNext
<1>5. CASE ReadAck
  <2>1. sender_pc = "wait"
    BY <1>5 DEF ReadAck
  <2>2. PICK d \in Datagram :
          /\ RecvFrom("sender", d)
          /\ \/ sender_pc' = "failed" /\ UNCHANGED next
             \/ UNCHANGED <<sender_pc, next>>
             \/ d.type = "Ack" /\ d.seq = Sequence /\ Acknowledged
    BY <1>5 DEF ReadAck, SenderFail
  <2>3. CASE d.type = "Ack" /\ d.seq = Sequence /\ Acknowledged
    <3>1. OnTheWay(AckPacket(d.seq)) /\ d.seq \in DataSequences
      BY <2>2, <2>3, AckIsUnique DEF RecvFrom
    <3>2. Processed(Sequence)
      BY <2>3, <3>1 DEF HonestInv
    <3> QED
      BY <1>1, <2>1, <2>3, <3>2, AcknowledgedConfirms DEF Transfer!TransferNext
  <2> QED
    BY <1>1, <1>2, <2>1, <2>2, <2>3, FailureGivesUp DEF Transfer!TransferNext
<1> QED
  BY <1>3, <1>4, <1>5 DEF SenderStep, SenderNext

LEMMA ProcessTakes ==
  ASSUME BaseOK, OtherTypes, OnceInv, StartedInv, receiver_pc = "recv",
         NEW n \in DataSequences, Reached(n), n \notin processed_sequences,
         Process(n), UNCHANGED <<order, next, sender_pc>>
  PROVE  Transfer!Take
<1> DEFINE r == [process |-> starts, seq |-> n]
<1>1. Len(order) \in Nat /\ next \in Nat /\ next <= Len(order)
  BY OrderIsOfData DEF BaseOK
<1>2. PICK i \in 1 .. next : n = order[i]
  BY DEF Reached
<1>3. i \in 1 .. Confirmed + 1 /\ i <= Len(order)
  BY <1>1 DEF Confirmed
<1>4. starts \in 1 .. MaxStarts
  BY UdpReceiverAssumption DEF StartedInv, OtherTypes
<1>5. \A j \in DOMAIN delivered :
        delivered[j].process <= starts /\ delivered[j] # r
  <2>1. r.process = starts /\ r.seq = n
    OBVIOUS
  <2> QED
    BY <2>1 DEF OnceInv
<1>6. delivered' = Append(delivered, r)
  BY DEF Process
<1>7. UNCHANGED <<Confirmed, Outcome>>
  BY DEF Confirmed, Outcome
<1> QED
  BY <1>2, <1>3, <1>4, <1>5, <1>6, <1>7 DEF Transfer!Take, Confirmed, Outcome

LEMMA ReceiverInTransfer ==
  ASSUME BaseOK, OtherTypes, OnceInv, MatchInv, StartedInv, ReceiverStep
  PROVE  Transfer!TransferNext \/ UNCHANGED Transfer!transferVars
<1>1. UNCHANGED <<order, next, sender_pc>>
  BY DEF ReceiverStep, senderVars
<1>2. CASE UNCHANGED delivered
  BY <1>1, <1>2 DEF Transfer!transferVars
<1>3. CASE ReceiveData
  <2>1. PICK d \in Datagram :
          /\ RecvFrom("receiver", d)
          /\ \/ UNCHANGED delivered
             \/ d.seq \notin processed_sequences /\ Process(d.seq)
    BY <1>3, Zenon DEF ReceiveData
  <2>2. Reached(d.seq) /\ d.seq \in DataSequences
    BY <2>1 DEF RecvFrom, MatchInv, Datagram
  <2>3. receiver_pc = "recv"
    BY <1>3 DEF ReceiveData
  <2> QED
    BY <1>1, <1>2, <2>1, <2>2, <2>3, ProcessTakes DEF Transfer!TransferNext
<1> QED
  BY <1>2, <1>3 DEF ReceiverStep, ReceiverNext, ReceiverRun, ReceiverStart,
     ReceiverCrash, ReplyAck

(* The two programs and the network implement the transfer, for every      *)
(* number of retries, copies and receiver processes.                       *)
THEOREM TransferImplemented == Spec => ImplementsTransfer
<1>1. Init => Transfer!TransferInit
  BY TransferStarts
<1>2. BaseOK /\ OtherTypes /\ HonestInv /\ OnceInv /\ MatchInv /\ StartedInv
        /\ [Next]_vars
        => [Transfer!TransferNext]_Transfer!transferVars
  <2> SUFFICES ASSUME BaseOK, OtherTypes, HonestInv, OnceInv, MatchInv, StartedInv,
                      [Next]_vars
               PROVE  Transfer!TransferNext \/ UNCHANGED Transfer!transferVars
    OBVIOUS
  <2>1. CASE SenderStep
    BY <2>1, SenderInTransfer
  <2>2. CASE ReceiverStep
    BY <2>2, ReceiverInTransfer
  <2>3. CASE UNCHANGED <<senderVars, receiverVars>>
    BY <2>3 DEF senderVars, receiverVars, Transfer!transferVars
  <2> QED
    BY <2>1, <2>2, <2>3, NextSplit
<1> QED
  BY <1>1, <1>2, BaseInvariant, OtherTypesInvariant, HonestInvariant, OnceInvariant,
     MatchInvariant, StartedInvariant, PTL
     DEF Spec, ImplementsTransfer, Transfer!TransferSpec

-----------------------------------------------------------------------------
(* A quick machine.  Every time the current sequence was sent, one of its  *)
(* datagrams or ACKs is still pending or one was lost: a deadline passes   *)
(* only when nothing is pending.                                           *)

Replying == receiver_pc = "reply" /\ packet = Sequence

(* The datagrams of the current sequence on the way, and its ACK that the  *)
(* receiver is about to send.                                              *)
Pending ==
  net[DataPacket(Sequence)] + net[AckPacket(Sequence)] + IF Replying THEN 1 ELSE 0

(* How often the current sequence was sent.                                *)
Sends == IF sender_pc = "send" THEN attempt - 1 ELSE attempt

SentSoFar == {order[i] : i \in 1 .. next}

QuickTypeOK ==
  /\ net \in [Datagram -> Nat]
  /\ sender_pc \in {"send", "wait", "done", "failed"}
  /\ order \in Orders
  /\ next \in 1 .. Len(order)
  /\ attempt \in Nat \ {0}
  /\ receiver_pc \in {"down", "recv", "reply", "exited"}
  /\ ack_dropped \in BOOLEAN
  /\ starts \in Nat
  /\ lost \in Nat

(* Until the receiver runs the sender has done nothing.                    *)
QuickStart ==
  IF starts = 0
    THEN /\ receiver_pc = "down" /\ sender_pc = "send"
         /\ next = 1 /\ attempt = 1
         /\ \A d \in Datagram : net[d] = 0
    ELSE receiver_pc # "down" /\ <<order, receiver_mode>> \in Tests

(* DATA is of a sequence that was reached, an ACK of one that was          *)
(* processed.                                                              *)
QuickNet ==
  \A d \in Datagram : net[d] > 0 =>
     IF d.to = "receiver" THEN d.type = "Data" /\ d.seq \in SentSoFar
                          ELSE d.type = "Ack" /\ d.seq \in processed_sequences

(* The sender goes on when a sequence was processed, and not before.       *)
QuickPlace ==
  /\ processed_sequences \subseteq SentSoFar
  /\ \A i \in 1 .. next - 1 : order[i] \in processed_sequences
  /\ unique_received = IF Sequence \in processed_sequences THEN next ELSE next - 1
  /\ completed_sequences \subseteq SentSoFar
  /\ ~SenderEnded => Sequence \notin completed_sequences

(* The receiver answers the last sequence before it exits.                 *)
QuickReply ==
  /\ receiver_pc = "reply" => packet \in processed_sequences
  /\ receiver_mode = "out-of-order" =>
       /\ receiver_pc = "recv" => unique_received < 3
       /\ receiver_pc = "reply" /\ unique_received = 3 => packet = Sequence

QuickExit ==
  receiver_pc = "exited" =>
    LastSequence \in lost_acks \/ OnTheWay(AckPacket(LastSequence)) \/ SenderEnded

(* As long as the receiver runs, everything sent for the current sequence  *)
(* is lost, omitted or pending.                                            *)
QuickCount ==
  ~SenderEnded /\ receiver_pc # "exited" => Sends <= lost + OwnDrops + Pending

QuickInv ==
  /\ QuickTypeOK /\ QuickStart /\ QuickNet /\ QuickPlace /\ QuickReply
  /\ QuickExit /\ QuickCount /\ RetriesOnlyForLoss

-----------------------------------------------------------------------------
LEMMA OrderFacts ==
  ASSUME order \in Orders
  PROVE  /\ Len(order) \in Nat \ {0}
         /\ \A i \in 1 .. Len(order) : order[i] \in DataSequences /\ order[i] \in Nat
         /\ \A i, j \in 1 .. Len(order) : order[i] = order[j] => i = j
<1>1. {1, 2, 3} \subseteq DataSequences
  BY UdpSenderAssumption
<1>2. CASE order = <<1>>
  BY <1>1, <1>2
<1>3. CASE order = <<1, 3, 2>>
  BY <1>1, <1>3
<1> QED
  BY <1>2, <1>3 DEF Orders

QuickFacts ==
  /\ Sequence \in DataSequences /\ LastSequence \in DataSequences
  /\ Sequence \in SentSoFar
  /\ DataPacket(Sequence) \in Datagram /\ AckPacket(Sequence) \in Datagram
  /\ AckPacket(LastSequence) \in Datagram
  /\ net[DataPacket(Sequence)] \in Nat /\ net[AckPacket(Sequence)] \in Nat
  /\ Pending \in Nat /\ OwnDrops \in {0, 1} /\ Sends \in Nat

LEMMA QuickNumbers == QuickTypeOK => QuickFacts
<1> SUFFICES ASSUME QuickTypeOK PROVE QuickFacts
  OBVIOUS
<1>1. Sequence \in DataSequences /\ LastSequence \in DataSequences
  BY OrderFacts DEF QuickTypeOK, Sequence, LastSequence
<1>2. Sequence \in SentSoFar
  BY OrderFacts DEF QuickTypeOK, Sequence, SentSoFar
<1>3. /\ DataPacket(Sequence) \in Datagram /\ AckPacket(Sequence) \in Datagram
      /\ AckPacket(LastSequence) \in Datagram
  BY <1>1 DEF DataPacket, AckPacket, Datagram
<1>4. net[DataPacket(Sequence)] \in Nat /\ net[AckPacket(Sequence)] \in Nat
  BY <1>3 DEF QuickTypeOK
<1>5. Pending \in Nat
  BY <1>4 DEF Pending
<1>6. OwnDrops \in {0, 1} /\ Sends \in Nat
  BY DEF OwnDrops, Sends, QuickTypeOK
<1> QED
  BY <1>1, <1>2, <1>3, <1>4, <1>5, <1>6 DEF QuickFacts

LEMMA QuickNumbersNext == ASSUME QuickTypeOK' PROVE QuickFacts'
BY QuickNumbers, PTL

LEMMA QuickInitial == QuickInit => QuickInv
<1> SUFFICES ASSUME QuickInit PROVE QuickInv
  OBVIOUS
<1> USE DEF QuickInit, Init, NetInit, SenderInit, ReceiverInit
<1>1. QuickTypeOK
  <2>1. 1 \in 1 .. Len(order)
    BY OrderFacts
  <2>2. net \in [Datagram -> Nat]
    OBVIOUS
  <2>3. ack_dropped \in BOOLEAN
    OBVIOUS
  <2>4. /\ sender_pc \in {"send", "wait", "done", "failed"}
        /\ receiver_pc \in {"down", "recv", "reply", "exited"}
        /\ order \in Orders /\ next \in 1 .. Len(order) /\ attempt \in Nat \ {0}
        /\ starts \in Nat /\ lost \in Nat
    BY <2>1
  <2> QED
    BY <2>2, <2>3, <2>4, Zenon DEF QuickTypeOK
<1>2. QuickStart /\ QuickNet
  BY DEF QuickStart, QuickNet
<1>3. QuickPlace
  BY DEF QuickPlace
<1>4. QuickReply /\ QuickExit
  BY DEF QuickReply, QuickExit
<1>5. QuickCount /\ RetriesOnlyForLoss
  BY <1>1, QuickNumbers DEF QuickFacts, QuickCount, RetriesOnlyForLoss, Sends
<1> QED
  BY <1>1, <1>2, <1>3, <1>4, <1>5 DEF QuickInv

LEMMA QuickStartTest ==
  ASSUME QuickInv, StartTest, UNCHANGED senderVars, UNCHANGED <<lost, lost_acks>>
  PROVE  QuickInv'
<1> USE DEF StartTest, ReceiverStart, senderVars
<1>0. /\ starts = 0 /\ starts' = 1 /\ sender_pc = "send" /\ next = 1 /\ attempt = 1
      /\ \A d \in Datagram : net[d] = 0
  BY DEF QuickInv, QuickStart
<1>1. QuickTypeOK'
  BY <1>0 DEF QuickInv, QuickTypeOK
<1>2. QuickStart'
  BY <1>0 DEF QuickStart
<1>3. QuickNet'
  BY <1>0 DEF QuickNet
<1>4. QuickPlace'
  BY <1>0 DEF QuickPlace, QuickInv, Sequence, SentSoFar, SenderEnded
<1>5. QuickReply' /\ QuickExit'
  BY <1>0 DEF QuickReply, QuickExit
<1>6. QuickCount' /\ RetriesOnlyForLoss'
  BY <1>0, <1>1, QuickNumbersNext
  DEF QuickTypeOK, QuickFacts, QuickCount, RetriesOnlyForLoss, Sends
<1> QED
  BY <1>1, <1>2, <1>3, <1>4, <1>5, <1>6 DEF QuickInv

-----------------------------------------------------------------------------
(* A copy of e more, a copy of e less.                                     *)
LEMMA CopyMore ==
  ASSUME QuickTypeOK, NEW e \in Datagram, SendTo(e)
  PROVE  /\ net' \in [Datagram -> Nat]
         /\ \A d \in Datagram : net'[d] = IF d = e THEN net[d] + 1 ELSE net[d]
BY DEF QuickTypeOK, SendTo

LEMMA CopyLess ==
  ASSUME QuickTypeOK, NEW e \in Datagram, OnTheWay(e),
         net' = [net EXCEPT ![e] = @ - 1]
  PROVE  /\ net' \in [Datagram -> Nat]
         /\ \A d \in Datagram : net'[d] = IF d = e THEN net[d] - 1 ELSE net[d]
<1>1. net[e] - 1 \in Nat
  BY DEF QuickTypeOK, OnTheWay
<1> QED
  BY <1>1 DEF QuickTypeOK

LEMMA PacketFields ==
  ASSUME NEW d \in Datagram
  PROVE  /\ d = DataPacket(d.seq) <=> d.to = "receiver" /\ d.type = "Data"
         /\ d = AckPacket(d.seq)  <=> d.to = "sender" /\ d.type = "Ack"
         /\ d.seq \in DataSequences
         /\ \A n : DataPacket(n) = d => n = d.seq
         /\ \A n : AckPacket(n) = d => n = d.seq
         /\ \A n : DataPacket(n).to = "receiver" /\ AckPacket(n).to = "sender"
BY DEF Datagram, DataPacket, AckPacket

LEMMA QuickSendData ==
  ASSUME QuickInv, starts > 0, SendData, UNCHANGED receiverVars,
         UNCHANGED <<lost, lost_acks>>
  PROVE  QuickInv'
<1> USE DEF SendData, receiverVars
<1>1. QuickFacts
  BY QuickNumbers DEF QuickInv
<1>2. /\ net' \in [Datagram -> Nat]
      /\ \A d \in Datagram :
           net'[d] = IF d = DataPacket(Sequence) THEN net[d] + 1 ELSE net[d]
  BY <1>1, CopyMore DEF QuickInv, QuickFacts
<1>3. Sequence' = Sequence /\ SentSoFar' = SentSoFar /\ LastSequence' = LastSequence
  BY DEF Sequence, SentSoFar, LastSequence
<1>4. QuickTypeOK'
  BY <1>2 DEF QuickInv, QuickTypeOK
<1>5. QuickStart'
  BY DEF QuickInv, QuickStart
<1>6. QuickNet'
  <2> SUFFICES ASSUME NEW d \in Datagram, net'[d] > 0
      PROVE IF d.to = "receiver" THEN d.type = "Data" /\ d.seq \in SentSoFar
                                 ELSE d.type = "Ack" /\ d.seq \in processed_sequences
    BY <1>3 DEF QuickNet
  <2>1. CASE d = DataPacket(Sequence)
    BY <1>1, <2>1 DEF QuickFacts, DataPacket
  <2>2. CASE d # DataPacket(Sequence)
    BY <1>2, <2>2 DEF QuickInv, QuickNet
  <2> QED
    BY <2>1, <2>2
<1>7. QuickPlace'
  BY <1>3 DEF QuickInv, QuickPlace, SenderEnded
<1>8. QuickReply' /\ RetriesOnlyForLoss'
  BY <1>3 DEF QuickInv, QuickReply, RetriesOnlyForLoss, OwnDrops
<1>9. QuickExit'
  <2>1. OnTheWay(AckPacket(LastSequence)) => OnTheWay(AckPacket(LastSequence))'
    BY <1>1, <1>2, <1>3 DEF OnTheWay, QuickFacts, QuickInv, QuickTypeOK, AckPacket
  <2> QED
    BY <1>3, <2>1 DEF QuickInv, QuickExit, SenderEnded
<1>10. QuickCount'
  <2>1. /\ net'[DataPacket(Sequence)] = net[DataPacket(Sequence)] + 1
        /\ net'[AckPacket(Sequence)] = net[AckPacket(Sequence)]
    BY <1>1, <1>2 DEF QuickFacts, DataPacket, AckPacket
  <2>2. Pending' = Pending + 1
    BY <1>1, <1>3, <2>1 DEF Pending, Replying, QuickFacts, DataPacket, AckPacket
  <2>3. Sends' = Sends + 1
    BY DEF Sends, QuickInv, QuickTypeOK
  <2>4. OwnDrops' = OwnDrops
    BY DEF OwnDrops
  <2> QED
    BY <1>1, <2>2, <2>3, <2>4 DEF QuickInv, QuickCount, SenderEnded, QuickFacts, QuickTypeOK
<1> QED
  BY <1>4, <1>5, <1>6, <1>7, <1>8, <1>9, <1>10 DEF QuickInv

(* Something is lost, omitted, or more is pending.                         *)
LEMMA CountStays ==
  ASSUME QuickFacts, QuickFacts', lost \in Nat, lost' \in Nat,
         Sends <= lost + OwnDrops + Pending, Sends' = Sends,
         \/ lost' = lost /\ OwnDrops' = OwnDrops /\ Pending' >= Pending
         \/ lost' = lost + 1 /\ OwnDrops' = OwnDrops /\ Pending' + 1 >= Pending
         \/ lost' = lost /\ OwnDrops' = OwnDrops + 1 /\ Pending' + 1 >= Pending
  PROVE  Sends' <= lost' + OwnDrops' + Pending'
<1>1. /\ Pending \in Nat /\ OwnDrops \in Nat /\ Sends \in Nat
      /\ Pending' \in Nat /\ OwnDrops' \in Nat /\ Sends' \in Nat
  BY DEF QuickFacts
<1>2. PICK s \in Nat, l \in Nat, o \in Nat, p \in Nat :
        s = Sends /\ l = lost /\ o = OwnDrops /\ p = Pending
  BY <1>1
<1>3. PICK m \in Nat, r \in Nat, q \in Nat :
        m = lost' /\ r = OwnDrops' /\ q = Pending'
  BY <1>1
<1>4. s <= l + o + p
  BY <1>2
<1>5. \/ m = l /\ r = o /\ q >= p
      \/ m = l + 1 /\ r = o /\ q + 1 >= p
      \/ m = l /\ r = o + 1 /\ q + 1 >= p
  BY <1>2, <1>3
<1>6. s <= m + r + q
  BY <1>4, <1>5
<1> QED
  BY <1>2, <1>3, <1>6

LEMMA CountIsPositive ==
  \A l, o, p \in Nat : 0 <= l + o + p /\ 0 <= l + o
OBVIOUS

LEMMA QuickLose ==
  ASSUME QuickInv, Lose
  PROVE  QuickInv'
<1> USE DEF Lose, senderVars, receiverVars
<1>1. QuickFacts
  BY QuickNumbers DEF QuickInv
<1>2. PICK e \in Datagram :
        /\ OnTheWay(e) /\ net' = [net EXCEPT ![e] = @ - 1]
        /\ lost_acks' = IF e.type = "Ack" THEN lost_acks \cup {e.seq} ELSE lost_acks
  OBVIOUS
<1>3. /\ net' \in [Datagram -> Nat]
      /\ \A d \in Datagram : net'[d] = IF d = e THEN net[d] - 1 ELSE net[d]
  BY <1>2, CopyLess DEF QuickInv
<1>4. Sequence' = Sequence /\ SentSoFar' = SentSoFar /\ LastSequence' = LastSequence
  BY DEF Sequence, SentSoFar, LastSequence
<1>5. net[e] > 0 /\ net[e] \in Nat
  BY <1>2 DEF OnTheWay, QuickInv, QuickTypeOK
<1>6. \A d \in Datagram : net'[d] > 0 => net[d] > 0
  BY <1>3, <1>5
<1>7. QuickTypeOK'
  BY <1>3 DEF QuickInv, QuickTypeOK
<1>8. QuickStart'
  BY <1>5 DEF QuickInv, QuickStart
<1>9. QuickNet'
  BY <1>4, <1>6 DEF QuickInv, QuickNet
<1>10. QuickPlace'
  BY <1>4 DEF QuickInv, QuickPlace, SenderEnded
<1>11. QuickReply'
  BY <1>4 DEF QuickInv, QuickReply
<1>12. /\ lost' = lost + 1 /\ lost \in Nat /\ OwnDrops' = OwnDrops
       /\ lost_acks \subseteq lost_acks'
  BY <1>2 DEF OwnDrops, QuickInv, QuickTypeOK
<1>13. RetriesOnlyForLoss'
  BY <1>1, <1>4, <1>12 DEF QuickInv, RetriesOnlyForLoss, QuickTypeOK, QuickFacts
<1>14. QuickExit'
  <2>1. CASE e = AckPacket(LastSequence)
    BY <1>2, <1>4, <2>1 DEF QuickExit, AckPacket
  <2>2. CASE e # AckPacket(LastSequence)
    <3>1. OnTheWay(AckPacket(LastSequence)) => OnTheWay(AckPacket(LastSequence))'
      BY <1>1, <1>3, <1>4, <2>2 DEF OnTheWay, QuickFacts
    <3> QED
      BY <1>4, <1>12, <3>1 DEF QuickInv, QuickExit, SenderEnded
  <2> QED
    BY <2>1, <2>2
<1>15. QuickCount'
  <2>1. DataPacket(Sequence) # AckPacket(Sequence)
    BY DEF DataPacket, AckPacket
  <2>2. net'[DataPacket(Sequence)] + net'[AckPacket(Sequence)] + 1
          >= net[DataPacket(Sequence)] + net[AckPacket(Sequence)]
    <3> DEFINE a == DataPacket(Sequence)
               b == AckPacket(Sequence)
    <3>1. a \in Datagram /\ b \in Datagram /\ a # b /\ net[a] \in Nat /\ net[b] \in Nat
      BY <1>1, <2>1 DEF QuickFacts
    <3>2. /\ net'[a] = IF a = e THEN net[a] - 1 ELSE net[a]
          /\ net'[b] = IF b = e THEN net[b] - 1 ELSE net[b]
      BY <1>3, <3>1
    <3> HIDE DEF a, b
    <3>3. net'[a] + net'[b] + 1 >= net[a] + net[b]
      BY <3>1, <3>2
    <3> QED
      BY <3>3 DEF a, b
  <2>3. /\ net'[DataPacket(Sequence)] \in Nat /\ net'[AckPacket(Sequence)] \in Nat
        /\ net[DataPacket(Sequence)] \in Nat /\ net[AckPacket(Sequence)] \in Nat
    BY <1>1, <1>3 DEF QuickFacts
  <2>4. Pending' + 1 >= Pending
    BY <1>4, <2>2, <2>3 DEF Pending, Replying
  <2>5. Sends' = Sends /\ Pending' \in Nat
    BY <1>7, QuickNumbersNext DEF Sends, QuickFacts
  <2>6. SUFFICES ASSUME ~SenderEnded, receiver_pc # "exited"
        PROVE  Sends' <= lost' + OwnDrops' + Pending'
    BY DEF QuickCount, SenderEnded
  <2>7. Sends <= lost + OwnDrops + Pending
    BY <2>6 DEF QuickInv, QuickCount
  <2>8. lost' \in Nat
    BY <1>12
  <2> QED
    BY <1>1, <1>7, <1>12, <2>4, <2>5, <2>7, <2>8, QuickNumbersNext, CountStays, Zenon
<1> QED
  BY <1>7, <1>8, <1>9, <1>10, <1>11, <1>13, <1>14, <1>15 DEF QuickInv

LEMMA QuickDuplicates ==
  ASSUME QuickInv, NetStep, UNCHANGED <<lost, lost_acks>>
  PROVE  QuickInv'
<1> USE DEF NetStep, NetDuplicates, senderVars, receiverVars
<1>1. QuickFacts
  BY QuickNumbers DEF QuickInv
<1>2. PICK e \in Datagram : OnTheWay(e) /\ SendTo(e)
  OBVIOUS
<1>3. /\ net' \in [Datagram -> Nat]
      /\ \A d \in Datagram : net'[d] = IF d = e THEN net[d] + 1 ELSE net[d]
  BY <1>2, CopyMore DEF QuickInv
<1>4. Sequence' = Sequence /\ SentSoFar' = SentSoFar /\ LastSequence' = LastSequence
  BY DEF Sequence, SentSoFar, LastSequence
<1>5. net[e] > 0 /\ net \in [Datagram -> Nat]
  BY <1>2 DEF OnTheWay, QuickInv, QuickTypeOK
<1>6. \A d \in Datagram : net'[d] > 0 <=> net[d] > 0
  BY <1>3, <1>5
<1>7. QuickTypeOK'
  BY <1>3 DEF QuickInv, QuickTypeOK
<1>8. QuickStart'
  BY <1>5 DEF QuickInv, QuickStart
<1>9. QuickNet'
  BY <1>4, <1>6 DEF QuickInv, QuickNet
<1>10. QuickPlace'
  BY <1>4 DEF QuickInv, QuickPlace, SenderEnded
<1>11. QuickReply' /\ RetriesOnlyForLoss'
  BY <1>4 DEF QuickInv, QuickReply, RetriesOnlyForLoss, OwnDrops
<1>12. QuickExit'
  <2>1. OnTheWay(AckPacket(LastSequence)) => OnTheWay(AckPacket(LastSequence))'
    BY <1>1, <1>4, <1>6 DEF OnTheWay, QuickFacts
  <2> QED
    BY <1>4, <2>1 DEF QuickInv, QuickExit, SenderEnded
<1>13. QuickCount'
  <2>1. /\ net'[DataPacket(Sequence)] >= net[DataPacket(Sequence)]
        /\ net'[AckPacket(Sequence)] >= net[AckPacket(Sequence)]
        /\ net'[DataPacket(Sequence)] \in Nat /\ net'[AckPacket(Sequence)] \in Nat
        /\ net[DataPacket(Sequence)] \in Nat /\ net[AckPacket(Sequence)] \in Nat
    BY <1>1, <1>3 DEF QuickFacts
  <2>2. Pending' >= Pending
    BY <1>4, <2>1 DEF Pending, Replying
  <2>3. Sends' = Sends /\ OwnDrops' = OwnDrops /\ Pending' \in Nat /\ lost \in Nat
    BY <1>7, QuickNumbersNext DEF Sends, OwnDrops, QuickFacts, QuickInv, QuickTypeOK
  <2>4. SUFFICES ASSUME ~SenderEnded, receiver_pc # "exited"
        PROVE  Sends' <= lost' + OwnDrops' + Pending'
    BY DEF QuickCount, SenderEnded
  <2>5. Sends <= lost + OwnDrops + Pending
    BY <2>4 DEF QuickInv, QuickCount
  <2>6. lost' = lost /\ lost' \in Nat
    BY <2>3
  <2> QED
    BY <1>1, <1>7, <2>2, <2>3, <2>5, <2>6, QuickNumbersNext, CountStays, Zenon
<1> QED
  BY <1>7, <1>8, <1>9, <1>10, <1>11, <1>12, <1>13 DEF QuickInv

(* The deadline passes when nothing is pending: every attempt so far was   *)
(* lost or omitted.                                                        *)
LEMMA QuickTimeout ==
  ASSUME QuickInv, starts > 0, AckTimeout, NoAnswerComes, UNCHANGED receiverVars,
         UNCHANGED <<lost, lost_acks>>
  PROVE  QuickInv'
<1> USE DEF AckTimeout, receiverVars
<1>1. QuickFacts
  BY QuickNumbers DEF QuickInv
<1>2. Sequence' = Sequence /\ SentSoFar' = SentSoFar /\ LastSequence' = LastSequence
  BY DEF Sequence, SentSoFar, LastSequence, NoAck, SenderFail
<1>3. /\ next' = next /\ attempt' \in Nat \ {0}
      /\ \/ sender_pc' = "send" /\ attempt' = attempt + 1
         \/ sender_pc' = "failed" /\ attempt' = attempt
  <2>1. attempt \in Nat \ {0}
    BY DEF QuickInv, QuickTypeOK
  <2>2. \/ sender_pc' = "send" /\ attempt' = attempt + 1 /\ next' = next
        \/ sender_pc' = "failed" /\ attempt' = attempt /\ next' = next
    BY DEF NoAck, SenderFail
  <2>3. attempt' \in Nat \ {0}
    BY <2>1, <2>2
  <2> QED
    BY <2>2, <2>3, Zenon
<1>4. QuickTypeOK'
  BY <1>3 DEF QuickInv, QuickTypeOK
<1>5. QuickStart' /\ QuickNet'
  BY <1>2 DEF QuickInv, QuickStart, QuickNet
<1>6. QuickPlace'
  BY <1>2, <1>3 DEF QuickInv, QuickPlace, SenderEnded
<1>7. QuickReply'
  BY <1>2 DEF QuickInv, QuickReply
<1>8. ~OnTheWay(AckPacket(LastSequence))
  BY <1>1 DEF NoAnswerComes, QuickFacts
<1>9. QuickExit'
  BY <1>2, <1>8 DEF QuickInv, QuickExit, SenderEnded, OnTheWay
<1>10. receiver_pc # "exited" => Pending = 0
  <2> SUFFICES ASSUME receiver_pc # "exited" PROVE Pending = 0
    OBVIOUS
  <2>1. receiver_pc = "recv" /\ ~OnTheWay(DataPacket(Sequence))
    BY <1>1 DEF QuickInv, QuickTypeOK, QuickStart, NoAnswerComes, ReceiverBusy,
       QuickFacts, DataPacket
  <2>2. ~OnTheWay(AckPacket(Sequence))
    BY <1>1 DEF NoAnswerComes, QuickFacts
  <2>3. net[DataPacket(Sequence)] = 0 /\ net[AckPacket(Sequence)] = 0
    BY <1>1, <2>1, <2>2 DEF OnTheWay, QuickFacts
  <2> QED
    BY <2>1, <2>3 DEF Pending, Replying
<1>11. Sends = attempt
  BY DEF Sends
<1>12. RetriesOnlyForLoss'
  <2> SUFFICES ASSUME LastSequence \notin lost_acks PROVE attempt' - 1 <= lost + OwnDrops
    BY <1>2 DEF RetriesOnlyForLoss, OwnDrops
  <2>1. receiver_pc # "exited"
    BY <1>8 DEF QuickInv, QuickExit, SenderEnded
  <2>2. attempt <= lost + OwnDrops
    BY <1>1, <1>10, <1>11, <2>1 DEF QuickInv, QuickCount, SenderEnded, QuickFacts,
       QuickTypeOK
  <2>3. attempt' = attempt \/ attempt' = attempt + 1
    BY <1>3
  <2>4. attempt \in Nat /\ lost \in Nat
    BY DEF QuickInv, QuickTypeOK
  <2> QED
    BY <1>1, <2>2, <2>3, <2>4 DEF QuickFacts
<1>13. QuickCount'
  <2>1. sender_pc' = "send" => Sends' = Sends
    BY <1>3, <1>11 DEF Sends, QuickInv, QuickTypeOK
  <2>2. Pending' = Pending /\ OwnDrops' = OwnDrops
    BY <1>2 DEF Pending, Replying, OwnDrops
  <2> QED
    BY <1>3, <2>1, <2>2 DEF QuickInv, QuickCount, SenderEnded
<1> QED
  BY <1>4, <1>5, <1>6, <1>7, <1>9, <1>12, <1>13 DEF QuickInv

(* One sequence after the other; what was sent before is processed.        *)
LEMMA PlaceFacts ==
  ASSUME QuickInv
  PROVE  /\ Len(order) \in {1, 3} /\ next \in 1 .. Len(order)
         /\ \A i \in 1 .. Len(order) : order[i] \in SentSoFar => i <= next
         /\ \A n \in SentSoFar : n \notin processed_sequences => n = Sequence
         /\ LastSequence = order[Len(order)]
<1>1. order \in Orders /\ next \in 1 .. Len(order)
  BY DEF QuickInv, QuickTypeOK
<1>2. Len(order) \in {1, 3}
  BY <1>1 DEF Orders
<1>3. ASSUME NEW i \in 1 .. Len(order), order[i] \in SentSoFar
      PROVE  i <= next
  <2>1. PICK j \in 1 .. next : order[i] = order[j]
    BY <1>3 DEF SentSoFar
  <2>2. j \in 1 .. Len(order)
    BY <1>1, <1>2
  <2> QED
    BY <1>1, <2>1, <2>2, OrderFacts
<1>4. ASSUME NEW n \in SentSoFar, n \notin processed_sequences
      PROVE  n = Sequence
  <2>1. PICK j \in 1 .. next : n = order[j]
    BY DEF SentSoFar
  <2>2. j \notin 1 .. next - 1
    BY <1>4, <2>1 DEF QuickInv, QuickPlace
  <2>3. j = next
    BY <1>1, <1>2, <2>2
  <2> QED
    BY <2>1, <2>3 DEF Sequence
<1> QED
  BY <1>1, <1>2, <1>3, <1>4 DEF LastSequence

LEMMA QuickReadAck ==
  ASSUME QuickInv, starts > 0, ReadAck, UNCHANGED receiverVars,
         UNCHANGED <<lost, lost_acks>>
  PROVE  QuickInv'
<1> USE DEF receiverVars
<1>1. QuickFacts
  BY QuickNumbers DEF QuickInv
<1>2. PICK e \in Datagram :
        /\ e.to = "sender" /\ OnTheWay(e) /\ net' = [net EXCEPT ![e] = @ - 1]
        /\ sender_pc = "wait"
        /\ IF e.type # "Ack"
             THEN /\ SenderFail("expected empty ACK")
                  /\ UNCHANGED completed_sequences
           ELSE IF e.seq = Sequence
             THEN /\ completed_sequences' = completed_sequences \cup {e.seq}
                  /\ Acknowledged
           ELSE IF Stale(e.seq)
             THEN UNCHANGED <<sender_pc, next, attempt, completed_sequences,
                              sender_error>>
           ELSE /\ SenderFail("ACK sequence mismatch")
                /\ UNCHANGED completed_sequences
        /\ UNCHANGED <<order, duplicated>>
  BY DEF ReadAck, RecvFrom
<1>3. /\ net' \in [Datagram -> Nat]
      /\ \A d \in Datagram : net'[d] = IF d = e THEN net[d] - 1 ELSE net[d]
  BY <1>2, CopyLess DEF QuickInv
<1>4. net[e] > 0 /\ net[e] \in Nat
  BY <1>2 DEF OnTheWay, QuickInv, QuickTypeOK
<1>5. \A d \in Datagram : net'[d] > 0 => net[d] > 0
  BY <1>3, <1>4
<1>6. e.type = "Ack" /\ e.seq \in processed_sequences /\ e = AckPacket(e.seq)
  BY <1>2, <1>4, PacketFields DEF QuickInv, QuickNet
<1>7. order' = order /\ LastSequence' = LastSequence /\ OwnDrops' = OwnDrops
  BY <1>2 DEF LastSequence, OwnDrops
<1>8. next' = next => Sequence' = Sequence /\ SentSoFar' = SentSoFar
  BY <1>2 DEF Sequence, SentSoFar
<1>9. ~SenderEnded /\ Sequence \notin completed_sequences
  BY <1>2 DEF SenderEnded, QuickInv, QuickPlace
(* The invariants that say nothing once the sender has ended.              *)
<1>10. ASSUME next' = next, attempt' = attempt, sender_pc' \in {"done", "failed"},
              completed_sequences' \subseteq completed_sequences \cup {Sequence}
       PROVE  QuickInv'
  <2>1. QuickTypeOK'
    BY <1>2, <1>3, <1>10 DEF QuickInv, QuickTypeOK
  <2>2. QuickStart' /\ QuickNet'
    BY <1>5, <1>7, <1>8, <1>10 DEF QuickInv, QuickStart, QuickNet
  <2>3. SenderEnded'
    BY <1>10 DEF SenderEnded
  <2>4. QuickPlace'
    BY <1>1, <1>7, <1>8, <1>10, <2>3 DEF QuickInv, QuickPlace, QuickFacts
  <2>5. QuickReply' /\ RetriesOnlyForLoss'
    BY <1>7, <1>8, <1>10 DEF QuickInv, QuickReply, RetriesOnlyForLoss
  <2> QED
    BY <2>1, <2>2, <2>3, <2>4, <2>5 DEF QuickInv, QuickExit, QuickCount
<1>11. CASE e.seq = Sequence /\ next = Len(order)
  BY <1>2, <1>6, <1>10, <1>11 DEF Acknowledged
<1>12. CASE e.seq = Sequence /\ next # Len(order)
  <2>1. /\ next' = next + 1 /\ attempt' = 1 /\ sender_pc' = "send"
        /\ completed_sequences' = completed_sequences \cup {Sequence}
    BY <1>2, <1>6, <1>12 DEF Acknowledged
  <2>2. Len(order) = 3 /\ next \in {1, 2} /\ next' \in 1 .. Len(order)
    BY <1>12, <2>1, PlaceFacts
  <2>3. SentSoFar' = SentSoFar \cup {Sequence'} /\ Sequence' = order[next + 1]
    <3>1. 1 .. next + 1 = (1 .. next) \cup {next + 1}
      BY <2>2
    <3>2. Sequence' = order[next + 1] /\ SentSoFar' = {order[i] : i \in 1 .. next + 1}
      BY <1>7, <2>1 DEF Sequence, SentSoFar
    <3> QED
      BY <3>1, <3>2 DEF SentSoFar
  <2>4. Sequence' \notin SentSoFar
    BY <2>2, <2>3, PlaceFacts
  <2>5. QuickTypeOK'
    BY <1>3, <1>7, <2>1, <2>2 DEF QuickInv, QuickTypeOK
  <2>6. QuickStart'
    BY <1>7, <2>1 DEF QuickInv, QuickStart
  <2>7. QuickNet'
    BY <1>5, <2>3 DEF QuickInv, QuickNet
  <2>8. QuickPlace'
    <3>1. Sequence \in processed_sequences
      BY <1>6, <1>12
    <3>2. processed_sequences \subseteq SentSoFar'
      BY <2>3 DEF QuickInv, QuickPlace
    <3>3. \A i \in 1 .. next : order[i] \in processed_sequences
      BY <2>2, <3>1 DEF QuickInv, QuickPlace, Sequence
    <3>4. next' - 1 = next
      BY <2>1, <2>2
    <3>5. Sequence' \notin processed_sequences /\ unique_received = next
      BY <2>4, <3>1 DEF QuickInv, QuickPlace
    <3>6. /\ completed_sequences' \subseteq SentSoFar'
          /\ Sequence' \notin completed_sequences'
      BY <1>1, <2>1, <2>3, <2>4 DEF QuickInv, QuickPlace, QuickFacts
    <3> QED
      BY <1>7, <3>2, <3>3, <3>4, <3>5, <3>6 DEF QuickPlace
  <2>9. QuickReply'
    <3>1. unique_received = next
      BY <1>6, <1>12 DEF QuickInv, QuickPlace
    <3> QED
      BY <2>2, <3>1 DEF QuickInv, QuickReply
  <2>10. QuickExit'
    <3>1. LastSequence # Sequence
      BY <2>2, OrderFacts DEF QuickInv, QuickTypeOK, LastSequence, Sequence
    <3>2. AckPacket(LastSequence) # e
      BY <1>12, <3>1, PacketFields
    <3>3. OnTheWay(AckPacket(LastSequence)) => OnTheWay(AckPacket(LastSequence))'
      BY <1>1, <1>3, <1>7, <3>2 DEF OnTheWay, QuickFacts
    <3> QED
      BY <1>7, <1>9, <3>3 DEF QuickInv, QuickExit
  <2>11. QuickCount' /\ RetriesOnlyForLoss'
    <3>1. Sends' = 0 /\ attempt' - 1 = 0
      BY <2>1 DEF Sends
    <3>2. Pending' \in Nat /\ OwnDrops' \in Nat /\ lost' \in Nat
      BY <2>5, QuickNumbersNext DEF QuickFacts, QuickTypeOK
    <3>3. 0 <= lost' + OwnDrops' + Pending' /\ 0 <= lost' + OwnDrops'
      BY <3>2, CountIsPositive, Zenon
    <3> QED
      BY <3>1, <3>3 DEF QuickCount, RetriesOnlyForLoss
  <2> QED
    BY <2>5, <2>6, <2>7, <2>8, <2>9, <2>10, <2>11 DEF QuickInv
<1>13. CASE e.seq # Sequence /\ Stale(e.seq)
  <2>1. /\ UNCHANGED <<sender_pc, next, attempt, completed_sequences>>
        /\ e.seq \in completed_sequences
    BY <1>2, <1>6, <1>13 DEF Stale
  <2>2. QuickTypeOK'
    BY <1>2, <1>3, <2>1 DEF QuickInv, QuickTypeOK
  <2>3. QuickStart' /\ QuickNet'
    BY <1>5, <1>7, <1>8, <1>9, <2>1 DEF QuickInv, QuickStart, QuickNet, SenderEnded
  <2>4. QuickPlace'
    BY <1>7, <1>8, <2>1 DEF QuickInv, QuickPlace, SenderEnded
  <2>5. QuickReply' /\ RetriesOnlyForLoss'
    BY <1>7, <1>8, <2>1 DEF QuickInv, QuickReply, RetriesOnlyForLoss
  <2>6. QuickExit'
    <3>1. e.seq # LastSequence
      <4>1. e.seq \in SentSoFar
        BY <2>1 DEF QuickInv, QuickPlace
      <4>2. e.seq = LastSequence => next = Len(order)
        BY <4>1, PlaceFacts
      <4>3. next = Len(order) => LastSequence = Sequence
        BY DEF LastSequence, Sequence
      <4> QED
        BY <1>13, <4>2, <4>3
    <3>2. AckPacket(LastSequence) # e
      BY <3>1, PacketFields
    <3>3. OnTheWay(AckPacket(LastSequence)) => OnTheWay(AckPacket(LastSequence))'
      BY <1>1, <1>3, <1>7, <3>2 DEF OnTheWay, QuickFacts
    <3> QED
      BY <1>7, <1>9, <3>3 DEF QuickInv, QuickExit
  <2>7. QuickCount'
    <3>1. DataPacket(Sequence) # e /\ AckPacket(Sequence) # e
      BY <1>2, <1>13, PacketFields
    <3>2. Pending' = Pending
      BY <1>1, <1>3, <1>8, <2>1, <3>1 DEF Pending, Replying, QuickFacts
    <3>3. Sends' = Sends
      BY <2>1 DEF Sends
    <3> QED
      BY <1>7, <2>1, <3>2, <3>3 DEF QuickInv, QuickCount, SenderEnded
  <2> QED
    BY <2>2, <2>3, <2>4, <2>5, <2>6, <2>7 DEF QuickInv
<1>14. CASE e.seq # Sequence /\ ~Stale(e.seq)
  BY <1>2, <1>6, <1>10, <1>14 DEF SenderFail
<1> QED
  BY <1>11, <1>12, <1>13, <1>14

LEMMA QuickReceiveData ==
  ASSUME QuickInv, ReceiveData, UNCHANGED senderVars, UNCHANGED <<lost, lost_acks>>
  PROVE  QuickInv'
<1> USE DEF senderVars
<1>1. QuickFacts
  BY QuickNumbers DEF QuickInv
<1>2. PICK e \in Datagram :
        /\ e.to = "receiver" /\ OnTheWay(e) /\ net' = [net EXCEPT ![e] = @ - 1]
        /\ receiver_pc = "recv"
        /\ IF e.type # "Data"
             THEN /\ receiver_pc' = "exited"
                  /\ UNCHANGED <<packet, duplicate, reported, delivered,
                                 processed_sequences, unique_received,
                                 expected_sequence>>
             ELSE /\ receiver_pc' = "reply"
                  /\ packet' = e.seq
                  /\ IF e.seq \in processed_sequences
                       THEN UNCHANGED <<reported, delivered,
                                        processed_sequences, unique_received,
                                        expected_sequence>>
                       ELSE Process(e.seq)
        /\ UNCHANGED <<receiver_mode, ack_dropped, starts>>
  BY DEF ReceiveData, RecvFrom
<1>3. /\ net' \in [Datagram -> Nat]
      /\ \A d \in Datagram : net'[d] = IF d = e THEN net[d] - 1 ELSE net[d]
  BY <1>2, CopyLess DEF QuickInv
<1>4. net[e] > 0 /\ net[e] \in Nat
  BY <1>2 DEF OnTheWay, QuickInv, QuickTypeOK
<1>5. \A d \in Datagram : net'[d] > 0 => net[d] > 0
  BY <1>3, <1>4
<1>6. e.type = "Data" /\ e.seq \in SentSoFar /\ e = DataPacket(e.seq)
  BY <1>2, <1>4, PacketFields DEF QuickInv, QuickNet
<1>7. /\ receiver_pc' = "reply" /\ packet' = e.seq
      /\ IF e.seq \in processed_sequences
           THEN UNCHANGED <<processed_sequences, unique_received>>
           ELSE /\ processed_sequences' = processed_sequences \cup {e.seq}
                /\ unique_received' = unique_received + 1
  BY <1>2, <1>6 DEF Process, Remembered
<1>8. /\ Sequence' = Sequence /\ SentSoFar' = SentSoFar
      /\ LastSequence' = LastSequence /\ OwnDrops' = OwnDrops
      /\ SenderEnded' = SenderEnded /\ Sends' = Sends
  BY <1>2 DEF Sequence, SentSoFar, LastSequence, OwnDrops, SenderEnded, Sends
<1>9. e.seq \notin processed_sequences => e.seq = Sequence
  BY <1>6, PlaceFacts
<1>10. QuickTypeOK'
  BY <1>2, <1>3, <1>7 DEF QuickInv, QuickTypeOK
<1>11. QuickStart'
  BY <1>2, <1>4, <1>7 DEF QuickInv, QuickStart
<1>12. QuickNet'
  BY <1>5, <1>7, <1>8 DEF QuickInv, QuickNet
<1>13. QuickPlace'
  <2>1. next \in Nat
    BY PlaceFacts
  <2>2. CASE e.seq \in processed_sequences
    BY <1>7, <1>8, <2>2 DEF QuickInv, QuickPlace
  <2>3. CASE e.seq \notin processed_sequences
    <3>1. /\ processed_sequences' = processed_sequences \cup {Sequence}
          /\ unique_received' = next
      BY <1>7, <1>9, <2>1, <2>3 DEF QuickInv, QuickPlace
    <3> QED
      BY <1>1, <1>7, <1>8, <3>1 DEF QuickInv, QuickPlace, QuickFacts
  <2> QED
    BY <2>2, <2>3
<1>14. QuickReply'
  <2>1. packet' \in processed_sequences'
    BY <1>7
  <2>2. receiver_mode = "out-of-order" => unique_received < 3
    BY <1>2 DEF QuickInv, QuickReply
  <2>3. receiver_mode = "out-of-order" /\ unique_received' = 3 => packet' = Sequence
    BY <1>7, <1>9, <2>2
  <2> QED
    BY <1>2, <1>7, <1>8, <2>1, <2>3 DEF QuickReply
<1>15. QuickExit' /\ RetriesOnlyForLoss'
  BY <1>7, <1>8 DEF QuickInv, QuickExit, RetriesOnlyForLoss
<1>16. QuickCount'
  <2>1. AckPacket(Sequence) # e
    BY <1>2, PacketFields
  <2>2. ~Replying
    BY <1>2 DEF Replying
  <2>3. CASE e.seq = Sequence
    <3>1. net'[DataPacket(Sequence)] = net[DataPacket(Sequence)] - 1
      BY <1>1, <1>3, <1>6, <2>3 DEF QuickFacts
    <3>2. net'[AckPacket(Sequence)] = net[AckPacket(Sequence)]
      BY <1>1, <1>3, <2>1 DEF QuickFacts
    <3>3. Replying'
      BY <1>7, <1>8, <2>3 DEF Replying
    <3>4. Pending' = Pending
      BY <1>1, <1>8, <2>2, <3>1, <3>2, <3>3 DEF Pending, QuickFacts
    <3> QED
      BY <1>2, <1>8, <3>4 DEF QuickInv, QuickCount
  <2>4. CASE e.seq # Sequence
    <3>1. DataPacket(Sequence) # e
      BY <2>4, PacketFields
    <3>2. ~Replying'
      BY <1>7, <1>8, <2>4 DEF Replying
    <3>3. Pending' = Pending
      BY <1>1, <1>3, <1>8, <2>1, <2>2, <3>1, <3>2 DEF Pending, QuickFacts
    <3> QED
      BY <1>2, <1>8, <3>3 DEF QuickInv, QuickCount
  <2> QED
    BY <2>3, <2>4
<1> QED
  BY <1>10, <1>11, <1>12, <1>13, <1>14, <1>15, <1>16 DEF QuickInv

(* The last sequence is being answered when the test is over.              *)
LEMMA OverAtTheLast ==
  ASSUME QuickInv, receiver_pc = "reply", TestOver
  PROVE  packet = LastSequence
<1>1. <<order, receiver_mode>> \in Tests /\ packet \in SentSoFar
  BY DEF QuickInv, QuickStart, QuickReply, QuickPlace
<1>2. CASE order = <<1>>
  <2>1. next = 1 /\ LastSequence = 1
    BY <1>2, PlaceFacts DEF LastSequence
  <2>2. SentSoFar = {1}
    BY <1>2, <2>1 DEF SentSoFar
  <2> QED
    BY <1>1, <2>1, <2>2
<1>3. CASE order = <<1, 3, 2>> /\ receiver_mode = "out-of-order"
  <2>1. unique_received >= 3
    BY <1>3 DEF TestOver
  <2>2. next \in 1 .. 3 /\ (unique_received = next \/ unique_received = next - 1)
    BY <1>3, PlaceFacts DEF QuickInv, QuickPlace
  <2>3. next = 3 /\ unique_received = 3
    BY <2>1, <2>2
  <2>4. packet = Sequence
    BY <1>3, <2>3 DEF QuickInv, QuickReply
  <2> QED
    BY <1>3, <2>3, <2>4 DEF Sequence, LastSequence
<1> QED
  BY <1>1, <1>2, <1>3 DEF Tests

LEMMA QuickReplyAck ==
  ASSUME QuickInv, ReplyAck, UNCHANGED senderVars, UNCHANGED <<lost, lost_acks>>
  PROVE  QuickInv'
<1> USE DEF senderVars
<1>1. QuickFacts
  BY QuickNumbers DEF QuickInv
<1>2. /\ Sequence' = Sequence /\ SentSoFar' = SentSoFar
      /\ LastSequence' = LastSequence
      /\ SenderEnded' = SenderEnded /\ Sends' = Sends
      /\ receiver_pc = "reply"
      /\ UNCHANGED <<receiver_mode, processed_sequences, unique_received, packet, starts>>
  BY DEF ReplyAck, Sequence, SentSoFar, LastSequence, SenderEnded, Sends
<1>3. QuickPlace'
  BY <1>2 DEF QuickInv, QuickPlace
<1>4. starts # 0 /\ packet \in processed_sequences
  BY <1>2 DEF QuickInv, QuickStart, QuickReply
<1>5. CASE receiver_mode = "drop-first-ack" /\ ~ack_dropped
  <2>1. ack_dropped' = TRUE /\ receiver_pc' = "recv" /\ net' = net
    BY <1>5 DEF ReplyAck
  <2>2. OwnDrops = 0 /\ OwnDrops' = 1
    BY <1>5, <2>1 DEF OwnDrops
  <2>3. QuickTypeOK'
    BY <1>2, <2>1 DEF QuickInv, QuickTypeOK
  <2>4. QuickStart' /\ QuickNet'
    BY <1>2, <1>4, <2>1 DEF QuickInv, QuickStart, QuickNet
  <2>5. QuickReply' /\ QuickExit'
    BY <1>2, <1>5, <2>1 DEF QuickReply, QuickExit
  <2>6. attempt \in Nat /\ lost \in Nat
    BY DEF QuickInv, QuickTypeOK
  <2>7. RetriesOnlyForLoss'
    BY <1>2, <2>2, <2>6 DEF QuickInv, RetriesOnlyForLoss
  <2>8. Pending' + 1 >= Pending
    BY <1>1, <1>2, <2>1 DEF Pending, Replying, QuickFacts
  <2>9. QuickCount'
    <3>1. SUFFICES ASSUME ~SenderEnded
          PROVE  Sends' <= lost' + OwnDrops' + Pending'
      BY <1>2 DEF QuickCount
    <3>2. Sends <= lost + OwnDrops + Pending
      BY <1>2, <3>1 DEF QuickInv, QuickCount
    <3>3. OwnDrops' = OwnDrops + 1 /\ lost' = lost /\ lost' \in Nat
      BY <2>2, <2>6
    <3> QED
      BY <1>1, <1>2, <2>3, <2>6, <2>8, <3>2, <3>3, QuickNumbersNext, CountStays, Zenon
  <2> QED
    BY <1>3, <2>3, <2>4, <2>5, <2>7, <2>9 DEF QuickInv
<1>6. CASE ~(receiver_mode = "drop-first-ack" /\ ~ack_dropped)
  <2>1. /\ SendTo(AckPacket(packet)) /\ ack_dropped' = ack_dropped
        /\ receiver_pc' = IF TestOver THEN "exited" ELSE "recv"
    BY <1>6 DEF ReplyAck, Ack
  <2>2. AckPacket(packet) \in Datagram
    <3>1. packet \in SentSoFar
      BY <1>4 DEF QuickInv, QuickPlace
    <3>2. PICK i \in 1 .. next : packet = order[i]
      BY <3>1 DEF SentSoFar
    <3>3. i \in 1 .. Len(order)
      BY PlaceFacts
    <3>4. packet \in DataSequences
      BY <3>2, <3>3, OrderFacts DEF QuickInv, QuickTypeOK
    <3> QED
      BY <3>4 DEF AckPacket, Datagram
  <2>3. /\ net' \in [Datagram -> Nat]
        /\ \A d \in Datagram :
             net'[d] = IF d = AckPacket(packet) THEN net[d] + 1 ELSE net[d]
    BY <2>1, <2>2, CopyMore DEF QuickInv
  <2>4. QuickTypeOK'
    BY <1>2, <2>1, <2>3 DEF QuickInv, QuickTypeOK
  <2>5. QuickStart'
    BY <1>2, <1>4, <2>1 DEF QuickInv, QuickStart
  <2>6. QuickNet'
    <3> SUFFICES ASSUME NEW d \in Datagram, net'[d] > 0
        PROVE IF d.to = "receiver" THEN d.type = "Data" /\ d.seq \in SentSoFar
                                   ELSE d.type = "Ack" /\ d.seq \in processed_sequences
      BY <1>2 DEF QuickNet
    <3>1. CASE d = AckPacket(packet)
      BY <1>4, <3>1 DEF AckPacket
    <3>2. CASE d # AckPacket(packet)
      BY <2>3, <3>2 DEF QuickInv, QuickNet
    <3> QED
      BY <3>1, <3>2
  <2>7. QuickReply'
    <3>1. receiver_mode = "out-of-order" /\ ~TestOver => ~(unique_received >= 3)
      BY DEF TestOver
    <3>2. unique_received \in Int
      BY PlaceFacts DEF QuickInv, QuickPlace
    <3> QED
      BY <1>2, <2>1, <3>1, <3>2 DEF QuickReply
  <2>8. OwnDrops' = OwnDrops
    BY <2>1 DEF OwnDrops
  <2>9. RetriesOnlyForLoss'
    BY <1>2, <2>8 DEF QuickInv, RetriesOnlyForLoss
  <2>10. QuickExit'
    <3>1. ASSUME TestOver PROVE OnTheWay(AckPacket(LastSequence))'
      <4>1. packet = LastSequence
        BY <1>2, <3>1, OverAtTheLast
      <4>2. net'[AckPacket(LastSequence)] = net[AckPacket(LastSequence)] + 1
        BY <1>1, <2>3, <4>1 DEF QuickFacts
      <4>3. net[AckPacket(LastSequence)] \in Nat
        BY <1>1 DEF QuickFacts, QuickInv, QuickTypeOK
      <4> QED
        BY <1>2, <4>2, <4>3 DEF OnTheWay
    <3> QED
      BY <2>1, <3>1 DEF QuickExit
  <2>11. QuickCount'
    <3>1. DataPacket(Sequence) # AckPacket(packet)
      BY DEF DataPacket, AckPacket
    <3>2. net'[DataPacket(Sequence)] = net[DataPacket(Sequence)]
      BY <1>1, <2>3, <3>1 DEF QuickFacts
    <3>3. Pending' = Pending
      <4>1. CASE packet = Sequence
        <5>1. net'[AckPacket(Sequence)] = net[AckPacket(Sequence)] + 1
          BY <1>1, <2>3, <4>1 DEF QuickFacts
        <5> QED
          BY <1>1, <1>2, <2>1, <3>2, <4>1, <5>1 DEF Pending, Replying, QuickFacts
      <4>2. CASE packet # Sequence
        <5>1. AckPacket(packet) # AckPacket(Sequence)
          BY <4>2 DEF AckPacket
        <5>2. net'[AckPacket(Sequence)] = net[AckPacket(Sequence)]
          BY <1>1, <2>3, <5>1 DEF QuickFacts
        <5> QED
          BY <1>1, <1>2, <2>1, <3>2, <4>2, <5>2 DEF Pending, Replying, QuickFacts
      <4> QED
        BY <4>1, <4>2
    <3> QED
      BY <1>2, <2>8, <3>3 DEF QuickInv, QuickCount
  <2> QED
    BY <1>3, <2>4, <2>5, <2>6, <2>7, <2>9, <2>10, <2>11 DEF QuickInv
<1> QED
  BY <1>5, <1>6

LEMMA QuickStutter ==
  ASSUME QuickInv, UNCHANGED quickVars
  PROVE  QuickInv'
<1> USE DEF quickVars, vars, netVars, senderVars, receiverVars
<1>1. /\ Sequence' = Sequence /\ SentSoFar' = SentSoFar
      /\ LastSequence' = LastSequence /\ OwnDrops' = OwnDrops
      /\ SenderEnded' = SenderEnded /\ Sends' = Sends
  BY DEF Sequence, SentSoFar, LastSequence, SenderEnded, Sends, OwnDrops
<1>2. QuickTypeOK' /\ QuickStart'
  BY DEF QuickInv, QuickTypeOK, QuickStart
<1>3. QuickNet' /\ QuickPlace' /\ QuickReply'
  BY <1>1 DEF QuickInv, QuickNet, QuickPlace, QuickReply
<1>4. QuickExit' /\ RetriesOnlyForLoss'
  BY <1>1 DEF QuickInv, QuickExit, RetriesOnlyForLoss, OnTheWay
<1>5. QuickCount'
  BY <1>1 DEF QuickInv, QuickCount, Pending, Replying
<1> QED
  BY <1>2, <1>3, <1>4, <1>5 DEF QuickInv

LEMMA QuickInvariant == QuickSpec => []QuickInv
<1>1. QuickInv /\ [QuickNext]_quickVars => QuickInv'
  <2> SUFFICES ASSUME QuickInv, [QuickNext]_quickVars PROVE QuickInv'
    OBVIOUS
  <2>1. CASE QuickSender /\ UNCHANGED receiverVars /\ UNCHANGED <<lost, lost_acks>>
    BY <2>1, QuickSendData, QuickReadAck, QuickTimeout DEF QuickSender
  <2>2. CASE (StartTest \/ ReceiverRun) /\ UNCHANGED senderVars
               /\ UNCHANGED <<lost, lost_acks>>
    BY <2>2, QuickStartTest, QuickReceiveData, QuickReplyAck DEF ReceiverRun
  <2> QED
    BY <2>1, <2>2, QuickLose, QuickDuplicates, QuickStutter DEF QuickNext, QuickStep
<1> QED
  BY QuickInitial, <1>1, PTL DEF QuickSpec

(* The sender sends a datagram again only after one was lost: as long as   *)
(* no ACK of the last sequence is, it never has more retries behind it     *)
(* than datagrams were lost, for every number of losses, copies and        *)
(* retries.                                                                *)
THEOREM RetriesAnswerLosses == QuickSpec => []RetriesOnlyForLoss
<1>1. QuickInv => RetriesOnlyForLoss
  BY DEF QuickInv
<1> QED
  BY <1>1, QuickInvariant, PTL

-----------------------------------------------------------------------------
(* How it ends.  What was processed is a beginning of the order, so all of *)
(* it when the receiver exits, and when the sender is done.                *)

InOrder ==
  /\ delivered \in Seq(Delivery) /\ Len(delivered) = unique_received
  /\ \A i \in 1 .. unique_received : delivered[i].seq = order[i]
  /\ starts = 0 => delivered = <<>>
  /\ receiver_pc = "exited" => unique_received = Len(order)

(* In the order 1, 3, 2 the gap is before 3.                               *)
Gaps ==
  /\ IsFiniteSet(processed_sequences)
  /\ expected_sequence \in Nat \ {0}
  /\ expected_sequence \notin processed_sequences
  /\ \A m \in 1 .. expected_sequence - 1 : m \in processed_sequences
  /\ reported = processed_sequences \cap {3}

(* A sender that gave up had as many losses as attempts, or no receiver.   *)
Ending ==
  /\ attempt <= MaxRetries + 1
  /\ \A i \in 1 .. next - 1 : order[i] \in completed_sequences
  /\ sender_pc = "done" => next = Len(order) /\ Sequence \in processed_sequences
  /\ sender_pc = "failed" =>
       /\ sender_error = "retry limit"
       /\ attempt = MaxRetries + 1
       /\ \/ attempt <= lost + OwnDrops
          \/ receiver_pc = "exited" /\ LastSequence \in lost_acks

EndInv == InOrder /\ Gaps /\ Ending

LEMMA EndInitial == QuickInit => EndInv
<1> SUFFICES ASSUME QuickInit PROVE EndInv
  OBVIOUS
<1> USE DEF QuickInit, Init, SenderInit, ReceiverInit
<1>1. InOrder
  BY DEF InOrder
<1>2. Gaps
  BY FS_EmptySet DEF Gaps
<1>3. Ending
  BY UdpSenderAssumption DEF Ending
<1> QED
  BY <1>1, <1>2, <1>3 DEF EndInv

(* The sender's step leaves the receiver alone, and the other way round.   *)
LEMMA ReceiverQuiet ==
  ASSUME InOrder, Gaps, UNCHANGED receiverVars, order' = order
  PROVE  InOrder' /\ Gaps'
BY DEF InOrder, Gaps, receiverVars

LEMMA SenderQuiet ==
  ASSUME QuickInv, QuickInv', Ending, UNCHANGED senderVars,
         processed_sequences \subseteq processed_sequences' \/ starts = 0,
         receiver_pc = "exited" => receiver_pc' = "exited",
         ack_dropped => ack_dropped', lost' \in {lost, lost + 1},
         lost_acks \subseteq lost_acks'
  PROVE  Ending'
<1>1. /\ Sequence' = Sequence /\ LastSequence' = LastSequence
      /\ UNCHANGED <<attempt, next, order, completed_sequences, sender_pc, sender_error>>
  BY DEF senderVars, Sequence, LastSequence
<1>2. /\ lost \in Nat /\ lost' \in Nat /\ attempt \in Nat
      /\ ack_dropped \in BOOLEAN /\ ack_dropped' \in BOOLEAN
  BY DEF QuickInv, QuickTypeOK
<1>3. PICK o \in {0, 1}, p \in {0, 1} : o = OwnDrops /\ p = OwnDrops' /\ o <= p
  <2>1. OwnDrops = 1 => ack_dropped
    BY DEF OwnDrops
  <2>2. ack_dropped' => OwnDrops' = 1
    BY DEF OwnDrops
  <2>3. OwnDrops \in {0, 1} /\ OwnDrops' \in {0, 1}
    BY DEF OwnDrops
  <2> QED
    BY <2>1, <2>2, <2>3
<1>4. attempt <= lost + OwnDrops => attempt <= lost' + OwnDrops'
  <2>1. PICK a \in Nat, l \in Nat, k \in Nat :
               a = attempt /\ l = lost /\ k = lost' /\ k \in {l, l + 1}
    BY <1>2
  <2>2. o <= p /\ k \in {l, l + 1}
    BY <1>3, <2>1
  <2>3. a <= l + o => a <= k + p
    BY <2>2
  <2>4. attempt = a /\ lost = l /\ lost' = k /\ OwnDrops = o /\ OwnDrops' = p
    BY <1>3, <2>1
  <2> QED
    BY <2>3, <2>4
<1>5. sender_pc = "done" => starts # 0
  BY DEF QuickInv, QuickStart
<1>6. sender_pc = "done" => Sequence \in processed_sequences'
  BY <1>5 DEF Ending
<1> QED
  BY <1>1, <1>4, <1>6 DEF Ending

LEMMA EndSendData ==
  ASSUME EndInv, SendData, UNCHANGED receiverVars, UNCHANGED <<lost, lost_acks>>
  PROVE  EndInv'
<1>1. InOrder' /\ Gaps'
  BY ReceiverQuiet DEF EndInv, SendData
<1>2. Ending'
  BY DEF EndInv, Ending, SendData
<1> QED
  BY <1>1, <1>2 DEF EndInv

LEMMA NothingPending ==
  ASSUME QuickInv, starts > 0, NoAnswerComes, receiver_pc # "exited"
  PROVE  Pending = 0
<1>1. QuickFacts
  BY QuickNumbers DEF QuickInv
<1>2. receiver_pc = "recv" /\ ~OnTheWay(DataPacket(Sequence))
  BY <1>1 DEF QuickInv, QuickTypeOK, QuickStart, NoAnswerComes, ReceiverBusy,
     QuickFacts, DataPacket
<1>3. ~OnTheWay(AckPacket(Sequence))
  BY <1>1 DEF NoAnswerComes, QuickFacts
<1>4. net[DataPacket(Sequence)] = 0 /\ net[AckPacket(Sequence)] = 0
  BY <1>1, <1>2, <1>3 DEF OnTheWay, QuickFacts
<1> QED
  BY <1>2, <1>4 DEF Pending, Replying

LEMMA EndTimeout ==
  ASSUME QuickInv, EndInv, starts > 0, AckTimeout, NoAnswerComes,
         UNCHANGED receiverVars, UNCHANGED <<lost, lost_acks>>
  PROVE  EndInv'
<1>1. InOrder' /\ Gaps'
  BY ReceiverQuiet DEF EndInv, AckTimeout
<1>2. /\ LastSequence' = LastSequence /\ OwnDrops' = OwnDrops
      /\ UNCHANGED <<next, order, completed_sequences, receiver_pc, lost, lost_acks>>
  BY DEF AckTimeout, NoAck, SenderFail, LastSequence, OwnDrops, receiverVars
<1>3. MaxRetries \in Nat /\ attempt \in Nat
  BY UdpSenderAssumption DEF QuickInv, QuickTypeOK
<1>4. CASE RetriesLeft
  <2>1. sender_pc' = "send" /\ attempt' = attempt + 1
    BY <1>4 DEF AckTimeout, NoAck
  <2>2. attempt' <= MaxRetries + 1
    BY <1>3, <1>4, <2>1 DEF RetriesLeft
  <2> QED
    BY <1>1, <1>2, <2>1, <2>2 DEF EndInv, Ending
<1>5. CASE ~RetriesLeft
  <2>1. sender_pc' = "failed" /\ sender_error' = "retry limit" /\ attempt' = attempt
    BY <1>5 DEF AckTimeout, NoAck, SenderFail
  <2>2. attempt = MaxRetries + 1
    <3>1. attempt <= MaxRetries + 1
      BY DEF EndInv, Ending
    <3>2. ~(attempt <= MaxRetries)
      BY <1>5 DEF RetriesLeft
    <3> QED
      BY <1>3, <3>1, <3>2
  <2>3. CASE receiver_pc = "exited"
    <3>1. ~OnTheWay(AckPacket(LastSequence))
      BY QuickNumbers DEF NoAnswerComes, QuickFacts, QuickInv
    <3>2. LastSequence \in lost_acks
      BY <2>3, <3>1 DEF QuickInv, QuickExit, SenderEnded, AckTimeout
    <3> QED
      BY <1>1, <1>2, <2>1, <2>2, <2>3, <3>2 DEF EndInv, Ending
  <2>4. CASE receiver_pc # "exited"
    <3>1. Pending = 0
      BY <2>4, NothingPending
    <3>2. Sends = attempt
      BY DEF Sends, AckTimeout
    <3>3. Sends <= lost + OwnDrops + Pending
      BY <2>4 DEF QuickInv, QuickCount, SenderEnded, AckTimeout
    <3>4. lost + OwnDrops \in Int
      BY DEF OwnDrops, QuickInv, QuickTypeOK
    <3>5. attempt <= lost + OwnDrops
      BY <3>1, <3>2, <3>3, <3>4
    <3> QED
      BY <1>1, <1>2, <2>1, <2>2, <3>5 DEF EndInv, Ending
  <2> QED
    BY <2>3, <2>4
<1> QED
  BY <1>4, <1>5

LEMMA EndReadAck ==
  ASSUME QuickInv, QuickInv', EndInv, ReadAck, UNCHANGED receiverVars,
         UNCHANGED <<lost, lost_acks>>
  PROVE  EndInv'
<1>1. InOrder' /\ Gaps'
  BY ReceiverQuiet DEF EndInv, ReadAck
<1>2. PICK e \in Datagram :
        /\ e.to = "sender" /\ OnTheWay(e)
        /\ sender_pc = "wait"
        /\ IF e.type # "Ack"
             THEN /\ SenderFail("expected empty ACK")
                  /\ UNCHANGED completed_sequences
           ELSE IF e.seq = Sequence
             THEN /\ completed_sequences' = completed_sequences \cup {e.seq}
                  /\ Acknowledged
           ELSE IF Stale(e.seq)
             THEN UNCHANGED <<sender_pc, next, attempt, completed_sequences,
                              sender_error>>
           ELSE /\ SenderFail("ACK sequence mismatch")
                /\ UNCHANGED completed_sequences
        /\ order' = order
  BY DEF ReadAck, RecvFrom
<1>3. e.type = "Ack" /\ e.seq \in processed_sequences /\ e.seq \in SentSoFar
  <2>1. net[e] > 0
    BY <1>2 DEF OnTheWay, QuickInv, QuickTypeOK
  <2> QED
    BY <1>2, <2>1 DEF QuickInv, QuickNet, QuickPlace
<1>4. /\ next \in 1 .. Len(order) /\ Len(order) \in {1, 3}
      /\ attempt \in Nat /\ MaxRetries \in Nat
  BY PlaceFacts, UdpSenderAssumption DEF QuickInv, QuickTypeOK
<1>5. processed_sequences' = processed_sequences
  BY DEF receiverVars
<1>6. CASE e.seq = Sequence
  <2>1. completed_sequences' = completed_sequences \cup {Sequence} /\ Acknowledged
    BY <1>2, <1>3, <1>6
  <2>2. CASE next = Len(order)
    <3>1. sender_pc' = "done" /\ UNCHANGED <<next, attempt>>
      BY <2>1, <2>2 DEF Acknowledged
    <3>2. Sequence' = Sequence
      BY <1>2, <3>1 DEF Sequence
    <3> QED
      BY <1>1, <1>2, <1>3, <1>5, <1>6, <2>1, <2>2, <3>1, <3>2 DEF EndInv, Ending
  <2>3. CASE next # Len(order)
    <3>1. sender_pc' = "send" /\ next' = next + 1 /\ attempt' = 1
      BY <2>1, <2>3 DEF Acknowledged
    <3>2. ASSUME NEW i \in 1 .. next' - 1 PROVE order[i] \in completed_sequences'
      <4>1. CASE i = next
        BY <2>1, <4>1 DEF Sequence
      <4>2. CASE i # next
        <5>1. i \in 1 .. next - 1
          BY <1>4, <3>1, <4>2
        <5> QED
          BY <2>1, <5>1 DEF EndInv, Ending
      <4> QED
        BY <4>1, <4>2
    <3>3. attempt' <= MaxRetries + 1
      BY <1>4, <3>1
    <3> QED
      BY <1>1, <1>2, <3>1, <3>2, <3>3 DEF EndInv, Ending
  <2> QED
    BY <2>2, <2>3
<1>7. CASE e.seq # Sequence
  <2>1. PICK j \in 1 .. next : e.seq = order[j]
    BY <1>3 DEF SentSoFar
  <2>2. j \in 1 .. next - 1
    BY <1>4, <1>7, <2>1 DEF Sequence
  <2>3. Stale(e.seq)
    BY <2>1, <2>2 DEF Stale, EndInv, Ending
  <2>4. UNCHANGED <<sender_pc, next, attempt, completed_sequences, sender_error>>
    BY <1>2, <1>3, <1>7, <2>3
  <2> QED
    BY <1>1, <1>2, <2>4 DEF EndInv, Ending
<1> QED
  BY <1>6, <1>7

LEMMA EndStartTest ==
  ASSUME QuickInv, QuickInv', EndInv, StartTest, UNCHANGED senderVars,
         UNCHANGED <<lost, lost_acks>>
  PROVE  EndInv'
<1>1. /\ starts = 0 /\ receiver_pc' = "recv" /\ starts' = 1
      /\ processed_sequences' = {} /\ expected_sequence' = 1
      /\ unique_received' = 0 /\ ack_dropped' = FALSE /\ reported' = {}
      /\ delivered' = delivered
  BY DEF StartTest, ReceiverStart
<1>2. delivered = <<>>
  BY <1>1 DEF EndInv, InOrder
<1>3. InOrder'
  BY <1>1, <1>2 DEF InOrder
<1>4. Gaps'
  BY <1>1, FS_EmptySet DEF Gaps
<1>5. sender_pc = "send" /\ sender_pc' = "send"
  BY <1>1 DEF QuickInv, QuickStart, senderVars
<1>6. Ending'
  BY <1>5 DEF EndInv, Ending, senderVars
<1> QED
  BY <1>3, <1>4, <1>6 DEF EndInv

LEMMA EndReceiveData ==
  ASSUME QuickInv, QuickInv', EndInv, ReceiveData, UNCHANGED senderVars,
         UNCHANGED <<lost, lost_acks>>
  PROVE  EndInv'
<1>1. PICK e \in Datagram :
        /\ e.to = "receiver" /\ OnTheWay(e) /\ receiver_pc = "recv"
        /\ IF e.type # "Data"
             THEN /\ receiver_pc' = "exited"
                  /\ UNCHANGED <<packet, duplicate, reported, delivered,
                                 processed_sequences, unique_received,
                                 expected_sequence>>
             ELSE /\ receiver_pc' = "reply"
                  /\ IF e.seq \in processed_sequences
                       THEN UNCHANGED <<reported, delivered,
                                        processed_sequences, unique_received,
                                        expected_sequence>>
                       ELSE Process(e.seq)
        /\ UNCHANGED <<receiver_mode, ack_dropped, starts>>
  BY DEF ReceiveData, RecvFrom
<1>2. e.type = "Data" /\ e.seq \in SentSoFar
  <2>1. net[e] > 0
    BY <1>1 DEF OnTheWay, QuickInv, QuickTypeOK
  <2> QED
    BY <1>1, <2>1 DEF QuickInv, QuickNet
<1>3. /\ receiver_pc' = "reply" /\ order' = order /\ starts # 0
      /\ next \in 1 .. Len(order) /\ Len(order) \in {1, 3}
  BY <1>1, <1>2, PlaceFacts DEF senderVars, QuickInv, QuickStart
<1>4. CASE e.seq \in processed_sequences
  <2>1. UNCHANGED <<reported, delivered, processed_sequences, unique_received,
                    expected_sequence>>
    BY <1>1, <1>2, <1>4
  <2>2. InOrder' /\ Gaps'
    BY <1>1, <1>3, <2>1 DEF EndInv, InOrder, Gaps
  <2>3. Ending'
    BY <1>1, <2>1, SenderQuiet DEF EndInv
  <2> QED
    BY <2>2, <2>3 DEF EndInv
<1>5. CASE e.seq \notin processed_sequences
  <2>1. Process(Sequence) /\ Sequence \notin processed_sequences
    BY <1>1, <1>2, <1>5, PlaceFacts
  <2>2. unique_received = next - 1
    BY <2>1 DEF QuickInv, QuickPlace
  <2>3. /\ delivered' = Append(delivered, [process |-> starts, seq |-> Sequence])
        /\ processed_sequences' = processed_sequences \cup {Sequence}
        /\ unique_received' = unique_received + 1
        /\ expected_sequence' = NextExpected(Sequence)
        /\ reported' = IF Sequence > expected_sequence
                         THEN reported \cup {Sequence} ELSE reported
    BY <2>1 DEF Process, Remembered
  <2>4. Sequence \in DataSequences
    BY QuickNumbers DEF QuickInv, QuickFacts
  <2>5. InOrder'
    <3>1. [process |-> starts, seq |-> Sequence] \in Delivery
      BY <2>4 DEF Delivery, QuickInv, QuickTypeOK
    <3>2. /\ delivered \in Seq(Delivery) /\ Len(delivered) = next - 1
          /\ \A i \in 1 .. next - 1 : delivered[i].seq = order[i]
      BY <2>2 DEF EndInv, InOrder
    <3>3. /\ delivered' \in Seq(Delivery) /\ Len(delivered') = next
          /\ delivered'[next] = [process |-> starts, seq |-> Sequence]
          /\ \A i \in 1 .. next - 1 : delivered'[i] = delivered[i]
      BY <1>3, <2>3, <3>1, <3>2
    <3>4. ASSUME NEW i \in 1 .. next PROVE delivered'[i].seq = order[i]
      <4>1. CASE i = next
        BY <3>3, <4>1 DEF Sequence
      <4>2. CASE i # next
        <5>1. i \in 1 .. next - 1
          BY <1>3, <4>2
        <5> QED
          BY <3>2, <3>3, <5>1
      <4> QED
        BY <4>1, <4>2
    <3>5. unique_received' = next
      BY <1>3, <2>2, <2>3
    <3> QED
      BY <1>1, <1>3, <3>3, <3>4, <3>5 DEF InOrder
  <2>6. Gaps'
    <3>1. /\ processed_sequences \subseteq DataSequences
          /\ IsFiniteSet(processed_sequences) /\ expected_sequence \in Nat \ {0}
      <4>1. processed_sequences \subseteq SentSoFar
        BY DEF QuickInv, QuickPlace
      <4>2. SentSoFar \subseteq DataSequences
        BY <1>3, OrderFacts DEF SentSoFar, QuickInv, QuickTypeOK
      <4> QED
        BY <4>1, <4>2 DEF EndInv, Gaps
    <3> DEFINE k == NextExpected(Sequence)
    <3>2. /\ k \in Nat /\ expected_sequence <= k
          /\ k \notin processed_sequences'
          /\ \A m \in expected_sequence .. k - 1 : m \in processed_sequences'
      BY <2>3, <2>4, <3>1, NextExpectedIsFirst
    <3> HIDE DEF k
    <3>3. \A m \in 1 .. k - 1 : m \in processed_sequences'
      BY <2>3, <3>1, <3>2 DEF EndInv, Gaps
    <3>4. IsFiniteSet(processed_sequences')
      BY <2>3, <3>1, FS_AddElement
    <3>5. Sequence > expected_sequence <=> Sequence = 3
      <4>1. order \in Orders
        BY DEF QuickInv, QuickTypeOK
      <4>2. \A i \in 1 .. next - 1 : order[i] \in processed_sequences
        BY DEF QuickInv, QuickPlace
      <4>3. \A m \in 1 .. expected_sequence - 1 : m \in processed_sequences
        BY DEF EndInv, Gaps
      <4>4. processed_sequences \subseteq SentSoFar \ {Sequence}
        BY <2>1 DEF QuickInv, QuickPlace
      <4>5. CASE Sequence = 1
        BY <3>1, <4>5
      <4>6. CASE Sequence # 1
        <5>1. order = <<1, 3, 2>> /\ next \in {2, 3}
          BY <1>3, <4>1, <4>6 DEF Orders, Sequence
        <5>2. 1 \in processed_sequences
          BY <4>2, <5>1
        <5>3. 2 \notin processed_sequences
          BY <4>4, <5>1 DEF SentSoFar, Sequence
        <5>4. expected_sequence # 1
          BY <5>2 DEF EndInv, Gaps
        <5>5. expected_sequence = 2
          BY <3>1, <4>3, <5>3, <5>4
        <5>6. Sequence \in {2, 3}
          BY <5>1 DEF Sequence
        <5> QED
          BY <5>5, <5>6
      <4> QED
        BY <4>5, <4>6
    <3>6. reported' = processed_sequences' \cap {3}
      BY <2>3, <3>5 DEF EndInv, Gaps
    <3> QED
      BY <2>3, <3>1, <3>2, <3>3, <3>4, <3>6 DEF Gaps, k
  <2>7. Ending'
    BY <1>1, <2>3, SenderQuiet DEF EndInv
  <2> QED
    BY <2>5, <2>6, <2>7 DEF EndInv
<1> QED
  BY <1>4, <1>5

LEMMA EndReplyAck ==
  ASSUME QuickInv, QuickInv', EndInv, ReplyAck, UNCHANGED senderVars,
         UNCHANGED <<lost, lost_acks>>
  PROVE  EndInv'
<1>1. /\ receiver_pc = "reply" /\ order' = order
      /\ UNCHANGED <<processed_sequences, expected_sequence, unique_received, starts,
                     delivered, reported>>
  BY DEF ReplyAck, senderVars
<1>2. receiver_pc' = "exited" => TestOver
  BY DEF ReplyAck
<1>3. ASSUME TestOver PROVE unique_received = Len(order)
  <2>1. packet = LastSequence /\ packet \in processed_sequences
    BY <1>1, <1>3, OverAtTheLast DEF QuickInv, QuickReply
  <2>2. LastSequence = order[Len(order)] /\ LastSequence \in SentSoFar
    BY <2>1, PlaceFacts DEF QuickInv, QuickPlace
  <2>3. next = Len(order)
    BY <2>2, PlaceFacts
  <2> QED
    BY <2>1, <2>2, <2>3 DEF QuickInv, QuickPlace, Sequence
<1>4. InOrder' /\ Gaps'
  BY <1>1, <1>2, <1>3 DEF EndInv, InOrder, Gaps
<1>5. ack_dropped => ack_dropped'
  BY DEF ReplyAck
<1>6. Ending'
  BY <1>1, <1>5, SenderQuiet DEF EndInv
<1> QED
  BY <1>4, <1>6 DEF EndInv

LEMMA EndNetwork ==
  ASSUME QuickInv, QuickInv', EndInv, UNCHANGED <<senderVars, receiverVars>>,
         lost' \in {lost, lost + 1}, lost_acks \subseteq lost_acks'
  PROVE  EndInv'
<1>1. InOrder' /\ Gaps'
  BY ReceiverQuiet DEF EndInv, senderVars
<1>2. Ending'
  BY SenderQuiet DEF EndInv, receiverVars
<1> QED
  BY <1>1, <1>2 DEF EndInv

LEMMA EndImplies ==
  ASSUME QuickInv, EndInv
  PROVE  EndedAsDocumented
<1> SUFFICES ASSUME SenderEnded, lost + OwnDrops <= MaxRetries
             PROVE  /\ AllProcessed
                    /\ reported = IF receiver_mode = "out-of-order" THEN {3} ELSE {}
                    /\ sender_pc = "failed" =>
                         AnswerLost /\ LastSequence \in lost_acks
  BY DEF EndedAsDocumented
<1>1. /\ MaxRetries \in Nat /\ lost + OwnDrops \in Int /\ starts # 0
      /\ order \in Orders
  BY UdpSenderAssumption
  DEF OwnDrops, QuickInv, QuickTypeOK, QuickStart, SenderEnded
<1>2. sender_pc = "failed" => AnswerLost /\ LastSequence \in lost_acks
  <2> SUFFICES ASSUME sender_pc = "failed"
               PROVE  AnswerLost /\ LastSequence \in lost_acks
    OBVIOUS
  <2>1. sender_error = "retry limit" /\ attempt = MaxRetries + 1
    BY DEF EndInv, Ending
  <2>2. ~(attempt <= lost + OwnDrops)
    <3> DEFINE losses == lost + OwnDrops
    <3>1. losses \in Int /\ losses <= MaxRetries
      BY <1>1
    <3> HIDE DEF losses
    <3>2. MaxRetries \in Int
      BY UdpSenderAssumption
    <3>3. attempt = MaxRetries + 1
      BY <2>1
    <3>4. ~(attempt <= losses)
      BY <3>1, <3>2, <3>3
    <3> QED
      BY <3>4 DEF losses
  <2>3. receiver_pc = "exited" /\ LastSequence \in lost_acks
    BY <2>2 DEF EndInv, Ending
  <2> QED
    BY <2>1, <2>3 DEF AnswerLost
<1>3. unique_received = Len(order)
  <2>1. CASE sender_pc = "done"
    BY <2>1 DEF EndInv, Ending, QuickInv, QuickPlace
  <2>2. CASE sender_pc = "failed"
    BY <1>2, <2>2 DEF AnswerLost, EndInv, InOrder
  <2> QED
    BY <2>1, <2>2 DEF SenderEnded
<1>4. AllProcessed
  <2>1. /\ DOMAIN delivered = 1 .. Len(order)
        /\ \A i \in 1 .. Len(order) : delivered[i].seq = order[i]
    BY <1>3 DEF EndInv, InOrder
  <2>2. order = [i \in 1 .. Len(order) |-> order[i]]
    BY <1>1 DEF Orders
  <2> HIDE DEF Orders
  <2> QED
    BY <2>1, <2>2 DEF AllProcessed
<1>5. reported = IF receiver_mode = "out-of-order" THEN {3} ELSE {}
  <2>1. reported = processed_sequences \cap {3}
    BY DEF EndInv, Gaps
  <2>2. <<order, receiver_mode>> \in Tests
    BY <1>1 DEF QuickInv, QuickStart
  <2>3. CASE order = <<1>>
    <3>1. receiver_mode # "out-of-order"
      BY <2>2, <2>3 DEF Tests
    <3>2. SentSoFar = {1}
      BY <2>3, PlaceFacts DEF SentSoFar
    <3> QED
      BY <2>1, <3>1, <3>2 DEF QuickInv, QuickPlace
  <2>4. CASE order = <<1, 3, 2>>
    <3>1. receiver_mode = "out-of-order"
      BY <2>2, <2>4 DEF Tests
    <3>2. unique_received = 3 /\ next \in 1 .. 3
      BY <1>3, <2>4, PlaceFacts
    <3>3. next = 3
      BY <3>2 DEF QuickInv, QuickPlace
    <3>4. order[2] \in processed_sequences
      BY <3>3 DEF QuickInv, QuickPlace
    <3> QED
      BY <2>1, <2>4, <3>1, <3>4
  <2> QED
    BY <1>1, <2>3, <2>4 DEF Orders
<1> QED
  BY <1>2, <1>4, <1>5

(* In each test of the documents, for every number of retries, losses and  *)
(* copies: unless more is lost than there are retries, a sender that has   *)
(* ended leaves everything processed, once and in the order it was sent,   *)
(* the gap is reported, and it failed only if no ACK of the last sequence  *)
(* came through.                                                           *)
THEOREM LossesCostRetries == QuickSpec => []EndedAsDocumented
<1>1. QuickInv /\ EndInv /\ [QuickNext]_quickVars /\ QuickInv' => EndInv'
  <2> SUFFICES ASSUME QuickInv, EndInv, [QuickNext]_quickVars, QuickInv'
               PROVE  EndInv'
    OBVIOUS
  <2>1. CASE QuickSender /\ UNCHANGED receiverVars /\ UNCHANGED <<lost, lost_acks>>
    BY <2>1, EndSendData, EndReadAck, EndTimeout DEF QuickSender
  <2>2. CASE (StartTest \/ ReceiverRun) /\ UNCHANGED senderVars
               /\ UNCHANGED <<lost, lost_acks>>
    BY <2>2, EndStartTest, EndReceiveData, EndReplyAck DEF ReceiverRun
  <2>3. CASE Lose
    <3>1. lost' = lost + 1 /\ UNCHANGED <<senderVars, receiverVars>>
      BY <2>3 DEF Lose
    <3>2. lost_acks \subseteq lost_acks'
      BY <2>3 DEF Lose
    <3> QED
      BY <3>1, <3>2, EndNetwork
  <2>4. CASE NetStep /\ UNCHANGED <<lost, lost_acks>>
    BY <2>4, EndNetwork DEF NetStep
  <2>5. CASE UNCHANGED quickVars
    BY <2>5, EndNetwork DEF quickVars, vars
  <2> QED
    BY <2>1, <2>2, <2>3, <2>4, <2>5 DEF QuickNext, QuickStep
<1>2. QuickInv /\ EndInv => EndedAsDocumented
  BY EndImplies
<1> QED
  BY <1>1, <1>2, EndInitial, QuickInvariant, PTL DEF QuickSpec

=============================================================================
