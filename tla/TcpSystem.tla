----------------------------- MODULE TcpSystem ------------------------------
(***************************************************************************)
(* The TCP testbed: sender, fault injector and receiver, three processes   *)
(* that share nothing but the connections between them.                    *)
(***************************************************************************)
EXTENDS TcpSender, TcpProxy, TcpReceiver

vars == <<netVars, senderVars, proxyVars, receiverVars>>

Init ==
  /\ NetInit
  /\ SenderInit
  /\ ProxyInit
  /\ ReceiverInit

SenderStep   == SenderNext   /\ UNCHANGED <<proxyVars, receiverVars>>
ProxyStep    == ProxyNext    /\ UNCHANGED <<senderVars, receiverVars>>
ReceiverStep == ReceiverNext /\ UNCHANGED <<senderVars, proxyVars>>

Next == SenderStep \/ ProxyStep \/ ReceiverStep

Spec == Init /\ [][Next]_vars

(***************************************************************************)
(* The operating system runs every process that can make a step.  Nothing  *)
(* makes an operator start or kill one.                                    *)
(***************************************************************************)
Fairness ==
  /\ WF_vars(SenderStep)
  /\ WF_vars(ProxyRun /\ UNCHANGED <<senderVars, receiverVars>>)
  /\ WF_vars(ReceiverRun /\ UNCHANGED <<senderVars, proxyVars>>)

FairSpec == Spec /\ Fairness

-----------------------------------------------------------------------------
(* Every variable keeps its type: in particular no retry counter passes    *)
(* its limit, the sender opens at most one connection per heartbeat after  *)
(* its first, and no process works on a connection it does not have.       *)
TypeOK ==
  /\ NetTypeOK
  /\ SenderTypeOK
  /\ ProxyTypeOK
  /\ ReceiverTypeOK

(* f answers a request that some receiver process has really taken in.     *)
Honest(f) ==
  /\ f.type = "Ack" =>
       \E i \in DOMAIN delivered : delivered[i].frame.seq = f.seq
  /\ f.type = "HeartbeatAck" => f.seq \in heard

(* An ACK means "processed" (receiver.cpp handles DATA before it sends the *)
(* ACK): wherever a response is, on the way, half read, held back by the   *)
(* fault injector or already matched by the sender, its DATA was handed to *)
(* the application and its heartbeat was received.                         *)
ResponsesAreHonest ==
  /\ \A e \in Ends : \A i \in DOMAIN sock[e].buf : Honest(sock[e].buf[i])
  /\ Honest(partial) /\ Honest(delayed) /\ Honest(reply)
  /\ \A k \in completed_responses : Honest(Packet(k[1], k[2]))

(* However often the sender retries and over however many connections, one *)
(* receiver process hands a DATA sequence to the application once.         *)
ProcessedOnce ==
  \A i, j \in DOMAIN delivered :
    /\ delivered[i].process = delivered[j].process
    /\ delivered[i].frame.seq = delivered[j].frame.seq
    => i = j

(* What reaches the application is what the sender sent: a packet that was *)
(* corrupted on the way never does.                                        *)
DeliveredIntact ==
  \A i \in DOMAIN delivered :
    delivered[i].frame = Packet("Data", DataSequence)

(* Every response the sender reads is the one it waits for or one it has   *)
(* already matched: retries, late and duplicate responses and reconnects   *)
(* never make it give up with "unexpected response" or on a bad frame.     *)
NoProtocolError == sender_error \notin {"invalid frame", "unexpected response"}

(* A request only goes out on a stream that is at a frame boundary: the    *)
(* rest of a half read response is never taken for the next header.        *)
AtFrameBoundary ==
  sender_pc = "send" =>
    /\ partial = NoFrame
    /\ \A i \in DOMAIN sock[SenderEnd].buf :
         sock[SenderEnd].buf[i].type # "Fragment"

(* The requests before n were all answered.                                *)
AnsweredBefore(n) ==
  /\ <<"Ack", DataSequence>> \in completed_responses
  /\ \A m \in 2 .. n - 1 : <<"HeartbeatAck", m>> \in completed_responses

(* Stop and wait across reconnects: a heartbeat is on the way, or reaches  *)
(* the receiver, only when DATA and every earlier heartbeat were answered. *)
OneRequestAtATime ==
  /\ \A e \in Ends : \A i \in DOMAIN sock[e].buf :
       sock[e].buf[i].type = "Heartbeat" => AnsweredBefore(sock[e].buf[i].seq)
  /\ \A n \in heard : AnsweredBefore(n)

(* The fault of the command line is injected once per process, also when   *)
(* the sender comes back on a new connection.                              *)
OneFault == faults <= 1

Waiting(l) == {backlog[l][i] : i \in DOMAIN backlog[l]}

(* No process loses track of a descriptor: an open end is the one being    *)
(* worked on or waits in the backlog of a listener.                        *)
NoDescriptorLeak ==
  \A c \in Conns :
    /\ sock[<<"snd", c>>].open   => c = fd
    /\ sock[<<"front", c>>].open => c = conn \/ c \in Waiting("front")
    /\ sock[<<"back", c>>].open  => c = conn
    /\ sock[<<"rcv", c>>].open   => c = client_fd \/ c \in Waiting("rcv")

-----------------------------------------------------------------------------
(* The sender always comes to an end: its deadlines, retries, heartbeats   *)
(* and reconnects are all bounded, whatever the other processes do.        *)
SenderTerminates == <>SenderEnded

(* Once the sender is gone, every connection is closed at both ends: the   *)
(* fault injector and the receiver come back to accept, or have ended.     *)
ConnectionsReleased ==
  SenderEnded ~> (\A e \in Ends : ~sock[e].open)

-----------------------------------------------------------------------------
(* The session the three programs implement: sequence numbers count the    *)
(* requests.                                                               *)
SessionStatus ==
  IF sender_pc = "done" THEN "succeeded"
  ELSE IF sender_pc \in {"failed", "killed"} THEN "failed" ELSE "running"

SessionAnswered ==
  IF sender_pc = "done" THEN HeartbeatCount + 1
  ELSE IF phase = "data" THEN 0 ELSE heartbeat_sequence - 1

Session == INSTANCE RequestSession WITH
  N         <- HeartbeatCount + 1,
  Processes <- MaxStarts,
  executed  <- [i \in DOMAIN delivered |-> delivered[i].process],
  served    <- heard,
  answered  <- SessionAnswered,
  status    <- SessionStatus

(* The testbed implements the session: every step of a process is a step   *)
(* of the session or invisible to it.                                      *)
ImplementsSession == Session!SessionSpec

-----------------------------------------------------------------------------
(* What phase-2.md section 5.8 says of a reconnect: the receiver closes    *)
(* the connected socket only and keeps listening, so that a sender that    *)
(* gave up its connection after a heartbeat can connect again.             *)
ListenerSurvivesReconnect ==
  phase = "reconnected" => receiver_pc \notin {"exited", "killed"}

=============================================================================
