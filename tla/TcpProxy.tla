------------------------------ MODULE TcpProxy ------------------------------
(***************************************************************************)
(* fault_injector/tcp_proxy.cpp: relay one sender connection at a time to  *)
(* the receiver, and apply the fault of the command line once.             *)
(*                                                                         *)
(* relay_connection works from the events poll returned: what arrives      *)
(* while it handles them is seen by the next poll only.                    *)
(***************************************************************************)
EXTENDS TcpNet

CONSTANT FaultModes      \* the --fault arguments to consider

ASSUME ProxyAssumption ==
  FaultModes \subseteq {"None", "DropAck", "DelayAck", "CorruptData", "Disconnect"}

VARIABLES
  proxy_pc,        \* where main() and relay_connection are, see ProxyPc
  fault_mode,      \* parse_fault_mode(argv)
  fault_applied,   \* of the process, not of the connection
  conn,            \* sender_fd (and receiver_fd once connected), 0 for none
  revents,         \* what the last poll returned for both sockets
  delayed,         \* the ACK held back by DelayAck
  faults           \* history: faults injected so far

proxyVars == <<proxy_pc, fault_mode, fault_applied, conn, revents, delayed,
               faults>>

ProxyPc == {"down", "accept", "connect", "poll", "front", "back", "delay",
            "hangup", "killed"}
Events  == [in : BOOLEAN, err : BOOLEAN]
NoEvents == [in |-> FALSE, err |-> FALSE]

ProxyTypeOK ==
  /\ proxy_pc \in ProxyPc
  /\ fault_mode \in FaultModes
  /\ fault_applied \in BOOLEAN
  /\ conn \in 0 .. MaxConn
  /\ proxy_pc \notin {"down", "accept", "killed"} => conn \in Conns
  /\ revents \in [{"front", "back"} -> Events]
  /\ delayed \in Frame \cup {NoFrame}
  /\ proxy_pc = "delay" => delayed \in Frame
  /\ faults \in Nat

ProxyInit ==
  /\ proxy_pc = "down"
  /\ fault_mode \in FaultModes
  /\ fault_applied = FALSE
  /\ conn = 0
  /\ revents = [d \in {"front", "back"} |-> NoEvents]
  /\ delayed = NoFrame
  /\ faults = 0

FrontEnd == <<"front", conn>>
BackEnd  == <<"back", conn>>

(* create_listen_socket in a new process.                                  *)
ProxyStart ==
  /\ proxy_pc = "down"
  /\ proxy_pc' = "accept"
  /\ listening' = [listening EXCEPT !["front"] = TRUE]
  /\ UNCHANGED <<fault_mode, fault_applied, conn, revents, delayed, faults,
                 sock, backlog>>

(* Faulty variant, never part of the specification: fault_applied is a     *)
(* variable of the connection.                                             *)
ProxyAccept_NewFault ==
  /\ proxy_pc = "accept"
  /\ backlog["front"] # <<>>
  /\ proxy_pc' = "connect"
  /\ conn' = Head(backlog["front"])
  /\ backlog' = [backlog EXCEPT !["front"] = Tail(@)]
  /\ fault_applied' = FALSE
  /\ UNCHANGED <<fault_mode, revents, delayed, faults, sock, listening>>

ProxyAccept ==
  /\ proxy_pc = "accept"
  /\ backlog["front"] # <<>>
  /\ proxy_pc' = "connect"
  /\ conn' = Head(backlog["front"])
  /\ backlog' = [backlog EXCEPT !["front"] = Tail(@)]
  /\ UNCHANGED <<fault_mode, fault_applied, revents, delayed, faults, sock,
                 listening>>

(* connect_to_receiver; when it throws, the sender's connection is closed. *)
ProxyConnect ==
  /\ proxy_pc = "connect"
  /\ IF listening["rcv"]
       THEN /\ Establish("back", "rcv", conn)
            /\ proxy_pc' = "poll"
            /\ UNCHANGED conn
       ELSE /\ sock' = CloseFd(sock, {FrontEnd})
            /\ proxy_pc' = "accept"
            /\ conn' = 0
            /\ UNCHANGED backlog
  /\ UNCHANGED <<fault_mode, fault_applied, revents, delayed, faults,
                 listening>>

(* poll(fds, 2, -1) returns as soon as one socket has an event.            *)
ProxyPoll ==
  /\ proxy_pc = "poll"
  /\ PollIn(FrontEnd) \/ PollIn(BackEnd)
  /\ revents' = [d \in {"front", "back"} |->
                   [in |-> PollIn(<<d, conn>>), err |-> PollErr(<<d, conn>>)]]
  /\ proxy_pc' = "front"
  /\ UNCHANGED <<fault_mode, fault_applied, conn, delayed, faults, sock,
                 backlog, listening>>

-----------------------------------------------------------------------------
(* Faulty variant: only the sender's descriptor is closed.                 *)
BothEnds_FrontOnly == {FrontEnd}

BothEnds == {FrontEnd, BackEnd}

(* relay_connection throws; main() closes both descriptors and accepts     *)
(* again.  s is the socket state at the throw.                             *)
Teardown(s) ==
  /\ sock' = CloseFd(s, BothEnds)
  /\ proxy_pc' = "accept"
  /\ conn' = 0
  /\ UNCHANGED <<backlog, listening>>

(* send_packet(to, f), then continue at pc.                                *)
Forward(s, to, f, pc) ==
  \/ /\ CanSend(s, to)
     /\ sock' = Put(s, to, f)
     /\ proxy_pc' = pc
     /\ UNCHANGED <<conn, backlog, listening>>
  \/ /\ RaisesReset(s, to)
     /\ Teardown(s)
  \/ /\ RaisesSigpipe(s, to)
     /\ proxy_pc' = "killed"
     /\ conn' = 0
     /\ Die(s, "front", {"front", "back"})

(* Faulty variant: the fault is not marked as applied.                     *)
Inject_NotMarked ==
  /\ faults' = IF faults = 0 THEN 1 ELSE faults
  /\ UNCHANGED fault_applied

Inject ==
  /\ fault_applied' = TRUE
  /\ faults' = faults + 1

NoFault == UNCHANGED <<fault_applied, faults>>

(* receive_packet throws: EOF, a reset, or a packet that does not decode.  *)
ReceiveThrows(e) == sock[e].buf = <<>> \/ ~Decodes(Head(sock[e].buf))

Received(e) == IF sock[e].buf = <<>> THEN sock ELSE TakeHead(sock, e)

CorruptsNow(f) ==
  fault_mode = "CorruptData" /\ f.type = "Data" /\ ~fault_applied

DisconnectsNow(f) ==
  fault_mode = "Disconnect" /\ f.type = "Heartbeat" /\ ~fault_applied

(* The sender's socket: a packet to corrupt, to answer with a forced       *)
(* disconnect, or to forward.  After a corrupted packet the loop goes      *)
(* straight to the next poll.                                              *)
RelayFromSender ==
  /\ proxy_pc = "front" /\ revents["front"].in
  /\ LET f == Head(sock[FrontEnd].buf)
         s == Received(FrontEnd)
     IN  IF ReceiveThrows(FrontEnd)
           THEN Teardown(s) /\ NoFault
         ELSE IF CorruptsNow(f)
           THEN /\ Forward(s, BackEnd, Corrupted(f), "poll")
                /\ IF CanSend(s, BackEnd) THEN Inject ELSE NoFault
         ELSE IF DisconnectsNow(f)
           THEN Teardown(Shutdown(s, BothEnds)) /\ Inject
         ELSE Forward(s, BackEnd, f, "back") /\ NoFault
  /\ UNCHANGED <<fault_mode, revents, delayed>>

(* The receiver's socket: an ACK to drop or to hold back, or a response to *)
(* forward.  After a dropped ACK the loop goes straight to the next poll.  *)
RelayFromReceiver ==
  /\ proxy_pc = "back" /\ revents["back"].in
  /\ LET f == Head(sock[BackEnd].buf)
         s == Received(BackEnd)
         first == f.type = "Ack" /\ ~fault_applied
     IN  IF ReceiveThrows(BackEnd)
           THEN Teardown(s) /\ NoFault /\ UNCHANGED delayed
         ELSE IF first /\ fault_mode = "DropAck"
           THEN /\ sock' = s
                /\ proxy_pc' = "poll"
                /\ Inject
                /\ UNCHANGED <<conn, backlog, listening, delayed>>
         ELSE IF first /\ fault_mode = "DelayAck"
           THEN /\ sock' = s
                /\ proxy_pc' = "delay"
                /\ delayed' = f
                /\ NoFault
                /\ UNCHANGED <<conn, backlog, listening>>
         ELSE Forward(s, FrontEnd, f, "hangup") /\ NoFault /\ UNCHANGED delayed
  /\ UNCHANGED <<fault_mode, revents>>

(* A socket without POLLIN is passed over.                                 *)
RelaySkips ==
  /\ \/ proxy_pc = "front" /\ ~revents["front"].in /\ proxy_pc' = "back"
     \/ proxy_pc = "back" /\ ~revents["back"].in /\ proxy_pc' = "hangup"
  /\ UNCHANGED <<fault_mode, fault_applied, conn, revents, delayed, faults,
                 sock, backlog, listening>>

(* kAckDelayMs is over: the held ACK goes on.                              *)
RelayDelayedAck ==
  /\ proxy_pc = "delay"
  /\ Forward(sock, FrontEnd, delayed, "hangup")
  /\ Inject
  /\ UNCHANGED <<fault_mode, revents, delayed>>

(* Errors and hangups are looked at last, on the events of the same poll.  *)
RelayHangup ==
  /\ proxy_pc = "hangup"
  /\ IF revents["front"].err \/ revents["back"].err
       THEN Teardown(sock)
       ELSE /\ proxy_pc' = "poll"
            /\ UNCHANGED <<conn, sock, backlog, listening>>
  /\ UNCHANGED <<fault_mode, fault_applied, revents, delayed, faults>>

(* What the process does once it runs.                                     *)
ProxyRun ==
  \/ ProxyAccept
  \/ ProxyConnect
  \/ ProxyPoll
  \/ RelayFromSender
  \/ RelayFromReceiver
  \/ RelaySkips
  \/ RelayDelayedAck
  \/ RelayHangup

ProxyNext == ProxyStart \/ ProxyRun

=============================================================================
