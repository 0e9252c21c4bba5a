---------------------------- MODULE TcpReceiver -----------------------------
(***************************************************************************)
(* tcp/receiver.cpp: accept one connection at a time, process each DATA    *)
(* sequence once for the life of the process, answer every request.        *)
(*                                                                         *)
(* The set of processed sequences lives in the process only: an operator   *)
(* may kill the receiver and start it again (MaxStarts bounds how often),  *)
(* and the new process knows nothing of the old one.                       *)
(***************************************************************************)
EXTENDS TcpNet

CONSTANT MaxStarts       \* receiver processes started in a behaviour

ASSUME ReceiverAssumption == MaxStarts \in Nat

VARIABLES
  receiver_pc,          \* where main() is, see ReceiverPc
  client_fd,            \* the accepted connection, 0 when there is none
  reply,                \* the response about to be sent
  processed_sequences,  \* DATA sequences of this process
  starts,               \* processes started so far
  delivered,            \* history: what was handed to the application
  heard                 \* history: heartbeats received by any process

receiverVars == <<receiver_pc, client_fd, reply, processed_sequences,
                  starts, delivered, heard>>

ReceiverPc == {"down", "accept", "recv", "reply", "exited", "killed"}
Delivery   == [process : Nat, frame : Frame]

ReceiverTypeOK ==
  /\ receiver_pc \in ReceiverPc
  /\ client_fd \in 0 .. MaxConn
  /\ receiver_pc \in {"recv", "reply"} => client_fd \in Conns
  /\ reply \in Frame \cup {NoFrame}
  /\ receiver_pc = "reply" => reply \in Frame
  /\ processed_sequences \subseteq Nat
  /\ starts \in 0 .. MaxStarts
  /\ delivered \in Seq(Delivery)
  /\ heard \subseteq Nat

ReceiverInit ==
  /\ receiver_pc = "down"
  /\ client_fd = 0
  /\ reply = NoFrame
  /\ processed_sequences = {}
  /\ starts = 0
  /\ delivered = <<>>
  /\ heard = {}

ReceiverEnd == <<"rcv", client_fd>>

(* create_server_socket in a new process.                                  *)
ReceiverStart ==
  /\ receiver_pc \in {"down", "exited", "killed"}
  /\ starts < MaxStarts
  /\ starts' = starts + 1
  /\ receiver_pc' = "accept"
  /\ processed_sequences' = {}
  /\ listening' = [listening EXCEPT !["rcv"] = TRUE]
  /\ UNCHANGED <<client_fd, reply, delivered, heard, sock, backlog>>

(* The operator kills the process.                                         *)
ReceiverCrash ==
  /\ receiver_pc \in {"accept", "recv", "reply"}
  /\ starts < MaxStarts
  /\ receiver_pc' = "down"
  /\ client_fd' = 0
  /\ Die(sock, "rcv", {"rcv"})
  /\ UNCHANGED <<reply, processed_sequences, starts, delivered, heard>>

(* Faulty variant: the sequences are those of the connection.              *)
ReceiverAccept_NewSet ==
  /\ receiver_pc = "accept"
  /\ backlog["rcv"] # <<>>
  /\ receiver_pc' = "recv"
  /\ client_fd' = Head(backlog["rcv"])
  /\ backlog' = [backlog EXCEPT !["rcv"] = Tail(@)]
  /\ processed_sequences' = {}
  /\ UNCHANGED <<reply, starts, delivered, heard, sock, listening>>

ReceiverAccept ==
  /\ receiver_pc = "accept"
  /\ backlog["rcv"] # <<>>
  /\ receiver_pc' = "recv"
  /\ client_fd' = Head(backlog["rcv"])
  /\ backlog' = [backlog EXCEPT !["rcv"] = Tail(@)]
  /\ UNCHANGED <<reply, processed_sequences, starts, delivered, heard,
                 sock, listening>>

-----------------------------------------------------------------------------
(* An exception other than PeerDisconnected leaves both loops of main():   *)
(* exit code 1, and the kernel closes the connection and the listener.  s  *)
(* is the socket state at the throw.                                       *)
ReceiverExit(s, pc) ==
  /\ receiver_pc' = pc
  /\ client_fd' = 0
  /\ Die(s, "rcv", {"rcv"})
  /\ UNCHANGED <<reply, processed_sequences, delivered, heard>>

(* Faulty variants, never part of the specification: the sequence is not   *)
(* remembered; the ACK names the next sequence; the connection stays open. *)
Remembered_Not(f) == processed_sequences
AckFor_Next(f)    == Packet("Ack", f.seq + 1)
Released_Not      == sock

Remembered(f) == processed_sequences \cup {f.seq}
AckFor(f)     == Packet("Ack", f.seq)
Released      == CloseFd(sock, {ReceiverEnd})

(* DATA: a sequence seen before is acknowledged and not processed again.   *)
HandleData(f) ==
  /\ IF f.seq \in processed_sequences
       THEN UNCHANGED <<processed_sequences, delivered>>
       ELSE /\ processed_sequences' = Remembered(f)
            /\ delivered' = Append(delivered, [process |-> starts, frame |-> f])
  /\ reply' = AckFor(f)
  /\ receiver_pc' = "reply"
  /\ sock' = TakeHead(sock, ReceiverEnd)
  /\ UNCHANGED <<client_fd, heard, backlog, listening>>

HandleHeartbeat(f) ==
  /\ heard' = heard \cup {f.seq}
  /\ reply' = Packet("HeartbeatAck", f.seq)
  /\ receiver_pc' = "reply"
  /\ sock' = TakeHead(sock, ReceiverEnd)
  /\ UNCHANGED <<client_fd, processed_sequences, delivered, backlog, listening>>

(* receive_packet and the branch on the packet type; an exception of       *)
(* decode_packet or the last branch ends the process.  recv_exact has read *)
(* the whole frame by then: the peer gets a FIN unless there is more.      *)
ReceiverRead ==
  /\ receiver_pc = "recv"
  /\ sock[ReceiverEnd].buf # <<>>
  /\ LET f == Head(sock[ReceiverEnd].buf)
     IN  \/ Decodes(f) /\ f.type = "Data" /\ HandleData(f)
         \/ Decodes(f) /\ f.type = "Heartbeat" /\ HandleHeartbeat(f)
         \/ /\ ~Decodes(f) \/ f.type \notin {"Data", "Heartbeat"}
            /\ ReceiverExit(TakeHead(sock, ReceiverEnd), "exited")
  /\ UNCHANGED starts

(* Faulty variants: EOF ends the process, as every other exception of      *)
(* receive_packet does; EOF is taken for an interrupted call.              *)
ReceiverEOF_EndsProcess ==
  receiver_pc = "recv" /\ AtEOF(ReceiverEnd) /\ ReceiverExit(sock, "exited") /\ UNCHANGED starts

ReceiverEOF_TriesAgain ==
  receiver_pc = "recv" /\ AtEOF(ReceiverEnd) /\ UNCHANGED <<netVars, receiverVars>>

(* EOF is local to the connection: close it and accept the next.           *)
ReceiverEOF ==
  /\ receiver_pc = "recv"
  /\ AtEOF(ReceiverEnd)
  /\ receiver_pc' = "accept"
  /\ client_fd' = 0
  /\ sock' = Released
  /\ UNCHANGED <<reply, processed_sequences, starts, delivered, heard,
                 backlog, listening>>

(* recv fails with ECONNRESET: an exception that ends the process.         *)
ReceiverRecvFailed ==
  /\ receiver_pc = "recv"
  /\ ReadsReset(ReceiverEnd)
  /\ ReceiverExit(sock, "exited")
  /\ UNCHANGED starts

(* send_packet of the ACK or HEARTBEAT_ACK.                                *)
ReceiverReply ==
  /\ receiver_pc = "reply"
  /\ \/ /\ CanSend(sock, ReceiverEnd)
        /\ sock' = Put(sock, ReceiverEnd, reply)
        /\ receiver_pc' = "recv"
        /\ UNCHANGED <<client_fd, reply, processed_sequences, delivered,
                       heard, backlog, listening>>
     \/ RaisesReset(sock, ReceiverEnd) /\ ReceiverExit(sock, "exited")
     \/ RaisesSigpipe(sock, ReceiverEnd) /\ ReceiverExit(sock, "killed")
  /\ UNCHANGED starts

(* What the process does once it runs.                                     *)
ReceiverRun ==
  \/ ReceiverAccept
  \/ ReceiverRead
  \/ ReceiverEOF
  \/ ReceiverRecvFailed
  \/ ReceiverReply

ReceiverNext == ReceiverStart \/ ReceiverCrash \/ ReceiverRun

=============================================================================
