------------------------------- MODULE TcpNet -------------------------------
(***************************************************************************)
(* Loopback TCP as the three TCP programs use it.  The kernel is not part  *)
(* of the repository: this module is external, modelled from the calls the *)
(* programs make (socket, connect, accept, send, recv, poll, shutdown,     *)
(* close) and from what their error branches distinguish (EPIPE,           *)
(* ECONNRESET, EOF, POLLIN, POLLERR/POLLHUP).                              *)
(*                                                                         *)
(* A connection c has four ends, because the fault injector relays it:     *)
(*                                                                         *)
(*     sender <<"snd",c>> ---- <<"front",c>> proxy                         *)
(*                             <<"back",c>>  proxy ---- <<"rcv",c>> receiver*)
(*                                                                         *)
(* A frame stands for one encoded protocol packet.  TCP keeps order and    *)
(* loses nothing on an open connection; what it can do is deliver only the *)
(* first bytes of a frame for a while (see Fragment) and reset.            *)
(***************************************************************************)
EXTENDS Integers, Sequences, FiniteSets

CONSTANT MaxConn          \* connection identifiers are 1..MaxConn

ASSUME MaxConnAssumption == MaxConn \in Nat

Conns == 1 .. MaxConn
Sides == {"snd", "front", "back", "rcv"}
Listeners == {"front", "rcv"}
Ends  == Sides \X Conns

PeerSide == [snd |-> "front", front |-> "snd", back |-> "rcv", rcv |-> "back"]
Peer(e)  == <<PeerSide[e[1]], e[2]>>

(***************************************************************************)
(* Frames.  crcOk is FALSE once a payload byte was flipped on the way.  A  *)
(* Fragment is the rest of a frame whose first bytes were already read.    *)
(***************************************************************************)
MessageType == {"Data", "Ack", "Heartbeat", "HeartbeatAck"}
FrameType   == MessageType \cup {"Fragment"}
Frame       == [type : FrameType, seq : Nat, crcOk : BOOLEAN]

Packet(t, n) == [type |-> t, seq |-> n, crcOk |-> TRUE]
Corrupted(f) == [f EXCEPT !.crcOk = FALSE]
Fragment     == [type |-> "Fragment", seq |-> 0, crcOk |-> FALSE]

(* decode_packet accepts a frame: magic, version, type and length are      *)
(* those of a packet, and the CRC of the bytes is the CRC they carry.      *)
Decodes_WithoutCrc(f) == f.type # "Fragment"   \* faulty: CRC not compared

Decodes(f) == f.crcOk /\ f.type # "Fragment"

(* What a variable that may hold a frame holds when it holds none.         *)
NoFrame      == [type |-> "None", seq |-> 0, crcOk |-> FALSE]

(***************************************************************************)
(* One end of a connection: the frames received and not yet read, whether  *)
(* the peer's FIN and a RST have arrived, and whether the descriptor (or   *)
(* the not yet accepted connection) exists.                                *)
(***************************************************************************)
Socket == [buf : Seq(Frame), fin : BOOLEAN, rst : BOOLEAN, open : BOOLEAN]

Closed == [buf |-> <<>>, fin |-> FALSE, rst |-> FALSE, open |-> FALSE]
Fresh  == [buf |-> <<>>, fin |-> FALSE, rst |-> FALSE, open |-> TRUE]

VARIABLES
  sock,        \* [Ends -> Socket]
  backlog,     \* [Listeners -> Seq(Conns)], established and not yet accepted
  listening    \* [Listeners -> BOOLEAN], a process listens on the port

netVars == <<sock, backlog, listening>>

NetTypeOK ==
  /\ sock \in [Ends -> Socket]
  /\ backlog \in [Listeners -> Seq(Conns)]
  /\ listening \in [Listeners -> BOOLEAN]

NetInit ==
  /\ sock = [e \in Ends |-> Closed]
  /\ backlog = [l \in Listeners |-> <<>>]
  /\ listening = [l \in Listeners |-> FALSE]

-----------------------------------------------------------------------------
(* poll(): readable with data, at end of file, or with an error pending.   *)
Readable(s, e) == s[e].buf # <<>> \/ s[e].fin \/ s[e].rst
PollIn(e)      == Readable(sock, e)
PollErr(e)     == sock[e].rst

(* recv(): queued data first, then end of file, then the pending error.    *)
AtEOF(e)       == sock[e].buf = <<>> /\ sock[e].fin
ReadsReset(e)  == sock[e].buf = <<>> /\ ~sock[e].fin /\ sock[e].rst

TakeHead(s, e) == [s EXCEPT ![e].buf = Tail(@)]

(* The reader has taken the first bytes of the frame at the head.          *)
LeaveRest(s, e) == [s EXCEPT ![e].buf = <<Fragment>> \o Tail(@)]

(***************************************************************************)
(* send().  After a RST the pending error is EPIPE when the peer's FIN had *)
(* come before it, and ECONNRESET otherwise; EPIPE comes with SIGPIPE,     *)
(* which no program of the repository ignores, blocks or handles.  On an   *)
(* end the peer has closed the data is lost and a RST comes back.          *)
(***************************************************************************)
RaisesSigpipe(s, e) == s[e].rst /\ s[e].fin
RaisesReset(s, e)   == s[e].rst /\ ~s[e].fin
CanSend(s, e)       == ~s[e].rst

Put(s, e, f) ==
  IF s[Peer(e)].open
    THEN [s EXCEPT ![Peer(e)].buf = Append(@, f)]
    ELSE [s EXCEPT ![e].rst = TRUE]

(* shutdown(SHUT_RDWR): the peer gets a FIN.                               *)
Shutdown(s, E) ==
  [e \in Ends |->
     IF Peer(e) \in E /\ s[e].open /\ s[Peer(e)].open /\ ~s[Peer(e)].rst
       THEN [s[e] EXCEPT !.fin = TRUE] ELSE s[e]]

(***************************************************************************)
(* close() of the ends in E, by the program or by the kernel when the      *)
(* process ends.  An end with unread data, and a connection still in a     *)
(* closing listener's backlog (the ends in A), is reset.                   *)
(***************************************************************************)
Close(s, E, A) ==
  [e \in Ends |->
     IF e \in E THEN Closed
     ELSE IF Peer(e) \in E /\ s[e].open /\ s[Peer(e)].open /\ ~s[Peer(e)].rst
            THEN IF Peer(e) \in A \/ s[Peer(e)].buf # <<>>
                   THEN [s[e] EXCEPT !.rst = TRUE]
                   ELSE [s[e] EXCEPT !.fin = TRUE]
            ELSE s[e]]

CloseFd(s, E) == Close(s, E, {})

(* connect() to listener l from side d: connection c joins the backlog.    *)
Establish(d, l, c) ==
  /\ sock' = [sock EXCEPT ![<<d, c>>] = Fresh, ![<<l, c>>] = Fresh]
  /\ backlog' = [backlog EXCEPT ![l] = Append(@, c)]

(* The process that listens on l and owns the sides D ends; s is the state  *)
(* of the sockets at that moment.                                          *)
Die(s, l, D) ==
  /\ sock' = Close(s, {e \in Ends : e[1] \in D},
                   {<<l, backlog[l][i]>> : i \in DOMAIN backlog[l]})
  /\ backlog' = [backlog EXCEPT ![l] = <<>>]
  /\ listening' = [listening EXCEPT ![l] = FALSE]

=============================================================================
