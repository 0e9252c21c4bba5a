---------------------------- MODULE TcpNetProofs ----------------------------
(***************************************************************************)
(* Lemmas about the socket operators of TcpNet.  SockOf(F) are the socket  *)
(* states in which every unread frame is in F.  Each operator keeps such a *)
(* state as one: none puts a frame into a buffer that was not there or was *)
(* not sent.  With F = Frame this is the type of sock; with smaller sets   *)
(* it says what can be on the way.                                         *)
(***************************************************************************)
EXTENDS TcpNet, TLAPS

SocketOf(F) == [buf : Seq(F), fin : BOOLEAN, rst : BOOLEAN, open : BOOLEAN]
SockOf(F)   == [Ends -> SocketOf(F)]
SockState   == SockOf(Frame)

(* Every connection end has an end opposite to it.                         *)
LEMMA PeerIsEnd ==
  ASSUME NEW e \in Ends
  PROVE  Peer(e) \in Ends /\ Peer(Peer(e)) = e /\ Peer(e) # e
BY DEF Ends, Sides, Peer, PeerSide

(* The frames the programs make are frames.                                *)
LEMMA PacketIsFrame ==
  ASSUME NEW t \in MessageType, NEW n \in Nat
  PROVE  Packet(t, n) \in Frame
BY DEF Packet, Frame, FrameType

LEMMA CorruptedIsFrame ==
  ASSUME NEW f \in Frame
  PROVE  Corrupted(f) \in Frame
BY DEF Corrupted, Frame

LEMMA FragmentIsFrame == Fragment \in Frame
BY DEF Fragment, Frame, FrameType

(* A state with fewer possible frames is one with more.                    *)
LEMMA SockOfMonotone ==
  ASSUME NEW F, NEW G, F \subseteq G, NEW s \in SockOf(F)
  PROVE  s \in SockOf(G)
<1>1. ASSUME NEW q \in Seq(F) PROVE q \in Seq(G)
  BY <1>1
<1>2. \A k \in SocketOf(F) : k \in SocketOf(G)
  BY <1>1 DEF SocketOf
<1> QED
  BY <1>2 DEF SockOf

(* What waits to be read in a state of SockOf(F) is in F.                  *)
LEMMA SockOfElement ==
  ASSUME NEW F, NEW s \in SockOf(F), NEW e \in Ends, NEW i \in DOMAIN s[e].buf
  PROVE  s[e].buf[i] \in F
<1>1. s[e].buf \in Seq(F)
  BY DEF SockOf, SocketOf
<1> QED
  BY <1>1

(* send() adds the frame that is sent.                                     *)
LEMMA PutOf ==
  ASSUME NEW F, NEW s \in SockOf(F), NEW e \in Ends, NEW f \in F
  PROVE  Put(s, e, f) \in SockOf(F)
<1>1. Peer(e) \in Ends
  BY PeerIsEnd
<1>2. s[e] \in SocketOf(F) /\ s[Peer(e)] \in SocketOf(F)
  BY <1>1 DEF SockOf
<1>3. Append(s[Peer(e)].buf, f) \in Seq(F)
  BY <1>2 DEF SocketOf
<1>4. [s[Peer(e)] EXCEPT !.buf = Append(@, f)] \in SocketOf(F)
  BY <1>2, <1>3 DEF SocketOf
<1>5. [s[e] EXCEPT !.rst = TRUE] \in SocketOf(F)
  BY <1>2 DEF SocketOf
<1> QED
  BY <1>1, <1>4, <1>5 DEF Put, SockOf

(* recv() of a whole frame takes one out.                                  *)
LEMMA TakeHeadOf ==
  ASSUME NEW F, NEW s \in SockOf(F), NEW e \in Ends, s[e].buf # <<>>
  PROVE  /\ TakeHead(s, e) \in SockOf(F)
         /\ Head(s[e].buf) \in F
<1>1. s[e] \in SocketOf(F)
  BY DEF SockOf
<1>2. s[e].buf \in Seq(F)
  BY <1>1 DEF SocketOf
<1>3. Tail(s[e].buf) \in Seq(F) /\ Head(s[e].buf) \in F
  BY <1>2
<1>4. [s[e] EXCEPT !.buf = Tail(@)] \in SocketOf(F)
  BY <1>1, <1>3 DEF SocketOf
<1> QED
  BY <1>3, <1>4 DEF TakeHead, SockOf

(* recv() of the first bytes of a frame leaves a fragment.                 *)
LEMMA LeaveRestOf ==
  ASSUME NEW F, Fragment \in F, NEW s \in SockOf(F), NEW e \in Ends,
         s[e].buf # <<>>
  PROVE  LeaveRest(s, e) \in SockOf(F)
<1>1. s[e] \in SocketOf(F)
  BY DEF SockOf
<1>2. s[e].buf \in Seq(F)
  BY <1>1 DEF SocketOf
<1>3. <<Fragment>> \in Seq(F) /\ Tail(s[e].buf) \in Seq(F)
  BY <1>2
<1>4. <<Fragment>> \o Tail(s[e].buf) \in Seq(F)
  BY <1>3
<1>5. [s[e] EXCEPT !.buf = <<Fragment>> \o Tail(@)] \in SocketOf(F)
  BY <1>1, <1>4 DEF SocketOf
<1> QED
  BY <1>5 DEF LeaveRest, SockOf

(* close(), the end of a process and shutdown() add nothing.               *)
LEMMA CloseOf ==
  ASSUME NEW F, NEW s \in SockOf(F), NEW E, NEW A
  PROVE  Close(s, E, A) \in SockOf(F)
<1>1. Closed \in SocketOf(F)
  BY DEF Closed, SocketOf
<1>2. \A e \in Ends : /\ s[e] \in SocketOf(F)
                      /\ [s[e] EXCEPT !.rst = TRUE] \in SocketOf(F)
                      /\ [s[e] EXCEPT !.fin = TRUE] \in SocketOf(F)
  BY DEF SockOf, SocketOf
<1> QED
  BY <1>1, <1>2 DEF Close, SockOf

LEMMA CloseFdOf ==
  ASSUME NEW F, NEW s \in SockOf(F), NEW E
  PROVE  CloseFd(s, E) \in SockOf(F)
BY CloseOf DEF CloseFd

LEMMA ShutdownOf ==
  ASSUME NEW F, NEW s \in SockOf(F), NEW E
  PROVE  Shutdown(s, E) \in SockOf(F)
<1>1. \A e \in Ends : /\ s[e] \in SocketOf(F)
                      /\ [s[e] EXCEPT !.fin = TRUE] \in SocketOf(F)
  BY DEF SockOf, SocketOf
<1> QED
  BY <1>1 DEF Shutdown, SockOf

(* connect() makes two fresh ends.                                         *)
LEMMA EstablishOf ==
  ASSUME NEW F, sock \in SockOf(F), NEW d, NEW l, NEW c, Establish(d, l, c)
  PROVE  sock' \in SockOf(F)
<1>1. Fresh \in SocketOf(F)
  BY DEF Fresh, SocketOf
<1> QED
  BY <1>1 DEF Establish, SockOf

-----------------------------------------------------------------------------
(* The same for the type of the socket state, F = Frame.                   *)
LEMMA SocketOfFrame == Socket = SocketOf(Frame)
BY DEF Socket, SocketOf

LEMMA PutType ==
  ASSUME NEW s \in SockState, NEW e \in Ends, NEW f \in Frame
  PROVE  Put(s, e, f) \in SockState
BY PutOf DEF SockState

LEMMA TakeHeadType ==
  ASSUME NEW s \in SockState, NEW e \in Ends, s[e].buf # <<>>
  PROVE  /\ TakeHead(s, e) \in SockState
         /\ Head(s[e].buf) \in Frame
BY TakeHeadOf DEF SockState

LEMMA LeaveRestType ==
  ASSUME NEW s \in SockState, NEW e \in Ends, s[e].buf # <<>>
  PROVE  LeaveRest(s, e) \in SockState
BY LeaveRestOf, FragmentIsFrame DEF SockState

LEMMA CloseFdType ==
  ASSUME NEW s \in SockState, NEW E
  PROVE  CloseFd(s, E) \in SockState
BY CloseFdOf DEF SockState

LEMMA ShutdownType ==
  ASSUME NEW s \in SockState, NEW E
  PROVE  Shutdown(s, E) \in SockState
BY ShutdownOf DEF SockState

(* connect() keeps the type of the network.                                *)
LEMMA EstablishType ==
  ASSUME NEW l \in Listeners, NEW c \in Conns, NEW d,
         sock \in SockState, backlog \in [Listeners -> Seq(Conns)],
         Establish(d, l, c)
  PROVE  /\ sock' \in SockState
         /\ backlog' \in [Listeners -> Seq(Conns)]
<1>1. Append(backlog[l], c) \in Seq(Conns)
  OBVIOUS
<1>2. sock' \in SockState
  BY EstablishOf DEF SockState
<1> QED
  BY <1>1, <1>2 DEF Establish

(* The end of a listening process keeps it.                                *)
LEMMA DieType ==
  ASSUME NEW s \in SockState, NEW l \in Listeners, NEW D,
         backlog \in [Listeners -> Seq(Conns)],
         listening \in [Listeners -> BOOLEAN],
         Die(s, l, D)
  PROVE  /\ sock' \in SockState
         /\ backlog' \in [Listeners -> Seq(Conns)]
         /\ listening' \in [Listeners -> BOOLEAN]
<1>1. sock' \in SockState
  BY CloseOf DEF Die, SockState
<1>2. <<>> \in Seq(Conns)
  OBVIOUS
<1> QED
  BY <1>1, <1>2 DEF Die

=============================================================================
