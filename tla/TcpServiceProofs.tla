-------------------------- MODULE TcpServiceProofs --------------------------
(***************************************************************************)
(* The receiver as a service, for every number of clients, of requests and *)
(* of receiver processes.                                                  *)
(***************************************************************************)
EXTENDS TcpService, TcpNetProofs

AtServer(c) == sock[ServerEnd(c)]
AtClient(c) == sock[ClientEnd(c)]
Waiting     == backlog["rcv"]
Replying(c) == receiver_pc = "reply" /\ client_fd = c
Connected   == {"open", "shut"}

-----------------------------------------------------------------------------
(* The two ends of a connection, and what close() does to them.            *)

LEMMA EndFacts ==
  ASSUME NEW c \in Conns, NEW d \in Conns
  PROVE  /\ ServerEnd(c) \in Ends /\ ClientEnd(c) \in Ends
         /\ Peer(ServerEnd(c)) = ClientEnd(c)
         /\ Peer(ClientEnd(c)) = ServerEnd(c)
         /\ ServerEnd(c) # ClientEnd(d)
         /\ ServerEnd(c) = ServerEnd(d) => c = d
         /\ ClientEnd(c) = ClientEnd(d) => c = d
BY DEF ServerEnd, ClientEnd, Ends, Sides, Peer, PeerSide

LEMMA CloseEnd ==
  ASSUME NEW s \in SockState, NEW E, NEW A, NEW e \in Ends
  PROVE  /\ e \in E => Close(s, E, A)[e] = Closed
         /\ e \notin E =>
              /\ Close(s, E, A)[e].buf = s[e].buf
              /\ Close(s, E, A)[e].open = s[e].open
              /\ Peer(e) \notin E => Close(s, E, A)[e] = s[e]
<1>1. s[e] \in SocketOf(Frame)
  BY DEF SockState, SockOf
<1> QED
  BY <1>1 DEF Close, SocketOf

-----------------------------------------------------------------------------
(* Types.                                                                  *)

ServiceTypes ==
  /\ sock \in SockState
  /\ backlog \in [Listeners -> Seq(Conns)]
  /\ listening \in [Listeners -> BOOLEAN]
  /\ ReceiverTypeOK
  /\ client \in [Conns -> {"new", "open", "shut", "gone"}]
  /\ requests \in [Conns -> Seq(Requests)]
  /\ answers \in [Conns -> Seq(Frame)]
  /\ offenders \subseteq Conns

(* Which client stands where: one that has not connected has no trace, one *)
(* that is connected has its end, and the receiver's end of a connection   *)
(* that waits or is served is open.                                        *)
Placed(c) ==
  /\ client[c] = "new" =>
       /\ requests[c] = <<>> /\ answers[c] = <<>>
       /\ ~AtServer(c).open /\ client_fd # c
       /\ \A i \in DOMAIN Waiting : Waiting[i] # c
  /\ AtClient(c).open <=> client[c] \in Connected
  /\ AtServer(c).open /\ AtClient(c).open => ~AtClient(c).rst

QueueInv ==
  \A i \in DOMAIN Waiting :
    /\ AtServer(Waiting[i]).open
    /\ Waiting[i] # client_fd
    /\ \A j \in DOMAIN Waiting : Waiting[i] = Waiting[j] => i = j

PlaceInv ==
  /\ \A c \in Conns : Placed(c)
  /\ receiver_pc \in {"recv", "reply"} => AtServer(client_fd).open
  /\ QueueInv

(* What is unread at the receiver are the last requests of the client.     *)
RequestInv(c) ==
  AtServer(c).open =>
    /\ Len(AtServer(c).buf) <= Len(requests[c])
    /\ \A i \in 1 .. Len(AtServer(c).buf) :
         AtServer(c).buf[i] = requests[c][Taken(c) + i]

(* A client that is no offender sent requests only, and if its connection  *)
(* is reset, nothing remains to be read or answered there, and the end of  *)
(* the stream is found first.                                              *)
OffenceInv(c) ==
  c \notin offenders =>
    /\ \A i \in 1 .. Len(requests[c]) : IsRequest(requests[c][i])
    /\ AtServer(c).open =>
         /\ client[c] \in Connected => ~AtServer(c).rst
         /\ client[c] \in {"shut", "gone"} => AtServer(c).fin
         /\ client[c] = "gone" => Outstanding(c) <= 1
         /\ AtServer(c).rst => Outstanding(c) = 0

(* AnswersInOrder, element by element.                                     *)
AnswerInv(c) ==
  client[c] \in Connected /\ AtServer(c).open =>
    /\ ~Replying(c) => Len(answers[c]) + Len(AtClient(c).buf) = Taken(c)
    /\ Replying(c) => Len(answers[c]) + Len(AtClient(c).buf) + 1 = Taken(c)
    /\ \A i \in 1 .. Len(answers[c]) : answers[c][i] = AnswerTo(requests[c][i])
    /\ \A i \in 1 .. Len(AtClient(c).buf) :
         AtClient(c).buf[i] = AnswerTo(requests[c][Len(answers[c]) + i])
    /\ Replying(c) => reply = AnswerTo(requests[c][Taken(c)])

ConnInv(c) == RequestInv(c) /\ OffenceInv(c) /\ AnswerInv(c)

ServiceInv == \A c \in Conns : ConnInv(c)

-----------------------------------------------------------------------------
(* Types are kept.                                                         *)

LEMMA ReceiverEndIsEnd ==
  ASSUME ServiceTypes, receiver_pc \in {"recv", "reply"}
  PROVE  client_fd \in Conns /\ ReceiverEnd = ServerEnd(client_fd)
         /\ ReceiverEnd \in Ends
<1>1. client_fd \in Conns
  BY DEF ServiceTypes, ReceiverTypeOK
<1> QED
  BY <1>1, EndFacts DEF ReceiverEnd, ServerEnd

LEMMA HandleTyped ==
  ASSUME ServiceTypes, NEW f \in Frame,
         HandleData(f) \/ HandleHeartbeat(f)
  PROVE  /\ reply' \in Frame /\ receiver_pc' = "reply"
         /\ client_fd' = client_fd
         /\ processed_sequences' \subseteq Nat
         /\ delivered' \in Seq(Delivery)
         /\ heard' \subseteq Nat
<1>1. f.seq \in Nat
  BY DEF Frame
<1>2. AckFor(f) \in Frame /\ Packet("HeartbeatAck", f.seq) \in Frame
  BY <1>1, PacketIsFrame DEF AckFor, MessageType
<1>3. starts \in Nat
  BY DEF ServiceTypes, ReceiverTypeOK
<1>4. [process |-> starts, frame |-> f] \in Delivery
  BY <1>3 DEF Delivery
<1>5. \A r \in Delivery : Append(delivered, r) \in Seq(Delivery)
  BY DEF ServiceTypes, ReceiverTypeOK
<1> QED
  BY <1>1, <1>2, <1>4, <1>5
     DEF HandleData, HandleHeartbeat, Remembered, ServiceTypes, ReceiverTypeOK

LEMMA ExitTyped ==
  ASSUME ServiceTypes, NEW pc \in {"down", "exited", "killed"},
         receiver_pc' = pc, client_fd' = 0,
         NEW s \in SockState, Die(s, "rcv", {"rcv"}),
         UNCHANGED <<reply, processed_sequences, starts, delivered, heard, clientVars>>
  PROVE  ServiceTypes'
<1>1. /\ sock' \in SockState
      /\ backlog' \in [Listeners -> Seq(Conns)]
      /\ listening' \in [Listeners -> BOOLEAN]
  <2>1. "rcv" \in Listeners
    BY DEF Listeners
  <2> QED
    BY <2>1, DieType DEF ServiceTypes
<1>2. ReceiverTypeOK'
  <2>1. client_fd' \in 0 .. MaxConn /\ receiver_pc' \in ReceiverPc
    BY MaxConnAssumption DEF ReceiverPc
  <2> QED
    BY <2>1 DEF ServiceTypes, ReceiverTypeOK
<1> QED
  BY <1>1, <1>2 DEF ServiceTypes, clientVars

(* The end of the process by an exception: its sockets are as they were,   *)
(* or the packet that caused it has been taken.                            *)
ProcessEnds ==
  \E s \in SockState, pc \in {"exited", "killed"} :
    /\ \A e \in Ends : s[e].open = sock[e].open
    /\ ReceiverExit(s, pc)

(* What comes of a step in which the process may end.                      *)
LEMMA ReadOutcome ==
  ASSUME ServiceTypes, ReceiverRead, NEW f, f = Head(sock[ReceiverEnd].buf)
  PROVE  \/ f.type = "Data" /\ HandleData(f)
         \/ f.type = "Heartbeat" /\ HandleHeartbeat(f)
         \/ ProcessEnds
<1>1. receiver_pc = "recv" /\ sock[ReceiverEnd].buf # <<>> /\ sock \in SockState
  BY DEF ReceiverRead, ServiceTypes
<1>2. ReceiverEnd \in Ends
  BY <1>1, ReceiverEndIsEnd
<1>3. /\ TakeHead(sock, ReceiverEnd) \in SockState
      /\ \A e \in Ends : TakeHead(sock, ReceiverEnd)[e].open = sock[e].open
  <2>1. sock \in [Ends -> SocketOf(Frame)]
    BY <1>1 DEF SockState, SockOf
  <2>2. \A e \in Ends : TakeHead(sock, ReceiverEnd)[e].open = sock[e].open
    BY <2>1 DEF TakeHead, SocketOf
  <2> QED
    BY <1>1, <1>2, <2>2, TakeHeadType
<1> QED
  BY <1>3 DEF ReceiverRead, ProcessEnds

LEMMA FailureEnds ==
  ASSUME ServiceTypes, ReceiverExit(sock, "exited") \/ ReceiverExit(sock, "killed")
  PROVE  ProcessEnds
BY DEF ProcessEnds, ServiceTypes

LEMMA ReceiverTyped ==
  ASSUME ServiceTypes, ReceiverNext, UNCHANGED clientVars
  PROVE  ServiceTypes'
<1>0. /\ sock \in SockState /\ backlog \in [Listeners -> Seq(Conns)]
      /\ listening \in [Listeners -> BOOLEAN] /\ ReceiverTypeOK
      /\ "rcv" \in Listeners
  BY DEF ServiceTypes, Listeners
<1>1. ASSUME /\ sock' \in SockState /\ backlog' \in [Listeners -> Seq(Conns)]
             /\ listening' \in [Listeners -> BOOLEAN] /\ ReceiverTypeOK'
      PROVE  ServiceTypes'
  BY <1>1 DEF ServiceTypes, clientVars
<1>2. CASE ReceiverStart
  <2>1. starts' \in 0 .. MaxStarts
    <3>1. starts \in Nat /\ starts < MaxStarts /\ starts' = starts + 1
      BY <1>0, <1>2 DEF ReceiverStart, ReceiverTypeOK
    <3> QED
      BY <3>1, ReceiverAssumption
  <2> QED
    BY <1>0, <1>1, <1>2, <2>1 DEF ReceiverStart, ReceiverTypeOK, ReceiverPc
<1>3. CASE ReceiverCrash
  BY <1>0, <1>3, ExitTyped DEF ReceiverCrash
<1>4. CASE ReceiverAccept
  <2>1. Waiting \in Seq(Conns) /\ Waiting # <<>>
    BY <1>0, <1>4 DEF ReceiverAccept, Waiting
  <2>2. Head(Waiting) \in Conns /\ Tail(Waiting) \in Seq(Conns)
    BY <2>1
  <2>3. client_fd' \in Conns /\ Conns \subseteq 0 .. MaxConn
    BY <1>4, <2>2, MaxConnAssumption DEF ReceiverAccept, Waiting, Conns
  <2>4. backlog' \in [Listeners -> Seq(Conns)]
    BY <1>0, <1>4, <2>2 DEF ReceiverAccept, Waiting
  <2> QED
    BY <1>0, <1>1, <1>4, <2>3, <2>4 DEF ReceiverAccept, ReceiverTypeOK, ReceiverPc
<1>5. CASE ReceiverRead
  <2>1. receiver_pc = "recv" /\ sock[ReceiverEnd].buf # <<>>
    BY <1>5 DEF ReceiverRead
  <2> DEFINE f == Head(sock[ReceiverEnd].buf)
  <2>2. ReceiverEnd \in Ends /\ f \in Frame /\ TakeHead(sock, ReceiverEnd) \in SockState
    BY <1>0, <2>1, ReceiverEndIsEnd, TakeHeadType
  <2>3. starts' = starts
    BY <1>5 DEF ReceiverRead
  <2>4. HandleData(f) \/ HandleHeartbeat(f) \/ ProcessEnds
    BY <1>5, ReadOutcome
  <2>5. CASE ProcessEnds
    BY <2>3, <2>5, ExitTyped DEF ProcessEnds, ReceiverExit
  <2>6. CASE HandleData(f) \/ HandleHeartbeat(f)
    <3>1. sock' = TakeHead(sock, ReceiverEnd) /\ UNCHANGED <<backlog, listening>>
      BY <2>6 DEF HandleData, HandleHeartbeat
    <3>2. /\ reply' \in Frame /\ receiver_pc' = "reply"
          /\ client_fd' = client_fd
          /\ processed_sequences' \subseteq Nat
          /\ delivered' \in Seq(Delivery)
          /\ heard' \subseteq Nat
      BY <2>2, <2>6, HandleTyped
    <3>3. ReceiverTypeOK'
      BY <1>0, <2>1, <2>3, <3>2 DEF ReceiverTypeOK, ReceiverPc
    <3> QED
      BY <1>0, <1>1, <2>2, <3>1, <3>3
  <2> QED
    BY <2>4, <2>5, <2>6
<1>6. CASE ReceiverEOF
  <2>1. sock' \in SockState
    BY <1>0, <1>6, CloseFdType DEF ReceiverEOF, Released
  <2>2. 0 \in 0 .. MaxConn
    BY MaxConnAssumption
  <2> QED
    BY <1>0, <1>1, <1>6, <2>1, <2>2 DEF ReceiverEOF, ReceiverTypeOK, ReceiverPc
<1>7. CASE ReceiverRecvFailed
  BY <1>0, <1>7, ExitTyped DEF ReceiverRecvFailed, ReceiverExit
<1>8. CASE ReceiverReply
  <2>1. receiver_pc = "reply" /\ starts' = starts
    BY <1>8 DEF ReceiverReply
  <2>2. CASE ReceiverExit(sock, "exited") \/ ReceiverExit(sock, "killed")
    BY <1>0, <2>1, <2>2, ExitTyped DEF ReceiverExit
  <2>3. CASE ~(ReceiverExit(sock, "exited") \/ ReceiverExit(sock, "killed"))
    <3>1. /\ sock' = Put(sock, ReceiverEnd, reply) /\ receiver_pc' = "recv"
          /\ UNCHANGED <<client_fd, reply, processed_sequences, delivered, heard,
                         backlog, listening>>
      BY <1>8, <2>3 DEF ReceiverReply
    <3>2. sock' \in SockState
      BY <1>0, <2>1, <3>1, ReceiverEndIsEnd, PutType DEF ReceiverTypeOK
    <3> QED
      BY <1>0, <1>1, <2>1, <3>1, <3>2 DEF ReceiverTypeOK, ReceiverPc
  <2> QED
    BY <2>2, <2>3
<1> QED
  BY <1>2, <1>3, <1>4, <1>5, <1>6, <1>7, <1>8 DEF ReceiverNext, ReceiverRun

LEMMA ClientTyped ==
  ASSUME ServiceTypes, ClientStep
  PROVE  ServiceTypes'
<1>0. /\ sock \in SockState /\ backlog \in [Listeners -> Seq(Conns)]
      /\ listening \in [Listeners -> BOOLEAN] /\ ReceiverTypeOK
      /\ client \in [Conns -> {"new", "open", "shut", "gone"}]
      /\ requests \in [Conns -> Seq(Requests)]
      /\ answers \in [Conns -> Seq(Frame)]
      /\ offenders \subseteq Conns
  BY DEF ServiceTypes
<1>1. ReceiverTypeOK'
  BY <1>0 DEF ClientStep, receiverVars, ReceiverTypeOK
<1>2. PICK c \in Conns :
        ClientConnect(c) \/ ClientSend(c) \/ ClientRead(c) \/ ClientShut(c) \/ ClientClose(c)
  BY DEF ClientStep
<1>3. ServerEnd(c) \in Ends /\ ClientEnd(c) \in Ends
  BY EndFacts
<1>4. CASE ClientConnect(c)
  <2>1. "rcv" \in Listeners
    BY DEF Listeners
  <2>2. sock' \in SockState /\ backlog' \in [Listeners -> Seq(Conns)]
    BY <1>0, <1>4, <2>1, EstablishType DEF ClientConnect
  <2> QED
    BY <1>0, <1>1, <1>4, <2>2 DEF ClientConnect, ServiceTypes
<1>5. CASE ClientSend(c)
  <2>1. PICK f \in Requests :
          /\ sock' = Put(sock, ClientEnd(c), f)
          /\ requests' = [requests EXCEPT ![c] = Append(@, f)]
          /\ offenders' \subseteq offenders \cup {c}
    BY <1>5 DEF ClientSend
  <2>2. f \in Frame
    BY ServiceAssumption
  <2>3. sock' \in SockState
    BY <1>0, <1>3, <2>1, <2>2, PutType
  <2>4. requests' \in [Conns -> Seq(Requests)]
    BY <1>0, <2>1
  <2> QED
    BY <1>0, <1>1, <1>5, <2>1, <2>3, <2>4 DEF ClientSend, ServiceTypes
<1>6. CASE ClientRead(c)
  <2>1. Head(sock[ClientEnd(c)].buf) \in Frame /\ sock' \in SockState
    BY <1>0, <1>3, <1>6, TakeHeadType DEF ClientRead
  <2>2. answers' \in [Conns -> Seq(Frame)]
    BY <1>0, <1>6, <2>1 DEF ClientRead
  <2> QED
    BY <1>0, <1>1, <1>6, <2>1, <2>2 DEF ClientRead, ServiceTypes
<1>7. CASE ClientShut(c)
  <2>1. sock' \in SockState
    <3> DEFINE e == ServerEnd(c)
    <3>1. e \in Ends /\ sock \in [Ends -> SocketOf(Frame)]
      BY <1>0, <1>3 DEF SockState, SockOf
    <3>2. [sock[e] EXCEPT !.fin = TRUE] \in SocketOf(Frame)
      <4>1. sock[e] \in SocketOf(Frame)
        BY <3>1
      <4> HIDE DEF e
      <4> QED
        BY <4>1 DEF SocketOf
    <3>3. sock' = sock \/ sock' = [sock EXCEPT ![e] = [sock[e] EXCEPT !.fin = TRUE]]
      BY <1>7 DEF ClientShut
    <3> HIDE DEF e
    <3> QED
      BY <3>1, <3>2, <3>3 DEF SockState, SockOf
  <2> QED
    BY <1>0, <1>1, <1>7, <2>1 DEF ClientShut, ServiceTypes
<1>8. CASE ClientClose(c)
  <2>1. sock' \in SockState
    BY <1>0, <1>8, CloseFdType DEF ClientClose
  <2> QED
    BY <1>0, <1>1, <1>8, <2>1 DEF ClientClose, ServiceTypes
<1> QED
  BY <1>2, <1>4, <1>5, <1>6, <1>7, <1>8

LEMMA TypesKept == ServiceSpec => []ServiceTypes
<1>1. ServiceInit => ServiceTypes
  <2> SUFFICES ASSUME ServiceInit PROVE ServiceTypes
    OBVIOUS
  <2>1. sock \in SockState
    <3>1. Closed \in SocketOf(Frame)
      BY DEF Closed, SocketOf
    <3> QED
      BY <3>1 DEF ServiceInit, NetInit, SockState, SockOf
  <2>2. 0 \in 0 .. MaxConn /\ 0 \in 0 .. MaxStarts
    BY MaxConnAssumption, ReceiverAssumption
  <2> QED
    BY <2>1, <2>2 DEF ServiceInit, NetInit, ReceiverInit, ServiceTypes,
       ReceiverTypeOK, ReceiverPc
<1>2. ServiceTypes /\ [ServiceNext]_serviceVars => ServiceTypes'
  <2> SUFFICES ASSUME ServiceTypes, [ServiceNext]_serviceVars PROVE ServiceTypes'
    OBVIOUS
  <2>1. CASE UNCHANGED serviceVars
    BY <2>1 DEF serviceVars, netVars, receiverVars, clientVars, ServiceTypes,
       ReceiverTypeOK
  <2> QED
    BY <2>1, ReceiverTyped, ClientTyped DEF ServiceNext
<1> QED
  BY <1>1, <1>2, PTL DEF ServiceSpec

-----------------------------------------------------------------------------
(* Places are kept.                                                        *)

(* How the receiver's process ends: all its ends are closed, the clients   *)
(* keep theirs with what is in them.                                       *)
LEMMA AllServersClose ==
  ASSUME ServiceTypes, NEW s \in SockState, Die(s, "rcv", {"rcv"}),
         \A e \in Ends : s[e].open = sock[e].open
  PROVE  /\ \A c \in Conns :
              /\ ~AtServer(c).open'
              /\ AtClient(c).open' = AtClient(c).open
         /\ Waiting' = <<>>
<1> DEFINE E == {e \in Ends : e[1] \in {"rcv"}}
<1>1. PICK A : sock' = Close(s, E, A)
  BY DEF Die
<1>2. Waiting' = <<>>
  <2>1. "rcv" \in Listeners
    BY DEF Listeners
  <2> QED
    BY <2>1 DEF Die, Waiting, ServiceTypes
<1>3. ASSUME NEW c \in Conns
      PROVE  ~AtServer(c).open' /\ AtClient(c).open' = AtClient(c).open
  <2>1. ServerEnd(c) \in E /\ ClientEnd(c) \notin E
        /\ ServerEnd(c) \in Ends /\ ClientEnd(c) \in Ends
    BY EndFacts DEF ServerEnd, ClientEnd
  <2> HIDE DEF E
  <2>2. sock'[ServerEnd(c)] = Closed /\ sock'[ClientEnd(c)].open = s[ClientEnd(c)].open
    BY <1>1, <2>1, CloseEnd
  <2> QED
    BY <2>1, <2>2 DEF AtServer, AtClient, Closed
<1> QED
  BY <1>2, <1>3

(* The same in one place for the actions that close no end.                *)
LEMMA PlaceSame ==
  ASSUME PlaceInv,
         \A c \in Conns :
           /\ (AtServer(c)'.open <=> AtServer(c).open)
           /\ (AtClient(c)'.open <=> AtClient(c).open)
           /\ AtServer(c).open => (AtClient(c)'.rst <=> AtClient(c).rst)
           /\ client[c] \in Connected <=> client'[c] \in Connected
           /\ client'[c] = "new" =>
                client[c] = "new" /\ requests'[c] = requests[c] /\ answers'[c] = answers[c],
         UNCHANGED <<client_fd, backlog>>,
         receiver_pc' \in {"recv", "reply"} => receiver_pc \in {"recv", "reply"},
         ServiceTypes
  PROVE  PlaceInv'
<1>1. Waiting' = Waiting /\ \A i \in DOMAIN Waiting : Waiting[i] \in Conns
  <2>1. Waiting \in Seq(Conns)
    BY DEF ServiceTypes, Waiting, Listeners
  <2> QED
    BY <2>1 DEF Waiting
<1>2. receiver_pc \in {"recv", "reply"} => client_fd \in Conns
  BY DEF ServiceTypes, ReceiverTypeOK
<1> QED
  BY <1>1, <1>2 DEF PlaceInv, Placed, QueueInv

LEMMA ExitPlaced ==
  ASSUME ServiceTypes, PlaceInv, receiver_pc' \in {"down", "exited", "killed"},
         client_fd' = 0, NEW s \in SockState, Die(s, "rcv", {"rcv"}),
         \A e \in Ends : s[e].open = sock[e].open, UNCHANGED clientVars
  PROVE  PlaceInv'
<1>1. \A c \in Conns : c # 0
  BY DEF Conns
<1> QED
  BY <1>1, AllServersClose DEF PlaceInv, Placed, QueueInv, clientVars

LEMMA ReceiverPlaced ==
  ASSUME ServiceTypes, PlaceInv, ReceiverNext, UNCHANGED clientVars
  PROVE  PlaceInv'
<1>0. /\ sock \in SockState /\ Waiting \in Seq(Conns) /\ "rcv" \in Listeners
      /\ backlog \in [Listeners -> Seq(Conns)]
      /\ \A c \in Conns : c # 0
  BY DEF ServiceTypes, Waiting, Listeners, Conns
<1>1. CASE ReceiverStart
  BY <1>1, PlaceSame DEF ReceiverStart, clientVars, AtServer, AtClient
<1>2. CASE ReceiverCrash \/ ProcessEnds
  BY <1>0, <1>2, ExitPlaced DEF ReceiverCrash, ProcessEnds, ReceiverExit
<1>3. CASE ReceiverAccept
  <2>1. /\ Waiting # <<>> /\ client_fd' = Head(Waiting) /\ Waiting' = Tail(Waiting)
        /\ UNCHANGED sock
    BY <1>0, <1>3 DEF ReceiverAccept, Waiting
  <2>2. /\ 1 \in DOMAIN Waiting /\ client_fd' = Waiting[1] /\ client_fd' \in Conns
        /\ \A i \in DOMAIN Waiting' :
             /\ i + 1 \in DOMAIN Waiting /\ i + 1 # 1
             /\ Waiting'[i] = Waiting[i + 1]
             /\ \A j \in DOMAIN Waiting' : i + 1 = j + 1 => i = j
    BY <1>0, <2>1
  <2> HIDE DEF Waiting
  <2> QED
    BY <2>1, <2>2 DEF PlaceInv, Placed, QueueInv, AtServer, AtClient, clientVars
<1>4. CASE ReceiverRead /\ ~ProcessEnds
  <2>1. receiver_pc = "recv" /\ ReceiverEnd \in Ends
    BY <1>4, ReceiverEndIsEnd DEF ReceiverRead
  <2>2. UNCHANGED <<client_fd, backlog>> /\ sock' = TakeHead(sock, ReceiverEnd)
    BY <1>4, ReadOutcome DEF HandleData, HandleHeartbeat
  <2>3. \A e \in Ends : sock'[e].open = sock[e].open /\ sock'[e].rst = sock[e].rst
    BY <1>0, <2>1, <2>2 DEF TakeHead, SockState, SockOf, SocketOf
  <2> QED
    BY <2>1, <2>2, <2>3, EndFacts, PlaceSame DEF clientVars, AtServer, AtClient
<1>5. CASE ReceiverEOF
  <2>1. /\ receiver_pc = "recv" /\ receiver_pc' = "accept" /\ client_fd' = 0
        /\ sock' = CloseFd(sock, {ServerEnd(client_fd)}) /\ client_fd \in Conns
        /\ Waiting' = Waiting
    BY <1>5, ReceiverEndIsEnd DEF ReceiverEOF, Released, Waiting
  <2>2. ASSUME NEW c \in Conns
        PROVE  /\ sock'[ClientEnd(c)].open = sock[ClientEnd(c)].open
               /\ c # client_fd =>
                    /\ sock'[ServerEnd(c)] = sock[ServerEnd(c)]
                    /\ sock'[ClientEnd(c)] = sock[ClientEnd(c)]
               /\ c = client_fd => sock'[ServerEnd(c)] = Closed
    <3> DEFINE E == {ServerEnd(client_fd)}
    <3>1. /\ ClientEnd(c) \notin E
          /\ ServerEnd(c) \in Ends /\ ClientEnd(c) \in Ends
          /\ c # client_fd => /\ ServerEnd(c) \notin E
                              /\ Peer(ClientEnd(c)) \notin E
                              /\ Peer(ServerEnd(c)) \notin E
          /\ c = client_fd => ServerEnd(c) \in E
      BY <2>1, EndFacts
    <3>2. sock' = Close(sock, E, {})
      BY <2>1 DEF CloseFd
    <3> HIDE DEF E
    <3> QED
      BY <1>0, <3>1, <3>2, CloseEnd
  <2>3. \A i \in DOMAIN Waiting : Waiting[i] \in Conns
    BY <1>0
  <2> HIDE DEF Waiting
  <2>4. ASSUME NEW c \in Conns
        PROVE  /\ AtServer(c)'.open => AtServer(c).open
               /\ c # client_fd => (AtServer(c)'.open <=> AtServer(c).open)
               /\ AtServer(c)'.open => (AtClient(c)'.rst <=> AtClient(c).rst)
               /\ (AtClient(c)'.open <=> AtClient(c).open)
    <3>1. CASE c = client_fd
      <4>1. AtServer(c)'.open = FALSE /\ (AtClient(c)'.open <=> AtClient(c).open)
        BY <2>2, <3>1 DEF AtServer, AtClient, Closed
      <4> QED
        BY <3>1, <4>1
    <3>2. CASE c # client_fd
      BY <2>2, <3>2 DEF AtServer, AtClient
    <3> QED
      BY <3>1, <3>2
  <2>5. QueueInv'
    BY <1>0, <2>1, <2>3, <2>4 DEF PlaceInv, QueueInv
  <2>6. ASSUME NEW c \in Conns PROVE Placed(c)'
    BY <1>0, <2>1, <2>4 DEF PlaceInv, Placed, clientVars
  <2> QED
    BY <2>1, <2>5, <2>6 DEF PlaceInv
<1>6. CASE ReceiverReply /\ ~ProcessEnds
  <2>1. receiver_pc = "reply" /\ client_fd \in Conns /\ ReceiverEnd = ServerEnd(client_fd)
    BY <1>6, ReceiverEndIsEnd DEF ReceiverReply
  <2>2. UNCHANGED <<client_fd, backlog>> /\ sock' = Put(sock, ReceiverEnd, reply)
    BY <1>6, FailureEnds DEF ReceiverReply
  <2>3. ASSUME NEW c \in Conns
        PROVE  /\ sock'[ServerEnd(c)].open = sock[ServerEnd(c)].open
               /\ sock'[ClientEnd(c)].open = sock[ClientEnd(c)].open
               /\ sock'[ClientEnd(c)].rst = sock[ClientEnd(c)].rst
    <3>1. /\ ServerEnd(c) \in Ends /\ ClientEnd(c) \in Ends
          /\ ReceiverEnd \in Ends /\ ReceiverEnd # ClientEnd(c)
          /\ Peer(ReceiverEnd) \in Ends
      BY <2>1, EndFacts
    <3> QED
      BY <1>0, <2>2, <3>1 DEF Put, SockState, SockOf, SocketOf
  <2> QED
    BY <2>1, <2>2, <2>3, PlaceSame DEF clientVars, AtServer, AtClient
<1> QED
  BY <1>1, <1>2, <1>3, <1>4, <1>5, <1>6, FailureEnds
     DEF ReceiverNext, ReceiverRun, ReceiverRecvFailed

LEMMA ClientPlaced ==
  ASSUME ServiceTypes, PlaceInv, ClientStep
  PROVE  PlaceInv'
<1>0. /\ sock \in SockState /\ Waiting \in Seq(Conns) /\ "rcv" \in Listeners
      /\ backlog \in [Listeners -> Seq(Conns)]
      /\ client \in [Conns -> {"new", "open", "shut", "gone"}]
      /\ requests \in [Conns -> Seq(Requests)]
      /\ answers \in [Conns -> Seq(Frame)]
      /\ UNCHANGED <<receiver_pc, client_fd>>
      /\ receiver_pc \in {"recv", "reply"} => client_fd \in Conns
  BY DEF ServiceTypes, Waiting, Listeners, ClientStep, receiverVars, ReceiverTypeOK
<1>1. PICK c \in Conns :
        ClientConnect(c) \/ ClientSend(c) \/ ClientRead(c) \/ ClientShut(c) \/ ClientClose(c)
  BY DEF ClientStep
<1>2. /\ ServerEnd(c) \in Ends /\ ClientEnd(c) \in Ends
      /\ Peer(ClientEnd(c)) = ServerEnd(c)
      /\ \A d \in Conns : /\ ServerEnd(d) \in Ends /\ ClientEnd(d) \in Ends
                          /\ ServerEnd(d) # ClientEnd(c)
                          /\ ServerEnd(c) # ClientEnd(d)
                          /\ d # c => /\ ServerEnd(d) # ServerEnd(c)
                                      /\ ClientEnd(d) # ClientEnd(c)
  BY EndFacts
<1>3. CASE ClientConnect(c)
  <2>1. /\ client[c] = "new" /\ client' = [client EXCEPT ![c] = "open"]
        /\ sock' = [sock EXCEPT ![ClientEnd(c)] = Fresh, ![ServerEnd(c)] = Fresh]
        /\ Waiting' = Append(Waiting, c)
        /\ UNCHANGED <<requests, answers>>
    BY <1>0, <1>3 DEF ClientConnect, Establish, ClientEnd, ServerEnd, Waiting
  <2>2. ASSUME NEW d \in Conns
        PROVE  /\ d = c => /\ sock'[ServerEnd(d)] = Fresh /\ sock'[ClientEnd(d)] = Fresh
                           /\ client'[d] = "open"
               /\ d # c => /\ sock'[ServerEnd(d)] = sock[ServerEnd(d)]
                           /\ sock'[ClientEnd(d)] = sock[ClientEnd(d)]
                           /\ client'[d] = client[d]
    BY <1>0, <1>2, <2>1 DEF SockState, SockOf
  <2>3. /\ \A i \in DOMAIN Waiting' :
             \/ i \in DOMAIN Waiting /\ Waiting'[i] = Waiting[i]
             \/ i = Len(Waiting) + 1 /\ Waiting'[i] = c
        /\ \A i \in DOMAIN Waiting : Waiting[i] \in Conns /\ Waiting[i] # c
        /\ client_fd # c
    <3>1. Placed(c)
      BY DEF PlaceInv
    <3>2. (\A i \in DOMAIN Waiting : Waiting[i] # c) /\ client_fd # c
      BY <2>1, <3>1 DEF Placed
    <3> DEFINE w == Waiting
    <3>3. w \in Seq(Conns) /\ Waiting' = Append(w, c)
      BY <1>0, <2>1
    <3> HIDE DEF w
    <3>4. /\ \A i \in DOMAIN Append(w, c) :
               \/ i \in DOMAIN w /\ Append(w, c)[i] = w[i]
               \/ i = Len(w) + 1 /\ Append(w, c)[i] = c
          /\ \A i \in DOMAIN w : w[i] \in Conns
      BY <3>3
    <3> QED
      BY <3>2, <3>3, <3>4 DEF w
  <2> HIDE DEF Waiting
  <2>4. ASSUME NEW d \in Conns
        PROVE  /\ d = c => AtServer(d)'.open /\ AtClient(d)'.open /\ ~AtClient(d)'.rst
               /\ d # c => AtServer(d)' = AtServer(d) /\ AtClient(d)' = AtClient(d)
    BY <2>2 DEF AtServer, AtClient, Fresh
  <2>5. QueueInv'
    <3>1. (\A i \in DOMAIN Waiting : AtServer(Waiting[i]).open)'
      BY <2>2, <2>3 DEF PlaceInv, QueueInv, AtServer, Fresh
    <3>2. (\A i \in DOMAIN Waiting : Waiting[i] # client_fd)'
      BY <1>0, <2>3 DEF PlaceInv, QueueInv
    <3>3. (\A i, j \in DOMAIN Waiting : Waiting[i] = Waiting[j] => i = j)'
      BY <2>3 DEF PlaceInv, QueueInv
    <3> QED
      BY <3>1, <3>2, <3>3 DEF QueueInv
  <2>6. receiver_pc' \in {"recv", "reply"} => AtServer(client_fd)'.open
    BY <1>0, <2>3, <2>4 DEF PlaceInv, Placed, QueueInv
  <2>7. ASSUME NEW d \in Conns
        PROVE  Placed(d)'
    <3>1. CASE d = c
      BY <2>2, <2>4, <3>1 DEF Placed, Connected
    <3>2. CASE d # c
      <4>1. Placed(d)
        BY DEF PlaceInv
      <4>2. client_fd' = client_fd
        BY <1>0 DEF receiverVars
      <4>3. /\ AtServer(d)' = AtServer(d) /\ AtClient(d)' = AtClient(d)
            /\ client'[d] = client[d]
            /\ requests'[d] = requests[d] /\ answers'[d] = answers[d]
        BY <2>1, <2>2, <2>4, <3>2
      <4>4. (\A i \in DOMAIN Waiting : Waiting[i] # d) =>
              (\A i \in DOMAIN Waiting : Waiting[i] # d)'
        BY <2>3, <3>2
      <4> QED
        BY <4>1, <4>2, <4>3, <4>4 DEF Placed
    <3> QED
      BY <3>1, <3>2
  <2> QED
    BY <2>5, <2>6, <2>7 DEF PlaceInv
<1>4. CASE ClientSend(c)
  <2>1. PICK f \in Requests : sock' = Put(sock, ClientEnd(c), f)
    BY <1>4 DEF ClientSend
  <2>2. ASSUME NEW d \in Conns
        PROVE  /\ sock'[ServerEnd(d)].open = sock[ServerEnd(d)].open
               /\ sock'[ClientEnd(d)].open = sock[ClientEnd(d)].open
               /\ sock[ServerEnd(d)].open =>
                    sock'[ClientEnd(d)].rst = sock[ClientEnd(d)].rst
    BY <1>0, <1>2, <2>1 DEF Put, SockState, SockOf, SocketOf
  <2>3. \A d \in Conns : client[d] = "new" => requests'[d] = requests[d]
    BY <1>0, <1>4 DEF ClientSend
  <2> QED
    BY <1>0, <1>4, <2>2, <2>3, PlaceSame DEF ClientSend, AtServer, AtClient
<1>5. CASE ClientRead(c)
  <2>1. \A e \in Ends : sock'[e].open = sock[e].open /\ sock'[e].rst = sock[e].rst
    BY <1>0, <1>2, <1>5 DEF ClientRead, TakeHead, SockState, SockOf, SocketOf
  <2>2. \A d \in Conns : client[d] = "new" => answers'[d] = answers[d]
    BY <1>0, <1>5 DEF ClientRead
  <2> QED
    BY <1>0, <1>2, <1>5, <2>1, <2>2, PlaceSame DEF ClientRead, AtServer, AtClient
<1>6. CASE ClientShut(c)
  <2>1. \A e \in Ends : sock'[e].open = sock[e].open /\ sock'[e].rst = sock[e].rst
    BY <1>0, <1>2, <1>6 DEF ClientShut, SockState, SockOf, SocketOf
  <2>2. \A d \in Conns : /\ client[d] \in Connected <=> client'[d] \in Connected
                         /\ client'[d] = "new" => client[d] = "new"
    BY <1>0, <1>6 DEF ClientShut, Connected
  <2>3. UNCHANGED <<requests, answers, client_fd, backlog>>
    BY <1>0, <1>6 DEF ClientShut
  <2>4. \A d \in Conns :
          /\ (AtServer(d)'.open <=> AtServer(d).open)
          /\ (AtClient(d)'.open <=> AtClient(d).open)
          /\ (AtClient(d)'.rst <=> AtClient(d).rst)
    BY <1>2, <2>1 DEF AtServer, AtClient
  <2>5. receiver_pc' \in {"recv", "reply"} => receiver_pc \in {"recv", "reply"}
    BY <1>0
  <2>6. \A d \in Conns :
          /\ (AtServer(d)'.open <=> AtServer(d).open)
          /\ (AtClient(d)'.open <=> AtClient(d).open)
          /\ AtServer(d).open => (AtClient(d)'.rst <=> AtClient(d).rst)
          /\ client[d] \in Connected <=> client'[d] \in Connected
          /\ client'[d] = "new" =>
               client[d] = "new" /\ requests'[d] = requests[d] /\ answers'[d] = answers[d]
    BY <2>2, <2>3, <2>4
  <2> QED
    BY <2>3, <2>5, <2>6, PlaceSame
<1>7. CASE ClientClose(c)
  <2> DEFINE E == {ClientEnd(c)}
  <2>1. /\ sock' = Close(sock, E, {}) /\ client' = [client EXCEPT ![c] = "gone"]
        /\ UNCHANGED <<requests, answers>> /\ Waiting' = Waiting
    BY <1>7 DEF ClientClose, CloseFd, Waiting
  <2>2. ASSUME NEW d \in Conns
        PROVE  /\ sock'[ServerEnd(d)].open = sock[ServerEnd(d)].open
               /\ d = c => sock'[ClientEnd(d)] = Closed
               /\ d # c => sock'[ClientEnd(d)] = sock[ClientEnd(d)]
    <3>1. /\ ServerEnd(d) \in Ends /\ ClientEnd(d) \in Ends
          /\ ServerEnd(d) \notin E
          /\ d = c => ClientEnd(d) \in E
          /\ d # c => ClientEnd(d) \notin E /\ Peer(ClientEnd(d)) \notin E
      BY <1>2, EndFacts
    <3> HIDE DEF E
    <3> QED
      BY <1>0, <2>1, <3>1, CloseEnd
  <2>3. \A i \in DOMAIN Waiting : Waiting[i] \in Conns
    BY <1>0
  <2> HIDE DEF Waiting
  <2>4. ASSUME NEW d \in Conns
        PROVE  /\ (AtServer(d)'.open <=> AtServer(d).open)
               /\ d = c => ~AtClient(d)'.open
               /\ d # c => AtClient(d)' = AtClient(d)
    BY <2>2 DEF AtServer, AtClient, Closed
  <2>5. \A d \in Conns : client'[d] = IF d = c THEN "gone" ELSE client[d]
    BY <1>0, <2>1
  <2> QED
    <3>1. QueueInv'
      BY <1>0, <2>1, <2>3, <2>4 DEF PlaceInv, QueueInv
    <3>2. ASSUME NEW d \in Conns PROVE Placed(d)'
      <4>1. CASE d = c
        <5>1. client'[d] = "gone" /\ AtClient(d)'.open = FALSE
          BY <2>2, <2>5, <4>1 DEF AtClient, Closed
        <5> QED
          BY <5>1 DEF Placed, Connected
      <4>2. CASE d # c
        <5>1. client'[d] = client[d] /\ sock'[ClientEnd(d)] = sock[ClientEnd(d)]
          BY <2>2, <2>5, <4>2
        <5>2. sock'[ServerEnd(d)].open <=> sock[ServerEnd(d)].open
          BY <2>2
        <5>3. Placed(d)
          BY DEF PlaceInv
        <5> QED
          BY <1>0, <2>1, <5>1, <5>2, <5>3 DEF Placed, AtServer, AtClient
      <4> QED
        BY <4>1, <4>2
    <3>3. receiver_pc' \in {"recv", "reply"} => AtServer(client_fd)'.open
      BY <1>0, <2>4 DEF PlaceInv
    <3> QED
      BY <1>0, <3>1, <3>2, <3>3 DEF PlaceInv
<1> QED
  BY <1>1, <1>3, <1>4, <1>5, <1>6, <1>7

-----------------------------------------------------------------------------
(* Requests, offences and answers are kept.                                *)

(* What a step does not touch.                                             *)
LEMMA ConnSame ==
  ASSUME NEW c \in Conns, ConnInv(c),
         sock'[ServerEnd(c)] = sock[ServerEnd(c)],
         sock'[ClientEnd(c)] = sock[ClientEnd(c)],
         client'[c] = client[c], requests'[c] = requests[c],
         answers'[c] = answers[c], c \notin offenders' => c \notin offenders,
         Replying(c)' <=> Replying(c), Replying(c) => reply' = reply
  PROVE  ConnInv(c)'
<1>1. RequestInv(c)'
  BY DEF ConnInv, RequestInv, AtServer, Taken
<1>2. OffenceInv(c)'
  BY DEF ConnInv, OffenceInv, AtServer, Outstanding, Replying, Connected
<1>3. AnswerInv(c)'
  BY DEF ConnInv, AnswerInv, AtServer, AtClient, Taken, Connected
<1> QED
  BY <1>1, <1>2, <1>3 DEF ConnInv

(* What is left when the receiver's end is closed.                         *)
LEMMA ConnClosed ==
  ASSUME NEW c \in Conns, ConnInv(c), ~AtServer(c)'.open,
         requests'[c] = requests[c], c \notin offenders' => c \notin offenders
  PROVE  ConnInv(c)'
BY DEF ConnInv, RequestInv, OffenceInv, AnswerInv

LEMMA ConnTypes ==
  ASSUME ServiceTypes, NEW c \in Conns
  PROVE  /\ AtServer(c).buf \in Seq(Frame) /\ AtClient(c).buf \in Seq(Frame)
         /\ requests[c] \in Seq(Requests) /\ answers[c] \in Seq(Frame)
         /\ AtServer(c) \in SocketOf(Frame) /\ AtClient(c) \in SocketOf(Frame)
<1>1. ServerEnd(c) \in Ends /\ ClientEnd(c) \in Ends
  BY EndFacts
<1> QED
  BY <1>1 DEF ServiceTypes, SockState, SockOf, SocketOf, AtServer, AtClient

(* The receiver takes the next request and is about to send its answer.    *)
LEMMA HandleConn ==
  ASSUME ServiceTypes, PlaceInv, receiver_pc = "recv", NEW c \in Conns,
         c = client_fd, ConnInv(c),
         AtServer(c).buf # <<>>, receiver_pc' = "reply", client_fd' = client_fd,
         sock' = TakeHead(sock, ServerEnd(c)),
         reply' = AnswerTo(Head(AtServer(c).buf)), UNCHANGED clientVars
  PROVE  ConnInv(c)'
<1> DEFINE B == AtServer(c).buf
           R == requests[c]
           n == Len(B)
<1>1. /\ AtServer(c)' = [AtServer(c) EXCEPT !.buf = Tail(B)]
      /\ AtClient(c)' = AtClient(c)
      /\ client'[c] = client[c] /\ requests'[c] = R /\ answers'[c] = answers[c]
      /\ offenders' = offenders
  <2>1. ServerEnd(c) \in Ends /\ ClientEnd(c) # ServerEnd(c)
    BY EndFacts
  <2> QED
    BY <2>1 DEF TakeHead, AtServer, AtClient, ServiceTypes, SockState, SockOf, clientVars
<1>2. AtServer(c).open
  BY DEF PlaceInv
<1>3. B \in Seq(Frame) /\ R \in Seq(Requests) /\ AtServer(c) \in SocketOf(Frame)
      /\ AtClient(c).buf \in Seq(Frame) /\ answers[c] \in Seq(Frame)
  BY ConnTypes
<1>4. /\ n \in Nat /\ n >= 1 /\ Len(Tail(B)) = n - 1 /\ Head(B) = B[1]
      /\ \A i \in 1 .. n - 1 : Tail(B)[i] = B[i + 1]
      /\ Len(R) \in Nat
  BY <1>3
<1>5. /\ AtServer(c)'.buf = Tail(B) /\ AtServer(c)'.open
      /\ AtServer(c)'.rst = AtServer(c).rst /\ AtServer(c)'.fin = AtServer(c).fin
  BY <1>1, <1>2, <1>3 DEF SocketOf
<1> HIDE DEF B, R, n
<1>6. Taken(c) = Len(R) - n /\ Taken(c)' = Taken(c) + 1
  <2>1. Taken(c) = Len(R) - n
    BY DEF Taken, AtServer, B, R, n
  <2>2. Taken(c)' = Len(R) - (n - 1)
    BY <1>1, <1>4, <1>5 DEF Taken, AtServer
  <2> QED
    BY <1>4, <2>1, <2>2
<1>7. n <= Len(R) /\ \A i \in 1 .. n : B[i] = R[Taken(c) + i]
  BY <1>2 DEF ConnInv, RequestInv, B, R, n
<1>8. RequestInv(c)'
  <2>1. \A i \in 1 .. n - 1 : Tail(B)[i] = R[Taken(c) + 1 + i]
    <3> TAKE i \in 1 .. n - 1
    <3>1. i + 1 \in 1 .. n /\ Taken(c) + (i + 1) = Taken(c) + 1 + i
      BY <1>4, <1>6
    <3> QED
      BY <1>4, <1>7, <3>1
  <2> QED
    BY <1>1, <1>4, <1>5, <1>6, <1>7, <2>1 DEF RequestInv
<1>9. OffenceInv(c)'
  <2>1. Outstanding(c) = n /\ Outstanding(c)' = n
    BY <1>4, <1>5 DEF Outstanding, AtServer, B, n
  <2> QED
    BY <1>1, <1>2, <1>5, <2>1 DEF ConnInv, OffenceInv, R
<1>10. AnswerInv(c)'
  <2>1. ~Replying(c) /\ Replying(c)'
    BY DEF Replying
  <2>2. reply' = AnswerTo(R[Taken(c) + 1])
    BY <1>4, <1>7 DEF B
  <2>3. Len(answers[c]) \in Nat /\ Len(AtClient(c).buf) \in Nat
    BY <1>3
  <2> SUFFICES ASSUME client[c] \in Connected PROVE AnswerInv(c)'
    BY <1>1 DEF AnswerInv
  <2>4. /\ Len(answers[c]) + Len(AtClient(c).buf) = Taken(c)
        /\ \A i \in 1 .. Len(answers[c]) : answers[c][i] = AnswerTo(R[i])
        /\ \A i \in 1 .. Len(AtClient(c).buf) :
             AtClient(c).buf[i] = AnswerTo(R[Len(answers[c]) + i])
    BY <1>2, <2>1, <2>3 DEF ConnInv, AnswerInv, R
  <2>5. reply' = AnswerTo(requests'[c][Taken(c)'])
    BY <1>1, <1>6, <2>2
  <2>6. Len(answers[c]) + Len(AtClient(c).buf) + 1 = Taken(c)'
    BY <1>6, <2>4
  <2> QED
    <3>1. AtClient(c)' = AtClient(c) /\ answers'[c] = answers[c] /\ requests'[c] = R
      BY <1>1
    <3>2. /\ Len(answers'[c]) + Len(AtClient(c)'.buf) + 1 = Taken(c)'
          /\ \A i \in 1 .. Len(answers'[c]) : answers'[c][i] = AnswerTo(requests'[c][i])
          /\ \A i \in 1 .. Len(AtClient(c)'.buf) :
               AtClient(c)'.buf[i] = AnswerTo(requests'[c][Len(answers'[c]) + i])
      BY <2>4, <2>6, <3>1
    <3> QED
      BY <2>1, <2>5, <3>2 DEF AnswerInv
<1> QED
  BY <1>8, <1>9, <1>10 DEF ConnInv

(* The answer goes out, or is lost because the client has gone.            *)
LEMMA ReplyConn ==
  ASSUME ServiceTypes, PlaceInv, receiver_pc = "reply", NEW c \in Conns,
         c = client_fd, ConnInv(c),
         receiver_pc' = "recv", client_fd' = client_fd,
         sock' = Put(sock, ServerEnd(c), reply), UNCHANGED clientVars
  PROVE  ConnInv(c)'
<1> DEFINE C == AtClient(c).buf
           A == answers[c]
           R == requests[c]
<1>1. client'[c] = client[c] /\ requests'[c] = R /\ answers'[c] = A
      /\ offenders' = offenders
  BY DEF clientVars
<1>2. /\ ServerEnd(c) \in Ends /\ ClientEnd(c) \in Ends
      /\ ClientEnd(c) # ServerEnd(c) /\ Peer(ServerEnd(c)) = ClientEnd(c)
  BY EndFacts
<1>3. /\ C \in Seq(Frame) /\ AtServer(c).buf \in Seq(Frame) /\ A \in Seq(Frame)
      /\ AtServer(c) \in SocketOf(Frame) /\ AtClient(c) \in SocketOf(Frame)
      /\ R \in Seq(Requests) /\ sock \in [Ends -> SocketOf(Frame)]
  BY ConnTypes DEF ServiceTypes, SockState, SockOf
<1>4. AtServer(c).open /\ Replying(c) /\ ~Replying(c)'
      /\ Outstanding(c) = Len(AtServer(c).buf) + 1
  BY DEF PlaceInv, Replying, Outstanding, AtServer
<1>5. Placed(c)
  BY DEF PlaceInv
<1>6. CASE AtClient(c).open
  <2>1. AtServer(c)' = AtServer(c) /\ AtClient(c)' = [AtClient(c) EXCEPT !.buf = Append(C, reply)]
    BY <1>2, <1>3, <1>6 DEF Put, AtServer, AtClient
  <2>2. AtClient(c)'.buf = Append(C, reply)
    BY <1>3, <2>1 DEF SocketOf
  <2>3. Taken(c)' = Taken(c) /\ Outstanding(c)' = Len(AtServer(c).buf)
    BY <1>1, <1>3, <2>1 DEF Taken, Outstanding, AtServer
  <2>4. RequestInv(c)'
    BY <1>1, <2>1, <2>3 DEF ConnInv, RequestInv
  <2>5. OffenceInv(c)'
    <3>1. Len(AtServer(c).buf) \in Nat
      BY <1>3
    <3>2. AtServer(c).rst => Outstanding(c)' = 0 \/ c \in offenders
      BY <1>4, <3>1 DEF ConnInv, OffenceInv
    <3>3. client[c] # "gone"
      BY <1>5, <1>6 DEF Placed, Connected
    <3> QED
      BY <1>1, <2>1, <3>2, <3>3 DEF ConnInv, OffenceInv
  <2>6. AnswerInv(c)'
    <3>1. client[c] \in Connected
      BY <1>5, <1>6 DEF Placed
    <3>2. /\ Len(A) + Len(C) + 1 = Taken(c) /\ reply = AnswerTo(R[Taken(c)])
          /\ \A i \in 1 .. Len(A) : A[i] = AnswerTo(R[i])
          /\ \A i \in 1 .. Len(C) : C[i] = AnswerTo(R[Len(A) + i])
      BY <1>4, <3>1 DEF ConnInv, AnswerInv
    <3>3. /\ Len(A) \in Nat /\ Len(C) \in Nat
          /\ Len(Append(C, reply)) = Len(C) + 1
          /\ \A i \in 1 .. Len(C) + 1 :
               Append(C, reply)[i] = IF i = Len(C) + 1 THEN reply ELSE C[i]
      BY <1>3
    <3> HIDE DEF A, C, R
    <3>4. \A i \in 1 .. Len(C) + 1 : Append(C, reply)[i] = AnswerTo(R[Len(A) + i])
      <4> TAKE i \in 1 .. Len(C) + 1
      <4>1. CASE i = Len(C) + 1
        <5>1. Len(A) + i = Taken(c)
          BY <3>2, <3>3, <4>1
        <5> QED
          BY <3>2, <3>3, <4>1, <5>1
      <4>2. CASE i # Len(C) + 1
        BY <3>2, <3>3, <4>2
      <4> QED
        BY <4>1, <4>2
    <3> QED
      BY <1>1, <1>4, <2>2, <2>3, <3>2, <3>3, <3>4 DEF AnswerInv
  <2> QED
    BY <2>4, <2>5, <2>6 DEF ConnInv
<1>7. CASE ~AtClient(c).open
  <2>1. client[c] = "gone"
    BY <1>4, <1>5, <1>7 DEF Placed, Connected, ServiceTypes
  <2>2. AtServer(c)' = [AtServer(c) EXCEPT !.rst = TRUE] /\ AtClient(c)' = AtClient(c)
    BY <1>2, <1>3, <1>7 DEF Put, AtServer, AtClient
  <2>3. /\ AtServer(c)'.buf = AtServer(c).buf /\ AtServer(c)'.fin = AtServer(c).fin
    BY <1>3, <2>2 DEF SocketOf
  <2>4. Taken(c)' = Taken(c) /\ Outstanding(c)' = Len(AtServer(c).buf)
    BY <1>1, <1>3, <2>3 DEF Taken, Outstanding, AtServer
  <2>5. RequestInv(c)'
    BY <1>1, <1>4, <2>3, <2>4 DEF ConnInv, RequestInv
  <2>6. OffenceInv(c)'
    <3>1. Len(AtServer(c).buf) \in Nat
      BY <1>3
    <3>2. c \notin offenders => Outstanding(c)' = 0
      BY <1>4, <2>1, <2>4, <3>1 DEF ConnInv, OffenceInv
    <3> QED
      BY <1>1, <1>4, <2>1, <2>3, <3>2 DEF ConnInv, OffenceInv, Connected
  <2>7. AnswerInv(c)'
    BY <1>1, <2>1 DEF AnswerInv, Connected
  <2> QED
    BY <2>5, <2>6, <2>7 DEF ConnInv
<1> QED
  BY <1>6, <1>7

LEMMA SendConn ==
  ASSUME ServiceTypes, PlaceInv, NEW c \in Conns, ConnInv(c), ClientSend(c),
         UNCHANGED receiverVars
  PROVE  ConnInv(c)'
<1> DEFINE B == AtServer(c).buf
           R == requests[c]
<1>1. PICK f \in Requests :
        /\ sock' = Put(sock, ClientEnd(c), f)
        /\ requests' = [requests EXCEPT ![c] = Append(@, f)]
        /\ offenders' = IF IsRequest(f) THEN offenders ELSE offenders \cup {c}
  BY DEF ClientSend
<1>2. /\ B \in Seq(Frame) /\ R \in Seq(Requests) /\ f \in Frame
      /\ AtServer(c) \in SocketOf(Frame) /\ AtClient(c) \in SocketOf(Frame)
      /\ requests \in [Conns -> Seq(Requests)] /\ sock \in [Ends -> SocketOf(Frame)]
  BY ConnTypes, ServiceAssumption DEF ServiceTypes, SockState, SockOf
<1>3. /\ requests'[c] = Append(R, f) /\ client[c] = "open" /\ client'[c] = "open"
      /\ answers'[c] = answers[c] /\ UNCHANGED <<receiver_pc, client_fd, reply>>
  BY <1>1, <1>2 DEF ClientSend, receiverVars
<1>4. /\ ServerEnd(c) \in Ends /\ ClientEnd(c) \in Ends
      /\ ClientEnd(c) # ServerEnd(c) /\ Peer(ClientEnd(c)) = ServerEnd(c)
  BY EndFacts
<1>5. /\ Len(R) \in Nat /\ Len(B) \in Nat
      /\ Len(Append(R, f)) = Len(R) + 1 /\ Len(Append(B, f)) = Len(B) + 1
      /\ \A i \in 1 .. Len(R) + 1 : Append(R, f)[i] = IF i = Len(R) + 1 THEN f ELSE R[i]
      /\ \A i \in 1 .. Len(B) + 1 : Append(B, f)[i] = IF i = Len(B) + 1 THEN f ELSE B[i]
  BY <1>2
<1>6. c \notin offenders' =>
        /\ c \notin offenders
        /\ \A i \in 1 .. Len(requests'[c]) : IsRequest(requests'[c][i])
  <2> SUFFICES ASSUME c \notin offenders'
               PROVE  /\ c \notin offenders
                      /\ \A i \in 1 .. Len(requests'[c]) : IsRequest(requests'[c][i])
    OBVIOUS
  <2>1. c \notin offenders /\ IsRequest(f)
    BY <1>1
  <2>2. \A i \in 1 .. Len(R) : IsRequest(R[i])
    BY <2>1 DEF ConnInv, OffenceInv
  <2> HIDE DEF R
  <2> QED
    BY <1>3, <1>5, <2>1, <2>2
<1>7. CASE ~AtServer(c).open
  <2>1. AtServer(c)' = AtServer(c)
    BY <1>1, <1>2, <1>4, <1>7 DEF Put, AtServer
  <2> QED
    BY <1>6, <1>7, <2>1 DEF ConnInv, RequestInv, OffenceInv, AnswerInv
<1>8. CASE AtServer(c).open
  <2>1. /\ AtServer(c)' = [AtServer(c) EXCEPT !.buf = Append(B, f)]
        /\ AtClient(c)' = AtClient(c)
    BY <1>1, <1>2, <1>4, <1>8 DEF Put, AtServer, AtClient
  <2>2. /\ AtServer(c)'.buf = Append(B, f) /\ AtServer(c)'.rst = AtServer(c).rst
        /\ AtServer(c)'.open
    BY <1>2, <1>8, <2>1 DEF SocketOf
  <2> HIDE DEF B, R
  <2>3. Taken(c) = Len(R) - Len(B) /\ Taken(c)' = Taken(c)
    <3>1. Taken(c) = Len(R) - Len(B)
      BY DEF Taken, AtServer, B, R
    <3>2. Taken(c)' = (Len(R) + 1) - (Len(B) + 1)
      BY <1>3, <1>5, <2>2 DEF Taken, AtServer
    <3> QED
      BY <1>5, <3>1, <3>2
  <2>4. /\ Len(B) <= Len(R)
        /\ \A i \in 1 .. Len(B) : B[i] = R[Taken(c) + i]
    BY <1>8 DEF ConnInv, RequestInv, B, R
  <2>5. RequestInv(c)'
    <3>1. \A i \in 1 .. Len(B) + 1 : Append(B, f)[i] = Append(R, f)[Taken(c) + i]
      <4> TAKE i \in 1 .. Len(B) + 1
      <4>1. CASE i = Len(B) + 1
        <5>1. Taken(c) + i = Len(R) + 1
          BY <1>5, <2>3, <4>1
        <5> QED
          BY <1>5, <4>1, <5>1
      <4>2. CASE i # Len(B) + 1
        <5>1. i \in 1 .. Len(B) /\ Taken(c) + i \in 1 .. Len(R)
          BY <1>5, <2>3, <2>4, <4>2
        <5>2. Append(B, f)[i] = B[i] /\ Append(R, f)[Taken(c) + i] = R[Taken(c) + i]
          BY <1>5, <5>1
        <5> QED
          BY <2>4, <5>1, <5>2
      <4> QED
        BY <4>1, <4>2
    <3>2. Len(B) + 1 <= Len(R) + 1
      BY <1>5, <2>4
    <3>3. /\ AtServer(c)'.buf = Append(B, f) /\ Len(Append(B, f)) = Len(B) + 1
          /\ requests'[c] = Append(R, f) /\ Len(Append(R, f)) = Len(R) + 1
          /\ Taken(c)' = Taken(c)
      BY <1>3, <1>5, <2>2, <2>3
    <3> QED
      BY <3>1, <3>2, <3>3 DEF RequestInv
  <2>6. OffenceInv(c)'
    <3>1. c \notin offenders => ~AtServer(c).rst
      BY <1>3, <1>8 DEF ConnInv, OffenceInv, Connected
    <3> QED
      BY <1>3, <1>6, <2>2, <3>1 DEF OffenceInv, Connected
  <2>7. AnswerInv(c)'
    <3>1. /\ ~Replying(c) => Len(answers[c]) + Len(AtClient(c).buf) = Taken(c)
          /\ Replying(c) => Len(answers[c]) + Len(AtClient(c).buf) + 1 = Taken(c)
          /\ \A i \in 1 .. Len(answers[c]) : answers[c][i] = AnswerTo(R[i])
          /\ \A i \in 1 .. Len(AtClient(c).buf) :
               AtClient(c).buf[i] = AnswerTo(R[Len(answers[c]) + i])
          /\ Replying(c) => reply = AnswerTo(R[Taken(c)])
      BY <1>3, <1>8 DEF ConnInv, AnswerInv, Connected, R
    <3>2. Len(answers[c]) \in Nat /\ Len(AtClient(c).buf) \in Nat
      BY ConnTypes
    <3>3. Replying(c)' <=> Replying(c)
      BY <1>3 DEF Replying
    <3>4. /\ \A i \in 1 .. Len(answers[c]) : i \in 1 .. Len(R)
          /\ \A i \in 1 .. Len(AtClient(c).buf) : Len(answers[c]) + i \in 1 .. Len(R)
          /\ Replying(c) => Taken(c) \in 1 .. Len(R)
      <4> DEFINE k == Len(answers[c])
                 m == Len(AtClient(c).buf)
                 t == Taken(c)
      <4>1. k \in Nat /\ m \in Nat /\ t \in Int /\ t <= Len(R)
        BY <1>5, <2>3, <3>2
      <4>2. (k + m = t \/ k + m + 1 = t) /\ (Replying(c) => k + m + 1 = t)
        BY <3>1
      <4> HIDE DEF k, m, t, R
      <4>3. /\ \A i \in 1 .. k : i \in 1 .. Len(R)
            /\ \A i \in 1 .. m : k + i \in 1 .. Len(R)
            /\ Replying(c) => t \in 1 .. Len(R)
        <5> DEFINE r == Len(R)
        <5>1. k \in Nat /\ m \in Nat /\ r \in Nat /\ k + m <= r
              /\ (Replying(c) => t \in Nat /\ 1 <= t /\ t <= r)
          BY <1>5, <4>1, <4>2
        <5> HIDE DEF r
        <5>2. \A i \in 1 .. k : i \in 1 .. r
          BY <5>1
        <5>3. \A i \in 1 .. m : k + i \in 1 .. r
          BY <5>1
        <5>4. Replying(c) => t \in 1 .. r
          BY <5>1
        <5> QED
          BY <5>2, <5>3, <5>4 DEF r
      <4> QED
        BY <4>3 DEF k, m, t
    <3>5. \A i \in 1 .. Len(R) : requests'[c][i] = R[i]
      BY <1>3, <1>5
    <3>7. /\ \A i \in 1 .. Len(answers[c]) : answers[c][i] = AnswerTo(requests'[c][i])
          /\ \A i \in 1 .. Len(AtClient(c).buf) :
               AtClient(c).buf[i] = AnswerTo(requests'[c][Len(answers[c]) + i])
          /\ Replying(c) => reply = AnswerTo(requests'[c][Taken(c)])
      BY <3>1, <3>4, <3>5
    <3>8. AtClient(c)' = AtClient(c) /\ Taken(c)' = Taken(c) /\ answers'[c] = answers[c]
          /\ reply' = reply
      BY <1>3, <2>1, <2>3
    <3> QED
      BY <3>1, <3>3, <3>7, <3>8 DEF AnswerInv
  <2> QED
    BY <2>5, <2>6, <2>7 DEF ConnInv
<1> QED
  BY <1>7, <1>8

LEMMA ReadConn ==
  ASSUME ServiceTypes, NEW c \in Conns, ConnInv(c), ClientRead(c),
         UNCHANGED receiverVars
  PROVE  ConnInv(c)'
<1> DEFINE C == AtClient(c).buf
           A == answers[c]
           R == requests[c]
<1>1. /\ C \in Seq(Frame) /\ A \in Seq(Frame) /\ C # <<>>
      /\ AtClient(c) \in SocketOf(Frame)
      /\ answers \in [Conns -> Seq(Frame)] /\ sock \in [Ends -> SocketOf(Frame)]
  BY ConnTypes DEF ServiceTypes, SockState, SockOf, ClientRead, AtClient
<1>2. /\ answers'[c] = Append(A, Head(C))
      /\ UNCHANGED <<client, requests, offenders, receiver_pc, client_fd, reply>>
  BY <1>1 DEF ClientRead, receiverVars, AtClient
<1>3. /\ AtServer(c)' = AtServer(c) /\ AtClient(c)' = [AtClient(c) EXCEPT !.buf = Tail(C)]
  <2>1. ServerEnd(c) \in Ends /\ ClientEnd(c) \in Ends /\ ClientEnd(c) # ServerEnd(c)
    BY EndFacts
  <2> QED
    BY <1>1, <2>1 DEF ClientRead, TakeHead, AtServer, AtClient
<1>4. AtClient(c)'.buf = Tail(C)
  BY <1>1, <1>3 DEF SocketOf
<1>5. Taken(c)' = Taken(c) /\ (Replying(c)' <=> Replying(c)) /\ Outstanding(c)' = Outstanding(c)
  BY <1>2, <1>3 DEF Taken, Replying, Outstanding, AtServer
<1>6. RequestInv(c)' /\ OffenceInv(c)'
  BY <1>2, <1>3, <1>5 DEF ConnInv, RequestInv, OffenceInv
<1>7. AnswerInv(c)'
  <2> SUFFICES ASSUME client[c] \in Connected, AtServer(c).open PROVE AnswerInv(c)'
    BY <1>2, <1>3 DEF AnswerInv
  <2>1. /\ ~Replying(c) => Len(A) + Len(C) = Taken(c)
        /\ Replying(c) => Len(A) + Len(C) + 1 = Taken(c)
        /\ \A i \in 1 .. Len(A) : A[i] = AnswerTo(R[i])
        /\ \A i \in 1 .. Len(C) : C[i] = AnswerTo(R[Len(A) + i])
        /\ Replying(c) => reply = AnswerTo(R[Taken(c)])
    BY DEF ConnInv, AnswerInv
  <2>2. /\ Len(A) \in Nat /\ Len(C) \in Nat /\ Len(C) >= 1
        /\ Len(Append(A, Head(C))) = Len(A) + 1 /\ Len(Tail(C)) = Len(C) - 1
        /\ \A i \in 1 .. Len(A) + 1 :
             Append(A, Head(C))[i] = IF i = Len(A) + 1 THEN C[1] ELSE A[i]
        /\ \A i \in 1 .. Len(C) - 1 : Tail(C)[i] = C[i + 1]
    BY <1>1
  <2> HIDE DEF A, C, R
  <2>3. \A i \in 1 .. Len(A) + 1 : Append(A, Head(C))[i] = AnswerTo(R[i])
    BY <2>1, <2>2
  <2>4. \A i \in 1 .. Len(C) - 1 : Tail(C)[i] = AnswerTo(R[Len(A) + 1 + i])
    <3> TAKE i \in 1 .. Len(C) - 1
    <3>1. i + 1 \in 1 .. Len(C) /\ Len(A) + (i + 1) = Len(A) + 1 + i
      BY <2>2
    <3> QED
      BY <2>1, <2>2, <3>1
  <2>5. (Len(A) + 1) + (Len(C) - 1) = Len(A) + Len(C)
    BY <2>2
  <2>6. requests'[c] = R /\ reply' = reply
    BY <1>2 DEF R
  <2> DEFINE A2 == Append(A, Head(C))
             C2 == Tail(C)
  <2>7. /\ ~Replying(c) => Len(A2) + Len(C2) = Taken(c)
        /\ Replying(c) => Len(A2) + Len(C2) + 1 = Taken(c)
        /\ \A i \in 1 .. Len(A2) : A2[i] = AnswerTo(R[i])
        /\ \A i \in 1 .. Len(C2) : C2[i] = AnswerTo(R[Len(A2) + i])
    BY <2>1, <2>2, <2>3, <2>4, <2>5
  <2> HIDE DEF A2, C2
  <2>8. answers'[c] = A2 /\ AtClient(c)'.buf = C2
    BY <1>2, <1>4 DEF A2, C2
  <2> QED
    BY <1>5, <2>1, <2>6, <2>7, <2>8 DEF AnswerInv
<1> QED
  BY <1>6, <1>7 DEF ConnInv

(* A client that leaves without an offence leaves at most one answer to be *)
(* sent, and the receiver finds the end of its stream.                     *)
LEMMA CloseConn ==
  ASSUME ServiceTypes, PlaceInv, NEW c \in Conns, ConnInv(c), ClientClose(c),
         UNCHANGED receiverVars
  PROVE  ConnInv(c)'
<1> DEFINE E == {ClientEnd(c)}
<1>1. /\ sock' = Close(sock, E, {}) /\ client[c] \in Connected /\ client'[c] = "gone"
      /\ UNCHANGED <<requests, answers, receiver_pc, client_fd, reply>>
      /\ c \notin offenders' => c \notin offenders /\ ~Offends(c)
  BY DEF ClientClose, CloseFd, receiverVars, Connected, ServiceTypes
<1>2. /\ ServerEnd(c) \in Ends /\ ServerEnd(c) \notin E
      /\ Peer(ServerEnd(c)) = ClientEnd(c) /\ ClientEnd(c) \in E
  BY EndFacts
<1>3. /\ AtServer(c).buf \in Seq(Frame) /\ AtServer(c) \in SocketOf(Frame)
  BY ConnTypes
<1>4. AtServer(c)'.buf = AtServer(c).buf /\ (AtServer(c)'.open <=> AtServer(c).open)
  <2> HIDE DEF E
  <2> QED
    BY <1>1, <1>2, CloseEnd DEF AtServer, ServiceTypes
<1>5. Taken(c)' = Taken(c) /\ Outstanding(c)' = Outstanding(c) /\ Outstanding(c) \in Nat
  <2>1. Taken(c)' = Taken(c)
    BY <1>1, <1>4 DEF Taken, AtServer
  <2>2. Outstanding(c)' = Outstanding(c)
    BY <1>1, <1>4 DEF Outstanding, AtServer
  <2>3. Outstanding(c) \in Nat
    <3>1. Len(AtServer(c).buf) \in Nat
      BY <1>3
    <3>2. Outstanding(c) \in {Len(AtServer(c).buf) + 0, Len(AtServer(c).buf) + 1}
      BY DEF Outstanding, AtServer
    <3> QED
      BY <3>1, <3>2
  <2> QED
    BY <2>1, <2>2, <2>3
<1>6. RequestInv(c)'
  BY <1>1, <1>4, <1>5 DEF ConnInv, RequestInv
<1>7. AnswerInv(c)'
  BY <1>1 DEF AnswerInv, Connected
<1>8. OffenceInv(c)'
  <2> SUFFICES ASSUME c \notin offenders' PROVE OffenceInv(c)'
    BY DEF OffenceInv
  <2>1. c \notin offenders /\ ~Offends(c)
    BY <1>1
  <2>2. \A i \in 1 .. Len(requests'[c]) : IsRequest(requests'[c][i])
    BY <1>1, <2>1 DEF ConnInv, OffenceInv
  <2>3. ASSUME AtServer(c).open
        PROVE  /\ AtServer(c)'.fin /\ Outstanding(c) <= 1
               /\ AtServer(c)'.rst => Outstanding(c) = 0
    <3>1. /\ AtClient(c).open /\ ~AtClient(c).rst
      BY <1>1, <2>3 DEF PlaceInv, Placed
    <3>2. /\ ~AtServer(c).rst
          /\ client[c] = "shut" => AtServer(c).fin
      BY <1>1, <2>1, <2>3 DEF ConnInv, OffenceInv
    <3>3. /\ sock[Peer(ServerEnd(c))] = AtClient(c) /\ Peer(ServerEnd(c)) \in E
          /\ Peer(ServerEnd(c)) \notin {}
          /\ sock[ServerEnd(c)] = AtServer(c)
      BY <1>2 DEF AtServer, AtClient
    <3> HIDE DEF E
    <3>4. AtServer(c)' = IF AtClient(c).buf # <<>>
                           THEN [AtServer(c) EXCEPT !.rst = TRUE]
                           ELSE [AtServer(c) EXCEPT !.fin = TRUE]
      BY <1>1, <1>2, <2>3, <3>1, <3>3 DEF Close, AtServer
    <3>5. CASE AtClient(c).buf # <<>>
      <4>1. client[c] = "shut" /\ Outstanding(c) < 1
        BY <1>1, <1>5, <2>1, <3>5 DEF Offends, AtClient, Connected
      <4>2. AtServer(c)'.fin = AtServer(c).fin
        BY <1>3, <3>4, <3>5 DEF SocketOf
      <4> QED
        BY <1>5, <3>2, <4>1, <4>2
    <3>6. CASE AtClient(c).buf = <<>>
      <4>1. Outstanding(c) < 2
        BY <1>5, <2>1 DEF Offends
      <4>2. AtServer(c)'.fin /\ AtServer(c)'.rst = AtServer(c).rst
        BY <1>3, <3>4, <3>6 DEF SocketOf
      <4> QED
        BY <1>5, <3>2, <4>1, <4>2
    <3> QED
      BY <3>5, <3>6
  <2> QED
    BY <1>1, <1>4, <1>5, <2>2, <2>3 DEF OffenceInv, Connected
<1> QED
  BY <1>6, <1>7, <1>8 DEF ConnInv

LEMMA ShutConn ==
  ASSUME ServiceTypes, NEW c \in Conns, ConnInv(c), ClientShut(c),
         UNCHANGED receiverVars
  PROVE  ConnInv(c)'
<1>1. /\ client[c] = "open" /\ client'[c] = "shut"
      /\ UNCHANGED <<requests, answers, offenders, receiver_pc, client_fd, reply>>
  BY DEF ClientShut, receiverVars, ServiceTypes
<1>2. /\ AtServer(c) \in SocketOf(Frame) /\ sock \in [Ends -> SocketOf(Frame)]
      /\ ServerEnd(c) \in Ends /\ ClientEnd(c) \in Ends /\ ClientEnd(c) # ServerEnd(c)
  BY ConnTypes, EndFacts DEF ServiceTypes, SockState, SockOf
<1>3. CASE ~AtServer(c).open
  <2>1. sock' = sock
    BY <1>3 DEF ClientShut, AtServer
  <2>2. ~AtServer(c)'.open
    BY <1>3, <2>1 DEF AtServer
  <2> QED
    BY <1>1, <2>2, ConnClosed
<1>4. CASE AtServer(c).open
  <2>1. AtServer(c)' = [AtServer(c) EXCEPT !.fin = TRUE] /\ AtClient(c)' = AtClient(c)
    BY <1>2, <1>4 DEF ClientShut, AtServer, AtClient
  <2>2. /\ AtServer(c)'.buf = AtServer(c).buf /\ AtServer(c)'.rst = AtServer(c).rst
        /\ AtServer(c)'.fin /\ AtServer(c)'.open
    BY <1>2, <1>4, <2>1 DEF SocketOf
  <2>3. Taken(c)' = Taken(c) /\ (Replying(c)' <=> Replying(c))
    BY <1>1, <2>2 DEF Taken, Replying, AtServer
  <2>4. RequestInv(c)'
    BY <1>1, <1>4, <2>2, <2>3 DEF ConnInv, RequestInv
  <2>5. OffenceInv(c)'
    BY <1>1, <1>4, <2>2 DEF ConnInv, OffenceInv, Connected
  <2>6. AnswerInv(c)'
    BY <1>1, <1>4, <2>1, <2>3 DEF ConnInv, AnswerInv, Connected
  <2> QED
    BY <2>4, <2>5, <2>6 DEF ConnInv
<1> QED
  BY <1>3, <1>4

LEMMA ConnectConn ==
  ASSUME ServiceTypes, PlaceInv, NEW c \in Conns, ConnInv(c), ClientConnect(c),
         UNCHANGED receiverVars
  PROVE  ConnInv(c)'
<1>1. /\ client'[c] = "open" /\ requests'[c] = <<>> /\ answers'[c] = <<>>
      /\ client_fd # c
      /\ UNCHANGED <<offenders, receiver_pc, client_fd, reply>>
  BY DEF ClientConnect, receiverVars, ServiceTypes, PlaceInv, Placed
<1>2. AtServer(c)' = Fresh /\ AtClient(c)' = Fresh
  <2>1. ServerEnd(c) \in Ends /\ ClientEnd(c) \in Ends /\ ClientEnd(c) # ServerEnd(c)
    BY EndFacts
  <2>2. sock' = [sock EXCEPT ![ClientEnd(c)] = Fresh, ![ServerEnd(c)] = Fresh]
    BY DEF ClientConnect, Establish, ClientEnd, ServerEnd
  <2> QED
    BY <2>1, <2>2 DEF AtServer, AtClient, ServiceTypes, SockState, SockOf
<1>3. Taken(c)' = 0 /\ ~Replying(c)'
  BY <1>1, <1>2 DEF Taken, Replying, AtServer, Fresh
<1>4. RequestInv(c)' /\ OffenceInv(c)' /\ AnswerInv(c)'
  BY <1>1, <1>2, <1>3 DEF RequestInv, OffenceInv, AnswerInv, Fresh
<1> QED
  BY <1>4 DEF ConnInv

LEMMA ReceiverConns ==
  ASSUME ServiceTypes, PlaceInv, ServiceInv, ReceiverNext, UNCHANGED clientVars
  PROVE  ServiceInv'
<1> SUFFICES ASSUME NEW c \in Conns PROVE ConnInv(c)'
  BY DEF ServiceInv
<1>0. /\ ConnInv(c) /\ client' = client /\ requests' = requests
      /\ answers' = answers /\ offenders' = offenders
      /\ sock \in [Ends -> SocketOf(Frame)]
  BY DEF ServiceInv, clientVars, ServiceTypes, SockState, SockOf
<1>1. ASSUME NEW s \in SockState, Die(s, "rcv", {"rcv"}),
             \A e \in Ends : s[e].open = sock[e].open
      PROVE  ConnInv(c)'
  BY <1>0, <1>1, AllServersClose, ConnClosed
<1>2. ASSUME UNCHANGED sock, ~Replying(c), ~Replying(c)' PROVE ConnInv(c)'
  BY <1>0, <1>2, ConnSame
<1>3. CASE ReceiverStart \/ ReceiverAccept
  BY <1>2, <1>3 DEF ReceiverStart, ReceiverAccept, Replying
<1>4. CASE ReceiverCrash \/ ProcessEnds
  BY <1>1, <1>4 DEF ReceiverCrash, ProcessEnds, ReceiverExit, ServiceTypes
<1>5. ASSUME receiver_pc \in {"recv", "reply"}, c # client_fd,
             NEW s, sock' = s, \A e \in Ends \ {ServerEnd(client_fd), ClientEnd(client_fd)} :
                                 s[e] = sock[e],
             client_fd' \in {0, client_fd}
      PROVE  ConnInv(c)'
  <2>1. client_fd \in Conns /\ c # 0
    BY <1>5, ReceiverEndIsEnd DEF Conns
  <2>2. /\ ServerEnd(c) \in Ends \ {ServerEnd(client_fd), ClientEnd(client_fd)}
        /\ ClientEnd(c) \in Ends \ {ServerEnd(client_fd), ClientEnd(client_fd)}
    BY <1>5, <2>1, EndFacts
  <2>3. sock'[ServerEnd(c)] = sock[ServerEnd(c)] /\ sock'[ClientEnd(c)] = sock[ClientEnd(c)]
    BY <1>5, <2>2
  <2>4. ~Replying(c) /\ ~Replying(c)'
    BY <1>5, <2>1 DEF Replying
  <2> QED
    BY <1>0, <2>3, <2>4, ConnSame
<1>6. CASE ReceiverRead /\ ~ProcessEnds
  <2>1. receiver_pc = "recv" /\ client_fd \in Conns /\ ReceiverEnd = ServerEnd(client_fd)
    BY <1>6, ReceiverEndIsEnd DEF ReceiverRead
  <2> DEFINE f == Head(sock[ServerEnd(client_fd)].buf)
  <2>2. /\ sock[ServerEnd(client_fd)].buf # <<>>
        /\ sock' = TakeHead(sock, ServerEnd(client_fd)) /\ receiver_pc' = "reply"
        /\ client_fd' = client_fd
        /\ \/ f.type = "Data" /\ reply' = Packet("Ack", f.seq)
           \/ f.type = "Heartbeat" /\ reply' = Packet("HeartbeatAck", f.seq)
    BY <1>6, <2>1, ReadOutcome DEF ReceiverRead, HandleData, HandleHeartbeat, AckFor
  <2>3. reply' = AnswerTo(f)
    BY <2>2 DEF AnswerTo
  <2>4. CASE c = client_fd
    BY <1>0, <2>1, <2>2, <2>3, <2>4, HandleConn DEF AtServer
  <2>5. CASE c # client_fd
    <3>1. \A e \in Ends \ {ServerEnd(client_fd), ClientEnd(client_fd)} : sock'[e] = sock[e]
      BY <1>0, <2>2 DEF TakeHead
    <3> QED
      BY <1>5, <2>1, <2>2, <2>5, <3>1
  <2> QED
    BY <2>4, <2>5
<1>7. CASE ReceiverEOF
  <2>1. /\ receiver_pc = "recv" /\ client_fd \in Conns /\ client_fd' = 0
        /\ sock' = Close(sock, {ServerEnd(client_fd)}, {})
    BY <1>7, ReceiverEndIsEnd DEF ReceiverEOF, Released, CloseFd
  <2>2. CASE c = client_fd
    <3>1. sock'[ServerEnd(c)] = Closed
      BY <2>1, <2>2, EndFacts, CloseEnd DEF ServiceTypes
    <3>2. ~AtServer(c)'.open
      BY <3>1 DEF AtServer, Closed
    <3> QED
      BY <1>0, <3>2, ConnClosed
  <2>3. CASE c # client_fd
    <3> DEFINE E == {ServerEnd(client_fd)}
    <3>1. /\ ServerEnd(c) \in Ends /\ ClientEnd(c) \in Ends
          /\ ServerEnd(c) \notin E /\ ClientEnd(c) \notin E
          /\ Peer(ServerEnd(c)) \notin E /\ Peer(ClientEnd(c)) \notin E
          /\ sock' = Close(sock, E, {})
      BY <2>1, <2>3, EndFacts
    <3> HIDE DEF E
    <3>2. sock'[ServerEnd(c)] = sock[ServerEnd(c)] /\ sock'[ClientEnd(c)] = sock[ClientEnd(c)]
      BY <3>1, CloseEnd DEF ServiceTypes
    <3>3. ~Replying(c) /\ ~Replying(c)'
      BY <2>1, <2>3 DEF Replying, Conns
    <3> QED
      BY <1>0, <3>2, <3>3, ConnSame
  <2> QED
    BY <2>2, <2>3
<1>8. CASE ReceiverReply /\ ~ProcessEnds
  <2>1. receiver_pc = "reply" /\ client_fd \in Conns /\ ReceiverEnd = ServerEnd(client_fd)
    BY <1>8, ReceiverEndIsEnd DEF ReceiverReply
  <2>2. /\ sock' = Put(sock, ServerEnd(client_fd), reply) /\ receiver_pc' = "recv"
        /\ client_fd' = client_fd
    BY <1>8, <2>1, FailureEnds DEF ReceiverReply
  <2>3. CASE c = client_fd
    BY <1>0, <2>1, <2>2, <2>3, ReplyConn
  <2>4. CASE c # client_fd
    <3>1. \A e \in Ends \ {ServerEnd(client_fd), ClientEnd(client_fd)} : sock'[e] = sock[e]
      BY <1>0, <2>1, <2>2, EndFacts DEF Put
    <3> QED
      BY <1>5, <2>1, <2>2, <2>4, <3>1
  <2> QED
    BY <2>3, <2>4
<1> QED
  BY <1>3, <1>4, <1>6, <1>7, <1>8, FailureEnds DEF ReceiverNext, ReceiverRun, ReceiverRecvFailed

LEMMA ClientConns ==
  ASSUME ServiceTypes, PlaceInv, ServiceInv, ClientStep
  PROVE  ServiceInv'
<1>0. /\ UNCHANGED receiverVars /\ UNCHANGED <<receiver_pc, client_fd, reply>>
      /\ sock \in [Ends -> SocketOf(Frame)]
      /\ client \in [Conns -> {"new", "open", "shut", "gone"}]
      /\ requests \in [Conns -> Seq(Requests)]
      /\ answers \in [Conns -> Seq(Frame)]
  BY DEF ClientStep, receiverVars, ServiceTypes, SockState, SockOf
<1>1. PICK d \in Conns :
        ClientConnect(d) \/ ClientSend(d) \/ ClientRead(d) \/ ClientShut(d) \/ ClientClose(d)
  BY DEF ClientStep
<1> SUFFICES ASSUME NEW c \in Conns PROVE ConnInv(c)'
  BY DEF ServiceInv
<1>2. ConnInv(c)
  BY DEF ServiceInv
<1>3. CASE c = d
  BY <1>0, <1>1, <1>2, <1>3, ConnectConn, SendConn, ReadConn, ShutConn, CloseConn
<1>4. CASE c # d
  <2>1. /\ ServerEnd(c) \in Ends /\ ClientEnd(c) \in Ends
        /\ ServerEnd(c) \notin {ServerEnd(d), ClientEnd(d)}
        /\ ClientEnd(c) \notin {ServerEnd(d), ClientEnd(d)}
        /\ Peer(ServerEnd(c)) \notin {ClientEnd(d)}
        /\ Peer(ClientEnd(c)) \notin {ClientEnd(d)}
        /\ Peer(ClientEnd(d)) = ServerEnd(d)
    BY <1>4, EndFacts
  <2>2. /\ client'[c] = client[c] /\ requests'[c] = requests[c]
        /\ answers'[c] = answers[c] /\ (c \notin offenders' => c \notin offenders)
    BY <1>0, <1>1, <1>4
       DEF ClientConnect, ClientSend, ClientRead, ClientShut, ClientClose
  <2>3. sock'[ServerEnd(c)] = sock[ServerEnd(c)] /\ sock'[ClientEnd(c)] = sock[ClientEnd(c)]
    <3>1. CASE ClientConnect(d)
      <4>1. sock' = [sock EXCEPT ![ClientEnd(d)] = Fresh, ![ServerEnd(d)] = Fresh]
        BY <3>1 DEF ClientConnect, Establish, ClientEnd, ServerEnd
      <4> QED
        BY <1>0, <2>1, <4>1
    <3>2. CASE ClientSend(d)
      BY <1>0, <2>1, <3>2 DEF ClientSend, Put
    <3>3. CASE ClientRead(d)
      BY <1>0, <2>1, <3>3 DEF ClientRead, TakeHead
    <3>4. CASE ClientShut(d)
      BY <1>0, <2>1, <3>4 DEF ClientShut
    <3>5. CASE ClientClose(d)
      <4> DEFINE E == {ClientEnd(d)}
      <4>1. /\ sock' = Close(sock, E, {})
            /\ ServerEnd(c) \notin E /\ ClientEnd(c) \notin E
            /\ Peer(ServerEnd(c)) \notin E /\ Peer(ClientEnd(c)) \notin E
        BY <1>0, <2>1, <3>5, EndFacts DEF ClientClose, CloseFd
      <4> HIDE DEF E
      <4> QED
        BY <2>1, <4>1, CloseEnd DEF ServiceTypes
    <3> QED
      BY <1>1, <3>1, <3>2, <3>3, <3>4, <3>5
  <2>4. (Replying(c)' <=> Replying(c)) /\ reply' = reply
    BY <1>0 DEF Replying
  <2> QED
    BY <1>2, <2>2, <2>3, <2>4, ConnSame
<1> QED
  BY <1>3, <1>4

(* The invariants together, in every reachable state.                      *)
LEMMA ServiceInvariant == ServiceSpec => [](ServiceTypes /\ PlaceInv /\ ServiceInv)
<1>1. ServiceInit => PlaceInv /\ ServiceInv
  <2> SUFFICES ASSUME ServiceInit PROVE PlaceInv /\ ServiceInv
    OBVIOUS
  <2>1. /\ Waiting = <<>> /\ client_fd = 0 /\ receiver_pc = "down"
        /\ \A c \in Conns : /\ AtServer(c) = Closed /\ AtClient(c) = Closed
                            /\ client[c] = "new"
                            /\ requests[c] = <<>> /\ answers[c] = <<>>
    BY EndFacts DEF ServiceInit, NetInit, ReceiverInit, Waiting, Listeners,
       AtServer, AtClient
  <2>2. \A c \in Conns : c # 0
    BY DEF Conns
  <2> HIDE DEF Waiting
  <2>3. PlaceInv
    BY <2>1, <2>2 DEF PlaceInv, Placed, QueueInv, Closed, Connected
  <2>4. ASSUME NEW c \in Conns
        PROVE  ConnInv(c)
    <3>1. receiver_pc = "down"
      BY DEF ServiceInit, ReceiverInit
    <3>2. ~Replying(c)
      BY <3>1 DEF Replying
    <3>3. /\ AtServer(c) = Closed /\ AtClient(c) = Closed /\ client[c] = "new"
          /\ requests[c] = <<>> /\ answers[c] = <<>>
      BY <2>1, <2>4
    <3>4. AtServer(c).buf = <<>> /\ AtClient(c).buf = <<>> /\ ~AtServer(c).open
      BY <3>3 DEF Closed
    <3>5. Taken(c) = 0
      <4>1. Len(requests[c]) = 0 /\ Len(AtServer(c).buf) = 0
        BY <3>3, <3>4 DEF AtServer
      <4> QED
        BY <4>1 DEF Taken, AtServer
    <3> QED
      BY <2>4, <3>2, <3>3, <3>4, <3>5
         DEF ConnInv, RequestInv, OffenceInv, AnswerInv, Closed
  <2>5. ServiceInv
    BY <2>4 DEF ServiceInv
  <2> QED
    BY <2>3, <2>5
<1>2. ServiceTypes /\ PlaceInv /\ ServiceInv /\ [ServiceNext]_serviceVars
        => PlaceInv' /\ ServiceInv'
  <2> SUFFICES ASSUME ServiceTypes, PlaceInv, ServiceInv, [ServiceNext]_serviceVars
               PROVE  PlaceInv' /\ ServiceInv'
    OBVIOUS
  <2>1. CASE UNCHANGED serviceVars
    <3>1. PlaceInv'
      BY <2>1, PlaceSame
         DEF serviceVars, netVars, receiverVars, clientVars, AtServer, AtClient
    <3>2. ServiceInv'
      BY <2>1, ConnSame
         DEF ServiceInv, serviceVars, netVars, receiverVars, clientVars, Replying
    <3> QED
      BY <3>1, <3>2
  <2> QED
    BY <2>1, ReceiverPlaced, ReceiverConns, ClientPlaced, ClientConns DEF ServiceNext
<1> QED
  BY <1>1, <1>2, TypesKept, PTL DEF ServiceSpec

-----------------------------------------------------------------------------
(* Answers: AnswersInOrder put together from its elements.                 *)

LEMMA Extended ==
  ASSUME NEW S, NEW s \in Seq(S), NEW e \in S
  PROVE  /\ s \o <<e>> \in Seq(S) /\ Len(s \o <<e>>) = Len(s) + 1
         /\ (s \o <<e>>)[Len(s) + 1] = e
         /\ \A i \in 1 .. Len(s) : (s \o <<e>>)[i] = s[i]
<1>1. <<e>> \in Seq(S) /\ Len(<<e>>) = 1 /\ <<e>>[1] = e
  OBVIOUS
<1> QED
  BY <1>1

LEMMA SequenceOf ==
  ASSUME NEW S, NEW s \in Seq(S)
  PROVE  s = [i \in 1 .. Len(s) |-> s[i]]
OBVIOUS

(* Whatever its clients send, the receiver answers each request with its   *)
(* own answer, on its own connection and in the order of the requests.     *)
THEOREM AnswersEachInOrder == ServiceSpec => []AnswersInOrder
<1>1. ServiceTypes /\ ServiceInv => AnswersInOrder
  <2> SUFFICES ASSUME ServiceTypes, ServiceInv, NEW c \in Conns,
                      client[c] \in {"open", "shut"}, sock[ServerEnd(c)].open
               PROVE  answers[c] \o sock[ClientEnd(c)].buf
                          \o (IF receiver_pc = "reply" /\ client_fd = c
                                 THEN <<reply>> ELSE <<>>)
                        = [i \in 1 .. Taken(c) |-> AnswerTo(requests[c][i])]
    BY DEF AnswersInOrder
  <2> DEFINE A == answers[c]
             C == AtClient(c).buf
             L == IF Replying(c) THEN <<reply>> ELSE <<>>
             R == requests[c]
             t == Taken(c)
  <2>1. /\ ~Replying(c) => Len(A) + Len(C) = t
        /\ Replying(c) => Len(A) + Len(C) + 1 = t
        /\ \A i \in 1 .. Len(A) : A[i] = AnswerTo(R[i])
        /\ \A i \in 1 .. Len(C) : C[i] = AnswerTo(R[Len(A) + i])
        /\ Replying(c) => reply = AnswerTo(R[t])
    BY DEF ServiceInv, ConnInv, AnswerInv, AtServer, Connected
  <2>2. /\ A \in Seq(Frame) /\ C \in Seq(Frame)
        /\ Replying(c) => reply \in Frame
    BY ConnTypes DEF ServiceTypes, ReceiverTypeOK, Replying
  <2>3. /\ Replying(c) => L = <<reply>>
        /\ ~Replying(c) => L = <<>>
    OBVIOUS
  <2>4. /\ A \o C \o L
             = answers[c] \o sock[ClientEnd(c)].buf
                 \o (IF receiver_pc = "reply" /\ client_fd = c THEN <<reply>> ELSE <<>>)
        /\ [i \in 1 .. t |-> AnswerTo(R[i])]
             = [i \in 1 .. Taken(c) |-> AnswerTo(requests[c][i])]
    BY Zenon DEF AtClient, Replying
  <2> HIDE DEF A, C, L, R, t
  <2>5. A \o C \o L = [i \in 1 .. t |-> AnswerTo(R[i])]
    <3> DEFINE W == A \o C \o L
    <3>1. CASE Replying(c)
      <4>1. /\ W \in Seq(Frame) /\ Len(W) = t
            /\ Len(A) \in Nat /\ Len(C) \in Nat /\ t = Len(A) + Len(C) + 1
            /\ \A i \in 1 .. t : W[i] = IF i <= Len(A) THEN A[i]
                                        ELSE IF i <= Len(A) + Len(C) THEN C[i - Len(A)]
                                        ELSE reply
        <5> DEFINE V == A \o C
        <5>1. /\ V \in Seq(Frame) /\ Len(V) = Len(A) + Len(C)
              /\ \A i \in 1 .. Len(V) :
                   V[i] = IF i <= Len(A) THEN A[i] ELSE C[i - Len(A)]
              /\ Len(A) \in Nat /\ Len(C) \in Nat
          BY <2>2
        <5>2. W = V \o <<reply>> /\ reply \in Frame
          BY <2>2, <2>3, <3>1
        <5> HIDE DEF V, W
        <5>3. /\ W \in Seq(Frame) /\ Len(W) = Len(V) + 1
              /\ W[Len(V) + 1] = reply
              /\ \A i \in 1 .. Len(V) : W[i] = V[i]
          BY <5>1, <5>2, Extended
        <5>4. t = Len(V) + 1
          BY <2>1, <3>1, <5>1
        <5>5. ASSUME NEW i \in 1 .. t
              PROVE  W[i] = IF i <= Len(A) THEN A[i]
                            ELSE IF i <= Len(A) + Len(C) THEN C[i - Len(A)]
                            ELSE reply
          BY <5>1, <5>3, <5>4, <5>5
        <5> QED
          BY <5>1, <5>3, <5>4, <5>5
      <4>2. \A i \in 1 .. t : W[i] = AnswerTo(R[i])
        <5> HIDE DEF W
        <5> TAKE i \in 1 .. t
        <5>1. CASE i <= Len(A)
          BY <2>1, <4>1, <5>1
        <5>2. CASE i > Len(A) /\ i <= Len(A) + Len(C)
          <6>1. i - Len(A) \in 1 .. Len(C) /\ Len(A) + (i - Len(A)) = i
            BY <4>1, <5>2
          <6> QED
            BY <2>1, <4>1, <5>2, <6>1
        <5>3. CASE i > Len(A) + Len(C)
          <6>1. i = t /\ W[i] = reply
            BY <4>1, <5>3
          <6> QED
            BY <2>1, <3>1, <6>1
        <5> QED
          BY <4>1, <5>1, <5>2, <5>3
      <4> HIDE DEF W
      <4>3. W = [i \in 1 .. t |-> W[i]]
        BY <4>1, SequenceOf
      <4> QED
        BY <4>2, <4>3 DEF W
    <3>2. CASE ~Replying(c)
      <4>1. /\ W \in Seq(Frame) /\ Len(W) = t
            /\ Len(A) \in Nat /\ Len(C) \in Nat /\ t = Len(A) + Len(C)
            /\ \A i \in 1 .. t : W[i] = IF i <= Len(A) THEN A[i] ELSE C[i - Len(A)]
        BY <2>1, <2>2, <2>3, <3>2
      <4>2. \A i \in 1 .. t : W[i] = AnswerTo(R[i])
        <5> HIDE DEF W
        <5> TAKE i \in 1 .. t
        <5>1. CASE i <= Len(A)
          BY <2>1, <4>1, <5>1
        <5>2. CASE i > Len(A)
          <6>1. i - Len(A) \in 1 .. Len(C) /\ Len(A) + (i - Len(A)) = i
            BY <4>1, <5>2
          <6> QED
            BY <2>1, <4>1, <5>2, <6>1
        <5> QED
          BY <4>1, <5>1, <5>2
      <4> HIDE DEF W
      <4>3. W = [i \in 1 .. t |-> W[i]]
        BY <4>1, SequenceOf
      <4> QED
        BY <4>2, <4>3 DEF W
    <3> QED
      BY <3>1, <3>2
  <2> QED
    BY <2>4, <2>5
<1> QED
  BY <1>1, ServiceInvariant, PTL

-----------------------------------------------------------------------------
(* Offences: what ends the process.                                        *)

LEMMA EndIsProvoked ==
  ASSUME ServiceTypes, PlaceInv, ServiceInv, ReceiverNext,
         receiver_pc' # receiver_pc, receiver_pc' \in {"exited", "killed"}
  PROVE  client_fd \in offenders
<1> SUFFICES ASSUME client_fd \notin offenders PROVE FALSE
  OBVIOUS
<1>1. /\ receiver_pc \in {"recv", "reply"}
      /\ ReceiverRead \/ ReceiverRecvFailed \/ ReceiverReply
  BY DEF ReceiverNext, ReceiverRun, ReceiverStart, ReceiverCrash, ReceiverAccept,
         ReceiverRead, ReceiverEOF, ReceiverRecvFailed, ReceiverReply
<1> DEFINE c == client_fd
<1>2. c \in Conns /\ ReceiverEnd = ServerEnd(c)
  BY <1>1, ReceiverEndIsEnd
<1>3. AtServer(c).open /\ Placed(c) /\ ConnInv(c)
  BY <1>1, <1>2 DEF PlaceInv, ServiceInv
<1>4. client[c] \in {"open", "shut", "gone"}
  BY <1>2, <1>3 DEF Placed, ServiceTypes
<1>5. /\ \A i \in 1 .. Len(requests[c]) : IsRequest(requests[c][i])
      /\ client[c] \in Connected => ~AtServer(c).rst
      /\ client[c] = "gone" => AtServer(c).fin
      /\ AtServer(c).rst => Outstanding(c) = 0
  BY <1>3 DEF ConnInv, OffenceInv
<1>6. AtServer(c).buf \in Seq(Frame) /\ requests[c] \in Seq(Requests)
  BY <1>2, ConnTypes
<1>7. CASE ReceiverRead
  <2> DEFINE f == Head(AtServer(c).buf)
             n == Len(AtServer(c).buf)
  <2>1. AtServer(c).buf # <<>> /\ ~IsRequest(f)
    BY <1>2, <1>7
       DEF ReceiverRead, HandleData, HandleHeartbeat, IsRequest, AtServer
  <2>2. f = AtServer(c).buf[1] /\ n \in Nat /\ n >= 1 /\ Len(requests[c]) \in Nat
    BY <1>6, <2>1
  <2>3. n <= Len(requests[c]) /\ AtServer(c).buf[1] = requests[c][Taken(c) + 1]
    BY <1>3, <2>2 DEF ConnInv, RequestInv
  <2>4. Taken(c) = Len(requests[c]) - n
    BY DEF Taken, AtServer
  <2> HIDE DEF n
  <2>5. Taken(c) + 1 \in 1 .. Len(requests[c])
    BY <2>2, <2>3, <2>4
  <2> QED
    BY <1>5, <2>1, <2>2, <2>3, <2>5
<1>8. CASE ReceiverRecvFailed
  <2>1. AtServer(c).rst /\ ~AtServer(c).fin
    BY <1>2, <1>8 DEF ReceiverRecvFailed, ReadsReset, AtServer
  <2> QED
    BY <1>4, <1>5, <2>1 DEF Connected
<1>9. CASE ReceiverReply
  <2>1. AtServer(c).rst /\ receiver_pc = "reply"
    BY <1>2, <1>9 DEF ReceiverReply, RaisesReset, RaisesSigpipe, AtServer
  <2>2. Outstanding(c) = Len(AtServer(c).buf) + 1 /\ Len(AtServer(c).buf) \in Nat
    BY <1>6, <2>1 DEF Outstanding, AtServer
  <2> QED
    BY <1>5, <2>1, <2>2
<1> QED
  BY <1>1, <1>7, <1>8, <1>9

(* The receiver ends only while it serves a client that sent something     *)
(* else than requests or left answers behind.                              *)
THEOREM OnlyProvokedEnds == ServiceSpec => EndsOnlyProvoked
<1>1. ServiceTypes /\ PlaceInv /\ ServiceInv /\ [ServiceNext]_serviceVars
        => [receiver_pc' # receiver_pc /\ receiver_pc' \in {"exited", "killed"}
              => client_fd \in offenders]_serviceVars
  <2> SUFFICES ASSUME ServiceTypes, PlaceInv, ServiceInv, ServiceNext,
                      receiver_pc' # receiver_pc, receiver_pc' \in {"exited", "killed"}
               PROVE  client_fd \in offenders
    OBVIOUS
  <2>1. ReceiverNext
    BY DEF ServiceNext, ClientStep, receiverVars
  <2> QED
    BY <2>1, EndIsProvoked
<1> QED
  BY <1>1, ServiceInvariant, PTL DEF ServiceSpec, EndsOnlyProvoked

-----------------------------------------------------------------------------
(* Processed once: what this process delivered it has in                   *)
(* processed_sequences, and no delivery is of a later process.             *)

OnceInv ==
  /\ \A i \in DOMAIN delivered :
       /\ delivered[i].process <= starts
       /\ delivered[i].process = starts =>
            delivered[i].frame.seq \in processed_sequences
  /\ OnceForAllClients

LEMMA OnceInvStep ==
  ASSUME ServiceTypes, OnceInv, [ServiceNext]_serviceVars
  PROVE  OnceInv'
<1> USE DEF OnceInv, OnceForAllClients
<1>1. /\ delivered \in Seq(Delivery) /\ starts \in Nat
      /\ \A i \in DOMAIN delivered : delivered[i].process \in Nat
  <2>1. delivered \in Seq(Delivery)
    BY DEF ServiceTypes, ReceiverTypeOK
  <2>2. \A i \in DOMAIN delivered : delivered[i] \in Delivery
    BY <2>1
  <2>3. \A r \in Delivery : r.process \in Nat
    BY DEF Delivery
  <2>4. starts \in Nat
    BY DEF ServiceTypes, ReceiverTypeOK
  <2> QED
    BY <2>1, <2>2, <2>3, <2>4
<1>2. CASE UNCHANGED <<delivered, processed_sequences, starts>>
  BY <1>2
<1>3. CASE ReceiverStart
  <2>1. delivered' = delivered /\ starts' = starts + 1
    BY <1>3 DEF ReceiverStart
  <2>2. \A i \in DOMAIN delivered : delivered[i].process < starts'
    BY <1>1, <2>1
  <2> QED
    BY <1>1, <2>1, <2>2
<1>4. CASE ReceiverRead /\ ~UNCHANGED <<delivered, processed_sequences>>
  <2> DEFINE f == Head(sock[ReceiverEnd].buf)
             r == [process |-> starts, frame |-> f]
  <2>1. /\ f.seq \notin processed_sequences /\ starts' = starts
        /\ processed_sequences' = processed_sequences \cup {f.seq}
        /\ delivered' = Append(delivered, r)
    BY <1>4 DEF ReceiverRead, HandleData, HandleHeartbeat, ReceiverExit, Remembered
  <2>2. r.process = starts /\ r.frame.seq = f.seq
    OBVIOUS
  <2> HIDE DEF r, f
  <2>3. /\ Len(delivered) \in Nat
        /\ DOMAIN delivered = 1 .. Len(delivered)
        /\ DOMAIN delivered' = 1 .. Len(delivered) + 1
        /\ delivered'[Len(delivered) + 1] = r
        /\ \A i \in DOMAIN delivered : delivered'[i] = delivered[i]
    BY <1>1, <2>1
  <2> QED
    BY <1>1, <2>1, <2>2, <2>3
<1>5. CASE UNCHANGED receiverVars
  BY <1>2, <1>5 DEF receiverVars
<1> QED
  BY <1>2, <1>3, <1>4, <1>5
     DEF ServiceNext, ClientStep, ReceiverNext, ReceiverRun, ReceiverCrash,
         ReceiverAccept, ReceiverRead, ReceiverEOF, ReceiverRecvFailed,
         ReceiverReply, ReceiverExit, serviceVars

(* One receiver process hands DATA to the application once, over all its   *)
(* connections and whatever its clients repeat.                            *)
THEOREM OncePerProcess == ServiceSpec => []OnceForAllClients
<1>1. ServiceInit => OnceInv
  BY DEF ServiceInit, ReceiverInit, OnceInv, OnceForAllClients
<1>2. ServiceTypes /\ OnceInv /\ [ServiceNext]_serviceVars => OnceInv'
  BY OnceInvStep
<1>3. OnceInv => OnceForAllClients
  BY DEF OnceInv
<1> QED
  BY <1>1, <1>2, <1>3, TypesKept, PTL DEF ServiceSpec

=============================================================================
