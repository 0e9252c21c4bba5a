-------------------------- MODULE TcpSystemProofs ---------------------------
(***************************************************************************)
(* Proofs about TcpSystem for every number of retries, heartbeats,         *)
(* connect attempts and receiver processes.  Part 1: types.                *)
(***************************************************************************)
EXTENDS TcpSystem, TcpNetProofs

-----------------------------------------------------------------------------
(* Types.  The sender's limits hold because each heartbeat has room for    *)
(* one connection more than the requests before it have used.              *)

ConnectionBudget ==
  /\ sender_pc \in {"send", "wait"} => fd # 0
  /\ phase = "data" => fd <= 1 /\ (sender_pc = "connect" => fd = 0)
  /\ phase = "heartbeat" => fd < heartbeat_sequence /\ sender_pc # "connect"
  /\ phase = "reconnected" =>
       /\ fd <= heartbeat_sequence
       /\ sender_pc = "connect" => fd < heartbeat_sequence

(* The part of the sender's type that its control flow decides.            *)
ControlOK ==
  /\ sender_pc \in SenderPc
  /\ phase \in Phases
  /\ fd \in 0 .. MaxConn
  /\ connect_attempt \in 1 .. MaxReconnectAttempts
  /\ attempt \in 1 .. MaxRetries + 1
  /\ heartbeat_sequence \in 2 .. HeartbeatCount + 1
  /\ sender_error \in SenderErrors
  /\ ConnectionBudget

(* What the sender's reads and the listeners decide.                       *)
SenderDataOK ==
  /\ completed_responses \subseteq {"Ack", "HeartbeatAck"} \X Nat
  /\ partial \in Frame \cup {NoFrame}

NetRestOK ==
  /\ backlog \in [Listeners -> Seq(Conns)]
  /\ listening \in [Listeners -> BOOLEAN]

(* The inductive form of TypeOK.                                           *)
TypeInv ==
  /\ ControlOK
  /\ sock \in SockState
  /\ NetRestOK
  /\ SenderDataOK
  /\ ProxyTypeOK
  /\ ReceiverTypeOK

LEMMA TypeInvImpliesTypeOK == TypeInv => TypeOK
BY SocketOfFrame DEF TypeInv, TypeOK, SenderTypeOK, NetTypeOK, ControlOK, SockState,
       SockOf, NetRestOK, SenderDataOK

Waits == sender_pc \in {"send", "wait"} /\ fd' = fd

(* The ways to leave a point of the sender's main keep its control state.  *)
LEMMA FailTyped ==
  ASSUME ControlOK, Waits, NEW s \in SockState, NEW reason \in SenderErrors,
         Fail(reason, s)
  PROVE  ControlOK' /\ sock' \in SockState
<1>1. sock' \in SockState
  BY CloseFdType DEF Fail
<1> QED
  BY <1>1, SenderAssumption
     DEF ControlOK, ConnectionBudget, Waits, Fail, SenderPc, Phases

LEMMA ReconnectTyped ==
  ASSUME ControlOK, Waits, NEW s \in SockState, phase = "heartbeat",
         Reconnect(s)
  PROVE  ControlOK' /\ sock' \in SockState
<1>1. sock' \in SockState
  BY CloseFdType DEF Reconnect
<1> QED
  BY <1>1, SenderAssumption
     DEF ControlOK, ConnectionBudget, Waits, Reconnect, SenderPc, Phases

LEMMA ConnectionLostTyped ==
  ASSUME ControlOK, Waits, NEW s \in SockState, ConnectionLost(s)
  PROVE  ControlOK' /\ sock' \in SockState
<1>1. "connection lost" \in SenderErrors
  BY DEF SenderErrors
<1> QED
  BY <1>1, FailTyped, ReconnectTyped DEF ConnectionLost

LEMMA NoResponseTyped ==
  ASSUME ControlOK, Waits, NEW s \in SockState, NoResponse(s)
  PROVE  ControlOK' /\ sock' \in SockState
<1>1. "retry limit" \in SenderErrors /\ "heartbeat failed after reconnect" \in SenderErrors
  BY DEF SenderErrors
<1>2. CASE /\ phase = "data" /\ RetriesLeft
           /\ sender_pc' = "send"
           /\ attempt' = attempt + 1
           /\ sock' = s
           /\ UNCHANGED <<phase, connect_attempt, heartbeat_sequence, sender_error>>
  BY <1>2, SenderAssumption DEF RetriesLeft, ControlOK, ConnectionBudget, Waits, SenderPc
<1>3. CASE phase = "data" /\ ~RetriesLeft /\ Fail("retry limit", s)
  BY <1>1, <1>3, FailTyped
<1>4. CASE phase = "heartbeat" /\ Reconnect(s)
  BY <1>4, ReconnectTyped
<1>5. CASE phase = "reconnected" /\ Fail("heartbeat failed after reconnect", s)
  BY <1>1, <1>5, FailTyped
<1> QED
  BY <1>2, <1>3, <1>4, <1>5 DEF NoResponse

LEMMA AnsweredTyped ==
  ASSUME ControlOK, Waits, NEW s \in SockState, Answered(s)
  PROVE  ControlOK' /\ sock' \in SockState
<1>1. CASE LastHeartbeat
  BY <1>1, CloseFdType, SenderAssumption
     DEF Answered, ControlOK, ConnectionBudget, Waits, SenderPc
<1>2. CASE ~LastHeartbeat
  BY <1>2, SenderAssumption
     DEF Answered, LastHeartbeat, ControlOK, ConnectionBudget, Waits, SenderPc, Phases
<1> QED
  BY <1>1, <1>2

-----------------------------------------------------------------------------
(* One step of the sender.                                                 *)

(* The sender only talks on a connection it has, and what it reads there   *)
(* is a frame.                                                             *)
LEMMA SenderEndIsEnd ==
  ASSUME ControlOK, sender_pc \in {"send", "wait"}
  PROVE  SenderEnd \in Ends
<1>1. fd \in Conns
  BY MaxConnAssumption DEF ControlOK, ConnectionBudget, Conns
<1> QED
  BY <1>1 DEF SenderEnd, Ends, Sides

LEMMA RequestIsFrame ==
  ASSUME ControlOK
  PROVE  Request \in Frame
<1>1. heartbeat_sequence \in Nat /\ DataSequence \in Nat
  BY SenderAssumption DEF ControlOK, DataSequence
<1> QED
  BY <1>1, PacketIsFrame DEF Request, MessageType

LEMMA CanReadFrame ==
  ASSUME ControlOK, sock \in SockState, SenderDataOK, CanRead
  PROVE  /\ Response \in Frame
         /\ TakeHead(sock, SenderEnd) \in SockState
         /\ LeaveRest(sock, SenderEnd) \in SockState
<1>1. SenderEnd \in Ends
  BY SenderEndIsEnd DEF CanRead
<1>2. sock[SenderEnd].buf # <<>>
  BY DEF CanRead
<1> QED
  BY <1>1, <1>2, TakeHeadType, LeaveRestType DEF Response, SenderDataOK

LEMMA SenderTyped ==
  ASSUME TypeInv, SenderNext, UNCHANGED <<proxyVars, receiverVars>>
  PROVE  TypeInv'
<1> USE DEF TypeInv
<1>1. ProxyTypeOK' /\ ReceiverTypeOK'
  BY DEF ProxyTypeOK, ReceiverTypeOK, proxyVars, receiverVars
<1>2. ControlOK /\ sock \in SockState /\ NetRestOK /\ SenderDataOK
  OBVIOUS
<1>3. CASE SenderConnect
  <2>1. fd + 1 \in Conns
    BY <1>2, <1>3, SenderAssumption
       DEF SenderConnect, ControlOK, ConnectionBudget, Conns, Phases
  <2>2. sock' \in SockState /\ backlog' \in [Listeners -> Seq(Conns)]
    <3>1. "snd" \in Sides /\ "front" \in Listeners
      BY DEF Sides, Listeners
    <3>2. Establish("snd", "front", fd + 1)
      BY <1>3 DEF SenderConnect
    <3> QED
      BY <1>2, <2>1, <3>1, <3>2, EstablishType DEF NetRestOK
  <2>3. ControlOK'
    BY <1>2, <1>3, <2>1, SenderAssumption
       DEF SenderConnect, ControlOK, ConnectionBudget, Conns, Phases, SenderPc
  <2>4. NetRestOK' /\ SenderDataOK'
    BY <1>2, <1>3, <2>2 DEF SenderConnect, NetRestOK, SenderDataOK
  <2> QED
    BY <1>1, <2>2, <2>3, <2>4
<1>4. CASE SenderConnectRefused
  <2>1. ControlOK'
    <3>1. CASE connect_attempt = MaxReconnectAttempts
      <4>1. /\ sender_pc = "connect" /\ sender_pc' = "failed"
            /\ sender_error' = "connect failed"
            /\ UNCHANGED <<phase, fd, connect_attempt, attempt, heartbeat_sequence>>
        BY <1>4, <3>1 DEF SenderConnectRefused
      <4>2. fd \in Int /\ heartbeat_sequence \in Int /\ ConnectionBudget
        BY <1>2, SenderAssumption DEF ControlOK
      <4>3. ConnectionBudget'
        BY <4>1, <4>2 DEF ConnectionBudget
      <4> QED
        BY <1>2, <4>1, <4>3 DEF ControlOK, SenderPc, SenderErrors
    <3>2. CASE connect_attempt # MaxReconnectAttempts
      BY <1>2, <1>4, <3>2, SenderAssumption
         DEF SenderConnectRefused, ControlOK, ConnectionBudget
    <3> QED
      BY <3>1, <3>2
  <2> QED
    BY <1>1, <1>2, <1>4, <2>1 DEF SenderConnectRefused, NetRestOK, SenderDataOK
<1>5. CASE SenderSend
  <2>1. Waits /\ SenderEnd \in Ends
    BY <1>2, <1>5, SenderEndIsEnd DEF SenderSend, Waits
  <2>2. NetRestOK' /\ SenderDataOK'
    BY <1>2, <1>5 DEF SenderSend, NetRestOK, SenderDataOK
  <2>3. ControlOK' /\ sock' \in SockState
    <3>1. CASE /\ sender_pc' = "wait"
               /\ sock' = Put(sock, SenderEnd, Request)
               /\ UNCHANGED <<phase, connect_attempt, attempt,
                              heartbeat_sequence, sender_error>>
      <4>1. sock' \in SockState
        BY <1>2, <2>1, <3>1, PutType, RequestIsFrame
      <4> QED
        BY <1>2, <1>5, <2>1, <3>1, <4>1
           DEF SenderSend, ControlOK, ConnectionBudget, Waits, SenderPc
    <3>2. CASE ConnectionLost(sock)
      BY <1>2, <2>1, <3>2, ConnectionLostTyped
    <3>3. CASE /\ sender_pc' = "killed"
               /\ sock' = CloseFd(sock, {SenderEnd})
               /\ UNCHANGED <<phase, connect_attempt, attempt,
                              heartbeat_sequence, sender_error>>
      <4>1. sock' \in SockState
        BY <1>2, <3>3, CloseFdType
      <4> QED
        BY <1>2, <1>5, <2>1, <3>3, <4>1
           DEF SenderSend, ControlOK, ConnectionBudget, Waits, SenderPc
    <3> QED
      BY <1>5, <3>1, <3>2, <3>3 DEF SenderSend
  <2> QED
    BY <1>1, <2>2, <2>3
<1>6. CASE SenderReadPart
  <2>1. /\ Response \in Frame
        /\ sock' \in SockState
    BY <1>2, <1>6, CanReadFrame DEF SenderReadPart
  <2>2. ControlOK'
    BY <1>2, <1>6 DEF SenderReadPart, ControlOK, ConnectionBudget
  <2> QED
    BY <1>1, <1>2, <1>6, <2>1, <2>2 DEF SenderReadPart, NetRestOK, SenderDataOK
<1>7. CASE SenderReadResponse
  <2> DEFINE key  == <<Response.type, Response.seq>>
             rest == TakeHead(sock, SenderEnd)
  <2>1. Waits /\ CanRead
    BY <1>7 DEF SenderReadResponse, CanRead, Waits
  <2>2. Response \in Frame /\ rest \in SockState
    BY <1>2, <2>1, CanReadFrame
  <2>3. NetRestOK' /\ partial' \in Frame \cup {NoFrame}
    BY <1>2, <1>7 DEF SenderReadResponse, NetRestOK
  <2>4. CASE IsResponse(Response) /\ key = Expected
    <3>1. completed_responses' = completed_responses \cup {key} /\ Answered(rest)
      BY <1>7, <2>4 DEF SenderReadResponse
    <3>2. key \in {"Ack", "HeartbeatAck"} \X Nat
      BY <2>2, <2>4 DEF IsResponse, Frame
    <3>3. ControlOK' /\ sock' \in SockState
      BY <1>2, <2>1, <2>2, <3>1, AnsweredTyped
    <3> QED
      BY <1>1, <1>2, <2>3, <3>1, <3>2, <3>3 DEF SenderDataOK
  <2>5. CASE ~(IsResponse(Response) /\ key = Expected)
    <3>1. CASE IsResponse(Response) /\ Stale(key)
      <4>1. /\ sock' = rest
            /\ UNCHANGED <<sender_pc, phase, connect_attempt, attempt,
                           heartbeat_sequence, completed_responses, sender_error>>
        BY <1>7, <2>5, <3>1 DEF SenderReadResponse
      <4>2. ControlOK'
        BY <1>2, <2>1, <4>1 DEF ControlOK, ConnectionBudget, Waits
      <4> QED
        BY <1>1, <1>2, <2>2, <2>3, <4>1, <4>2 DEF SenderDataOK
    <3>2. CASE ~(IsResponse(Response) /\ Stale(key))
      <4> DEFINE reason == IF IsResponse(Response) THEN "unexpected response"
                                                   ELSE "invalid frame"
      <4>1. Fail(reason, rest) /\ UNCHANGED completed_responses
        BY <1>7, <2>5, <3>2 DEF SenderReadResponse
      <4>2. reason \in SenderErrors
        BY DEF SenderErrors
      <4>3. ControlOK' /\ sock' \in SockState
        BY <1>2, <2>1, <2>2, <4>1, <4>2, FailTyped
      <4> QED
        BY <1>1, <1>2, <2>3, <4>1, <4>3 DEF SenderDataOK
    <3> QED
      BY <3>1, <3>2
  <2> QED
    BY <2>4, <2>5
<1>8. CASE SenderReadLate
  <2> DEFINE rest == TakeHead(sock, SenderEnd)
  <2>1. Waits /\ CanRead
    BY <1>8 DEF SenderReadLate, CanRead, Waits
  <2>2. rest \in SockState
    BY <1>2, <2>1, CanReadFrame
  <2>3. NetRestOK' /\ SenderDataOK'
    BY <1>2, <1>8 DEF SenderReadLate, NetRestOK, SenderDataOK
  <2>4. "invalid frame" \in SenderErrors
    BY DEF SenderErrors
  <2>5. NoResponse(rest) \/ Fail("invalid frame", rest)
    BY <1>8 DEF SenderReadLate
  <2> QED
    BY <1>1, <1>2, <2>1, <2>2, <2>3, <2>4, <2>5, NoResponseTyped, FailTyped
<1>9. CASE SenderTimeout
  <2>1. Waits
    BY <1>9 DEF SenderTimeout, Waits
  <2>2. Shutdown(sock, {SenderEnd}) \in SockState
    BY <1>2, ShutdownType
  <2>3. NetRestOK' /\ SenderDataOK'
    BY <1>2, <1>9 DEF SenderTimeout, NetRestOK, SenderDataOK
  <2>4. "partial response" \in SenderErrors
    BY DEF SenderErrors
  <2>5. NoResponse(sock) \/ Fail("partial response", Shutdown(sock, {SenderEnd}))
    BY <1>9 DEF SenderTimeout
  <2> QED
    BY <1>1, <1>2, <2>1, <2>2, <2>3, <2>4, <2>5, NoResponseTyped, FailTyped
<1>10. CASE SenderConnectionLost
  <2>1. Waits /\ ConnectionLost(sock)
    BY <1>10 DEF SenderConnectionLost, Waits
  <2>2. NetRestOK' /\ SenderDataOK'
    BY <1>2, <1>10 DEF SenderConnectionLost, NetRestOK, SenderDataOK
  <2> QED
    BY <1>1, <1>2, <2>1, <2>2, ConnectionLostTyped
<1> QED
  BY <1>3, <1>4, <1>5, <1>6, <1>7, <1>8, <1>9, <1>10 DEF SenderNext

-----------------------------------------------------------------------------
(* One step of the fault injector.                                         *)

LEMMA SenderUnchanged ==
  ASSUME ControlOK, SenderDataOK, UNCHANGED senderVars
  PROVE  ControlOK' /\ SenderDataOK'
BY DEF ControlOK, ConnectionBudget, SenderDataOK, senderVars

(* What a relay step decides: the sockets, and the point reached.          *)
RelayOK ==
  /\ sock \in SockState
  /\ NetRestOK
  /\ proxy_pc \in ProxyPc
  /\ conn \in 0 .. MaxConn
  /\ proxy_pc \notin {"down", "accept", "killed"} => conn \in Conns

Relays == conn \in Conns /\ sock \in SockState /\ NetRestOK

LEMMA RelayEnds ==
  ASSUME conn \in Conns
  PROVE  FrontEnd \in Ends /\ BackEnd \in Ends
BY DEF FrontEnd, BackEnd, Ends, Sides

LEMMA TeardownTyped ==
  ASSUME Relays, NEW s \in SockState, Teardown(s)
  PROVE  RelayOK' /\ proxy_pc' # "delay"
BY CloseFdType, MaxConnAssumption
   DEF Relays, Teardown, BothEnds, RelayOK, NetRestOK, ProxyPc

LEMMA ForwardTyped ==
  ASSUME Relays, NEW s \in SockState, NEW to \in Ends, NEW f \in Frame,
         NEW pc \in ProxyPc \ {"delay"}, Forward(s, to, f, pc)
  PROVE  RelayOK' /\ proxy_pc' # "delay"
<1>1. CASE /\ CanSend(s, to)
           /\ sock' = Put(s, to, f)
           /\ proxy_pc' = pc
           /\ UNCHANGED <<conn, backlog, listening>>
  BY <1>1, PutType DEF Relays, RelayOK, NetRestOK, Conns
<1>2. CASE Teardown(s)
  BY <1>2, TeardownTyped
<1>3. CASE /\ proxy_pc' = "killed"
           /\ conn' = 0
           /\ Die(s, "front", {"front", "back"})
  <2>1. "front" \in Listeners
    BY DEF Listeners
  <2>2. sock' \in SockState /\ NetRestOK'
    BY <1>3, <2>1, DieType DEF Relays, NetRestOK
  <2> QED
    BY <1>3, <2>2, MaxConnAssumption DEF RelayOK, ProxyPc
<1> QED
  BY <1>1, <1>2, <1>3 DEF Forward

LEMMA ReceivedType ==
  ASSUME sock \in SockState, NEW e \in Ends
  PROVE  /\ Received(e) \in SockState
         /\ sock[e].buf # <<>> => Head(sock[e].buf) \in Frame
BY TakeHeadType DEF Received

(* What the rest of a relay step decides.                                  *)
ProxyDataOK ==
  /\ fault_mode \in FaultModes
  /\ fault_applied \in BOOLEAN
  /\ revents \in [{"front", "back"} -> Events]
  /\ delayed \in Frame \cup {NoFrame}
  /\ faults \in Nat

DelayedOK == proxy_pc = "delay" => delayed \in Frame

LEMMA ProxyParts ==
  /\ RelayOK /\ ProxyDataOK /\ DelayedOK
  <=> sock \in SockState /\ NetRestOK /\ ProxyTypeOK
BY DEF RelayOK, ProxyDataOK, DelayedOK, ProxyTypeOK

LEMMA ProxyTyped ==
  ASSUME TypeInv, ProxyNext, UNCHANGED <<senderVars, receiverVars>>
  PROVE  TypeInv'
<1>1. ControlOK' /\ SenderDataOK' /\ ReceiverTypeOK'
  BY SenderUnchanged DEF TypeInv, ReceiverTypeOK, receiverVars
<1>2. RelayOK /\ ProxyDataOK /\ DelayedOK
  BY ProxyParts DEF TypeInv
<1> SUFFICES RelayOK' /\ ProxyDataOK' /\ DelayedOK'
  BY <1>1 DEF TypeInv, RelayOK, ProxyDataOK, DelayedOK, ProxyTypeOK
<1> USE DEF DelayedOK
<1>3. CASE ProxyStart
  <2>1. listening' \in [Listeners -> BOOLEAN]
    BY <1>2, <1>3 DEF ProxyStart, RelayOK, NetRestOK, Listeners
  <2> QED
    BY <1>2, <1>3, <2>1 DEF ProxyStart, RelayOK, ProxyDataOK, NetRestOK, ProxyPc
<1>4. CASE ProxyAccept
  <2>1. backlog["front"] \in Seq(Conns) /\ backlog["front"] # <<>>
    BY <1>2, <1>4 DEF ProxyAccept, RelayOK, NetRestOK, Listeners
  <2>2. Head(backlog["front"]) \in Conns /\ Tail(backlog["front"]) \in Seq(Conns)
    BY <2>1
  <2>3. NetRestOK'
    BY <1>2, <1>4, <2>2 DEF ProxyAccept, RelayOK, NetRestOK
  <2> QED
    BY <1>2, <1>4, <2>2, <2>3, MaxConnAssumption
       DEF ProxyAccept, RelayOK, ProxyDataOK, ProxyPc, Conns
<1>5. CASE ProxyConnect
  <2>1. conn \in Conns /\ ProxyDataOK'
    BY <1>2, <1>5 DEF ProxyConnect, RelayOK, ProxyDataOK
  <2>2. CASE listening["rcv"]
    <3>1. Establish("back", "rcv", conn) /\ proxy_pc' = "poll" /\ UNCHANGED <<conn, listening>>
      BY <1>5, <2>2 DEF ProxyConnect
    <3>2. "back" \in Sides /\ "rcv" \in Listeners
      BY DEF Sides, Listeners
    <3>3. sock' \in SockState /\ NetRestOK'
      BY <1>2, <2>1, <3>1, <3>2, EstablishType DEF RelayOK, NetRestOK
    <3> QED
      BY <1>2, <2>1, <3>1, <3>3 DEF RelayOK, ProxyPc
  <2>3. CASE ~listening["rcv"]
    BY <1>2, <1>5, <2>1, <2>3, CloseFdType, MaxConnAssumption
       DEF ProxyConnect, RelayOK, NetRestOK, ProxyPc
  <2> QED
    BY <2>1, <2>2, <2>3
<1>6. CASE ProxyPoll
  <2>1. conn \in Conns
    BY <1>2, <1>6 DEF ProxyPoll, RelayOK
  <2>2. \A d \in {"front", "back"} : <<d, conn>> \in Ends
    BY <2>1 DEF Ends, Sides
  <2>3. \A e \in Ends : PollIn(e) \in BOOLEAN /\ PollErr(e) \in BOOLEAN
    BY <1>2 DEF RelayOK, SockState, SockOf, SocketOf, PollIn, PollErr, Readable
  <2>4. revents' \in [{"front", "back"} -> Events]
    BY <1>6, <2>2, <2>3 DEF ProxyPoll, Events
  <2> QED
    BY <1>2, <1>6, <2>1, <2>4
       DEF ProxyPoll, RelayOK, ProxyDataOK, NetRestOK, ProxyPc
<1>7. CASE RelayFromSender
  <2> DEFINE f == Head(sock[FrontEnd].buf)
             s == Received(FrontEnd)
  <2>1. Relays /\ FrontEnd \in Ends /\ BackEnd \in Ends
    BY <1>2, <1>7, RelayEnds DEF RelayFromSender, BothEnds, RelayOK, Relays
  <2>2. s \in SockState /\ (~ReceiveThrows(FrontEnd) => f \in Frame)
    BY <2>1, ReceivedType DEF Relays, ReceiveThrows
  <2>3. ProxyDataOK'
    <3>1. Inject \/ NoFault
      BY <1>7, Zenon DEF RelayFromSender, BothEnds
    <3>2. UNCHANGED <<fault_mode, revents, delayed>>
      BY <1>7 DEF RelayFromSender, BothEnds
    <3>3. fault_applied' \in BOOLEAN
      <4>1. CASE Inject
        BY <4>1 DEF Inject
      <4>2. CASE NoFault
        BY <1>2, <4>2 DEF ProxyDataOK, NoFault
      <4> QED
        BY <3>1, <4>1, <4>2
    <3>4. faults' \in Nat
      BY <1>2, <3>1 DEF ProxyDataOK, Inject, NoFault
    <3> QED
      BY <1>2, <3>2, <3>3, <3>4 DEF ProxyDataOK
  <2>4. {"poll", "back"} \subseteq ProxyPc \ {"delay"}
    BY DEF ProxyPc
  <2>5. CASE ReceiveThrows(FrontEnd)
    BY <1>7, <2>1, <2>2, <2>3, <2>5, TeardownTyped DEF RelayFromSender, BothEnds
  <2>6. CASE ~ReceiveThrows(FrontEnd) /\ CorruptsNow(f)
    <3>1. Forward(s, BackEnd, Corrupted(f), "poll")
      BY <1>7, <2>6 DEF RelayFromSender, BothEnds
    <3> QED
      BY <2>1, <2>2, <2>3, <2>4, <2>6, <3>1, ForwardTyped, CorruptedIsFrame
  <2>7. CASE ~ReceiveThrows(FrontEnd) /\ ~CorruptsNow(f) /\ DisconnectsNow(f)
    <3>1. Teardown(Shutdown(s, {FrontEnd, BackEnd}))
      BY <1>7, <2>7 DEF RelayFromSender, BothEnds
    <3>2. Shutdown(s, {FrontEnd, BackEnd}) \in SockState
      BY <2>2, ShutdownType
    <3> QED
      BY <2>1, <2>3, <3>1, <3>2, TeardownTyped
  <2>8. CASE ~ReceiveThrows(FrontEnd) /\ ~CorruptsNow(f) /\ ~DisconnectsNow(f)
    <3>1. Forward(s, BackEnd, f, "back")
      BY <1>7, <2>8 DEF RelayFromSender, BothEnds
    <3> QED
      BY <2>1, <2>2, <2>3, <2>4, <2>8, <3>1, ForwardTyped
  <2> QED
    BY <2>5, <2>6, <2>7, <2>8
<1>8. CASE RelayFromReceiver
  <2> DEFINE f == Head(sock[BackEnd].buf)
             s == Received(BackEnd)
             first == f.type = "Ack" /\ ~fault_applied
  <2>1. Relays /\ FrontEnd \in Ends /\ BackEnd \in Ends
    BY <1>2, <1>8, RelayEnds DEF RelayFromReceiver, RelayOK, Relays
  <2>2. s \in SockState /\ (~ReceiveThrows(BackEnd) => f \in Frame)
    BY <2>1, ReceivedType DEF Relays, ReceiveThrows
  <2>3. {"poll", "delay"} \subseteq ProxyPc /\ "hangup" \in ProxyPc \ {"delay"}
    BY DEF ProxyPc
  <2>4. CASE ReceiveThrows(BackEnd)
    <3>1. Teardown(s) /\ NoFault /\ UNCHANGED <<fault_mode, revents, delayed>>
      BY <1>8, <2>4 DEF RelayFromReceiver
    <3> QED
      BY <1>2, <2>1, <2>2, <3>1, TeardownTyped DEF NoFault, ProxyDataOK
  <2>5. CASE ~ReceiveThrows(BackEnd) /\ first /\ fault_mode = "DropAck"
    <3>1. /\ sock' = s /\ proxy_pc' = "poll" /\ Inject
          /\ UNCHANGED <<conn, backlog, listening, fault_mode, revents, delayed>>
      BY <1>8, <2>5 DEF RelayFromReceiver
    <3> QED
      BY <1>2, <2>1, <2>2, <2>3, <3>1
         DEF Relays, RelayOK, NetRestOK, ProxyDataOK, Inject
  <2>6. CASE ~ReceiveThrows(BackEnd) /\ first /\ fault_mode = "DelayAck"
    <3>1. /\ sock' = s /\ proxy_pc' = "delay" /\ NoFault /\ delayed' = f
          /\ UNCHANGED <<conn, backlog, listening, fault_mode, revents>>
      BY <1>8, <2>6 DEF RelayFromReceiver
    <3> QED
      BY <1>2, <2>1, <2>2, <2>3, <2>6, <3>1
         DEF Relays, RelayOK, NetRestOK, ProxyDataOK, NoFault
  <2>7. CASE /\ ~ReceiveThrows(BackEnd)
             /\ ~(first /\ fault_mode = "DropAck")
             /\ ~(first /\ fault_mode = "DelayAck")
    <3>1. /\ Forward(s, FrontEnd, f, "hangup") /\ NoFault
          /\ UNCHANGED <<fault_mode, revents, delayed>>
      BY <1>8, <2>7 DEF RelayFromReceiver
    <3> QED
      BY <1>2, <2>1, <2>2, <2>3, <2>7, <3>1, ForwardTyped
         DEF ProxyDataOK, NoFault
  <2> QED
    BY <2>4, <2>5, <2>6, <2>7
<1>9. CASE RelaySkips
  <2>1. conn \in Conns /\ proxy_pc' \in {"back", "hangup"}
    BY <1>2, <1>9 DEF RelaySkips, RelayOK
  <2> QED
    BY <1>2, <1>9, <2>1 DEF RelaySkips, RelayOK, ProxyDataOK, NetRestOK, ProxyPc
<1>10. CASE RelayDelayedAck
  <2>1. Relays /\ FrontEnd \in Ends /\ "hangup" \in ProxyPc \ {"delay"}
    BY <1>2, <1>10, RelayEnds DEF RelayDelayedAck, RelayOK, Relays, ProxyPc
  <2>2. ProxyDataOK'
    BY <1>2, <1>10 DEF RelayDelayedAck, ProxyDataOK, Inject
  <2>3. sock \in SockState /\ delayed \in Frame
    BY <1>2, <1>10 DEF RelayOK, RelayDelayedAck
  <2> QED
    BY <1>10, <2>1, <2>2, <2>3, ForwardTyped DEF RelayDelayedAck
<1>11. CASE RelayHangup
  <2>1. Relays /\ ProxyDataOK'
    BY <1>2, <1>11 DEF RelayHangup, RelayOK, Relays, ProxyDataOK
  <2>2. CASE revents["front"].err \/ revents["back"].err
    BY <1>11, <2>1, <2>2, TeardownTyped DEF RelayHangup, Relays
  <2>3. CASE ~(revents["front"].err \/ revents["back"].err)
    BY <1>2, <1>11, <2>1, <2>3 DEF RelayHangup, RelayOK, NetRestOK, ProxyPc, Relays
  <2> QED
    BY <2>1, <2>2, <2>3
<1> QED
  BY <1>3, <1>4, <1>5, <1>6, <1>7, <1>8, <1>9, <1>10, <1>11
     DEF ProxyNext, ProxyRun

-----------------------------------------------------------------------------
(* One step of the receiver.                                               *)

LEMMA ProxyUnchanged ==
  ASSUME ProxyTypeOK, UNCHANGED proxyVars
  PROVE  ProxyTypeOK'
BY DEF ProxyTypeOK, proxyVars

(* Whatever ends the receiver process leaves well-typed sockets behind.    *)
LEMMA ReceiverDieTyped ==
  ASSUME NEW s \in SockState, NetRestOK, Die(s, "rcv", {"rcv"})
  PROVE  sock' \in SockState /\ NetRestOK'
BY DieType DEF NetRestOK, Listeners

LEMMA ReceiverExitTyped ==
  ASSUME NEW s \in SockState, NetRestOK, ReceiverTypeOK, UNCHANGED starts,
         NEW pc \in {"exited", "killed"}, ReceiverExit(s, pc)
  PROVE  sock' \in SockState /\ NetRestOK' /\ ReceiverTypeOK'
<1>1. sock' \in SockState /\ NetRestOK'
  BY ReceiverDieTyped DEF ReceiverExit
<1> QED
  BY <1>1, MaxConnAssumption DEF ReceiverExit, ReceiverTypeOK, ReceiverPc

(* DATA and HEARTBEAT handling.                                            *)
LEMMA HandleTyped ==
  ASSUME sock \in SockState, NetRestOK, ReceiverTypeOK, UNCHANGED starts,
         receiver_pc = "recv", sock[ReceiverEnd].buf # <<>>,
         NEW f, f = Head(sock[ReceiverEnd].buf),
         HandleData(f) \/ HandleHeartbeat(f)
  PROVE  sock' \in SockState /\ NetRestOK' /\ ReceiverTypeOK'
<1>1. ReceiverEnd \in Ends
  BY DEF ReceiverTypeOK, ReceiverEnd, Ends, Sides
<1>2. TakeHead(sock, ReceiverEnd) \in SockState /\ f \in Frame
  BY <1>1, TakeHeadType
<1>3. f.seq \in Nat
  BY <1>2 DEF Frame
<1>4. Packet("Ack", f.seq) \in Frame /\ Packet("HeartbeatAck", f.seq) \in Frame
  BY <1>3, PacketIsFrame DEF MessageType
<1>5. sock' \in SockState /\ NetRestOK'
  BY <1>2 DEF HandleData, Remembered, AckFor, HandleHeartbeat, NetRestOK
<1>6. CASE HandleData(f)
  <2>1. /\ reply' \in Frame /\ receiver_pc' = "reply"
        /\ UNCHANGED <<client_fd, heard, starts>>
    BY <1>4, <1>6 DEF HandleData, Remembered, AckFor
  <2>2. [process |-> starts, frame |-> f] \in Delivery
    BY <1>2 DEF ReceiverTypeOK, Delivery
  <2>3. delivered' \in Seq(Delivery) /\ processed_sequences' \subseteq Nat
    <3>1. CASE f.seq \in processed_sequences
      BY <1>6, <3>1 DEF HandleData, Remembered, AckFor, ReceiverTypeOK
    <3>2. CASE f.seq \notin processed_sequences
      <4>1. /\ processed_sequences' = processed_sequences \cup {f.seq}
            /\ delivered' = Append(delivered, [process |-> starts, frame |-> f])
        BY <1>6, <3>2 DEF HandleData, Remembered, AckFor
      <4>2. delivered \in Seq(Delivery) /\ processed_sequences \subseteq Nat
        BY DEF ReceiverTypeOK
      <4>3. \A r \in Delivery : Append(delivered, r) \in Seq(Delivery)
        BY <4>2
      <4>4. delivered' \in Seq(Delivery)
        BY <2>2, <4>1, <4>3, Zenon
      <4> QED
        BY <1>3, <4>1, <4>2, <4>4
    <3> QED
      BY <3>1, <3>2
  <2> QED
    BY <1>5, <2>1, <2>3 DEF ReceiverTypeOK, ReceiverPc
<1>7. CASE HandleHeartbeat(f)
  BY <1>3, <1>4, <1>5, <1>7 DEF HandleHeartbeat, ReceiverTypeOK, ReceiverPc
<1> QED
  BY <1>6, <1>7

LEMMA ReceiverTyped ==
  ASSUME TypeInv, ReceiverNext, UNCHANGED <<senderVars, proxyVars>>
  PROVE  TypeInv'
<1>1. ControlOK' /\ SenderDataOK' /\ ProxyTypeOK'
  BY SenderUnchanged, ProxyUnchanged DEF TypeInv
<1>2. sock \in SockState /\ NetRestOK /\ ReceiverTypeOK
  BY DEF TypeInv
<1> SUFFICES sock' \in SockState /\ NetRestOK' /\ ReceiverTypeOK'
  BY <1>1 DEF TypeInv
<1>3. CASE ReceiverStart
  <2>1. NetRestOK'
    BY <1>2, <1>3 DEF ReceiverStart, NetRestOK, Listeners
  <2> QED
    BY <1>2, <1>3, <2>1, ReceiverAssumption
       DEF ReceiverStart, ReceiverTypeOK, ReceiverPc
<1>4. CASE ReceiverCrash
  <2>1. sock' \in SockState /\ NetRestOK'
    BY <1>2, <1>4, ReceiverDieTyped DEF ReceiverCrash
  <2> QED
    BY <1>2, <1>4, <2>1, MaxConnAssumption
       DEF ReceiverCrash, ReceiverTypeOK, ReceiverPc
<1>5. CASE ReceiverAccept
  <2>1. backlog["rcv"] \in Seq(Conns) /\ backlog["rcv"] # <<>>
    BY <1>2, <1>5 DEF ReceiverAccept, NetRestOK, Listeners
  <2>2. Head(backlog["rcv"]) \in Conns /\ Tail(backlog["rcv"]) \in Seq(Conns)
    BY <2>1
  <2>3. NetRestOK'
    BY <1>2, <1>5, <2>2 DEF ReceiverAccept, NetRestOK
  <2> QED
    BY <1>2, <1>5, <2>2, <2>3, MaxConnAssumption
       DEF ReceiverAccept, ReceiverTypeOK, ReceiverPc, Conns
<1>6. CASE ReceiverRead
  <2> DEFINE f == Head(sock[ReceiverEnd].buf)
  <2>1. CASE HandleData(f) \/ HandleHeartbeat(f)
    BY <1>2, <1>6, <2>1, HandleTyped DEF ReceiverRead
  <2>2. CASE ReceiverExit(TakeHead(sock, ReceiverEnd), "exited")
    <3>1. ReceiverEnd \in Ends /\ sock[ReceiverEnd].buf # <<>>
      BY <1>2, <1>6 DEF ReceiverRead, ReceiverTypeOK, ReceiverEnd, Ends, Sides
    <3>2. TakeHead(sock, ReceiverEnd) \in SockState
      BY <1>2, <3>1, TakeHeadType
    <3> QED
      BY <1>2, <1>6, <2>2, <3>2, ReceiverExitTyped DEF ReceiverRead
  <2> QED
    BY <1>6, <2>1, <2>2 DEF ReceiverRead
<1>7. CASE ReceiverEOF
  <2>1. sock' \in SockState /\ NetRestOK'
    BY <1>2, <1>7, CloseFdType DEF ReceiverEOF, Released, NetRestOK
  <2> QED
    BY <1>2, <1>7, <2>1, MaxConnAssumption
       DEF ReceiverEOF, Released, ReceiverTypeOK, ReceiverPc
<1>8. CASE ReceiverRecvFailed
  BY <1>2, <1>8, ReceiverExitTyped DEF ReceiverRecvFailed
<1>9. CASE ReceiverReply
  <2>1. CASE /\ sock' = Put(sock, ReceiverEnd, reply)
             /\ receiver_pc' = "recv"
             /\ UNCHANGED <<client_fd, reply, processed_sequences, delivered,
                            heard, backlog, listening>>
    <3>1. ReceiverEnd \in Ends /\ reply \in Frame
      BY <1>2, <1>9 DEF ReceiverReply, ReceiverTypeOK, ReceiverEnd, Ends, Sides
    <3>2. sock' \in SockState
      BY <1>2, <2>1, <3>1, PutType
    <3> QED
      BY <1>2, <1>9, <2>1, <3>2
         DEF ReceiverReply, ReceiverTypeOK, ReceiverPc, NetRestOK
  <2>2. CASE ReceiverExit(sock, "exited")
    BY <1>2, <1>9, <2>2, ReceiverExitTyped DEF ReceiverReply
  <2>3. CASE ReceiverExit(sock, "killed")
    BY <1>2, <1>9, <2>3, ReceiverExitTyped DEF ReceiverReply
  <2> QED
    BY <1>9, <2>1, <2>2, <2>3 DEF ReceiverReply
<1> QED
  BY <1>3, <1>4, <1>5, <1>6, <1>7, <1>8, <1>9 DEF ReceiverNext, ReceiverRun

-----------------------------------------------------------------------------
(* TypeInv holds at the start.                                             *)
LEMMA InitTyped ==
  ASSUME Init
  PROVE  TypeInv
<1>1. ControlOK
  BY SenderAssumption
     DEF Init, SenderInit, ControlOK, ConnectionBudget, SenderPc, Phases,
         SenderErrors
<1>2. sock \in SockState
  BY DEF Init, NetInit, SockState, SockOf, SocketOf, Closed
<1>3. NetRestOK
  BY DEF Init, NetInit, NetRestOK
<1>4. SenderDataOK
  BY DEF Init, SenderInit, SenderDataOK
<1>5. ProxyTypeOK
  <2>1. NoEvents \in Events /\ FALSE \in BOOLEAN
    BY DEF NoEvents, Events
  <2>2. ProxyInit
    BY DEF Init
  <2>3. revents \in [{"front", "back"} -> Events]
    BY <2>1, <2>2 DEF ProxyInit
  <2>4. fault_applied \in BOOLEAN
    BY <2>1, <2>2, Zenon DEF ProxyInit
  <2>5. proxy_pc = "down" /\ fault_mode \in FaultModes /\ conn = 0
        /\ delayed = NoFrame /\ faults = 0
    BY <2>2 DEF ProxyInit
  <2> QED
    BY <2>3, <2>4, <2>5, MaxConnAssumption DEF ProxyTypeOK, ProxyPc
<1>6. ReceiverTypeOK
  BY MaxConnAssumption, ReceiverAssumption
     DEF Init, ReceiverInit, ReceiverTypeOK, ReceiverPc
<1> QED
  BY <1>1, <1>2, <1>3, <1>4, <1>5, <1>6 DEF TypeInv

(* A step keeps TypeInv: one of the three processes moves, or none does.   *)
LEMMA NextTyped ==
  ASSUME TypeInv, [Next]_vars
  PROVE  TypeInv'
<1>1. CASE SenderStep
  BY <1>1, SenderTyped DEF SenderStep
<1>2. CASE ProxyStep
  BY <1>2, ProxyTyped DEF ProxyStep
<1>3. CASE ReceiverStep
  BY <1>3, ReceiverTyped DEF ReceiverStep
<1>4. CASE UNCHANGED vars
  <2>1. UNCHANGED <<netVars, senderVars, proxyVars, receiverVars>>
    BY <1>4 DEF vars
  <2>2. ControlOK' /\ SenderDataOK' /\ ProxyTypeOK'
    BY <2>1, SenderUnchanged, ProxyUnchanged DEF TypeInv
  <2>3. ReceiverTypeOK'
    BY <2>1 DEF TypeInv, ReceiverTypeOK, receiverVars
  <2> QED
    BY <2>1, <2>2, <2>3 DEF TypeInv, NetRestOK, netVars
<1> QED
  BY <1>1, <1>2, <1>3, <1>4 DEF Next

THEOREM TypeInvariant == Spec => []TypeInv
<1>1. Init => TypeInv
  BY InitTyped
<1>2. TypeInv /\ [Next]_vars => TypeInv'
  BY NextTyped
<1> QED
  BY <1>1, <1>2, PTL DEF Spec

(* For every number of retries, heartbeats, connect attempts and receiver  *)
(* processes, no counter of the sender passes its limit, the sender opens  *)
(* at most one connection per heartbeat after its first, and no process    *)
(* works on a connection it does not have.                                 *)
THEOREM TypeCorrect == Spec => []TypeOK
<1>1. TypeInv => TypeOK
  BY TypeInvImpliesTypeOK
<1> QED
  BY <1>1, TypeInvariant, PTL

-----------------------------------------------------------------------------
(***************************************************************************)
(* Part 2: safety.  Processing once, one fault, honest responses, intact   *)
(* deliveries, one request at a time, no descriptor lost.  Honest          *)
(* responses, intact deliveries and one request at a time have one         *)
(* inductive invariant, which says of every frame, wherever it is, what    *)
(* must have happened before it was sent.                                  *)
(***************************************************************************)

-----------------------------------------------------------------------------
(* Processing once.  A new process forgets the sequences of the old one;   *)
(* what the running one has processed is what it remembers.                *)

OnceInv ==
  /\ \A i \in DOMAIN delivered :
       /\ delivered[i].process <= starts
       /\ delivered[i].process = starts =>
            delivered[i].frame.seq \in processed_sequences
  /\ ProcessedOnce

LEMMA OnceInvStep ==
  ASSUME TypeInv, OnceInv, [Next]_vars
  PROVE  OnceInv'
<1> USE DEF OnceInv, ProcessedOnce
<1>1. /\ delivered \in Seq(Delivery) /\ starts \in Nat
      /\ \A i \in DOMAIN delivered : delivered[i] \in Delivery
  BY ReceiverAssumption DEF TypeInv, ReceiverTypeOK
<1>2. CASE UNCHANGED <<delivered, processed_sequences, starts>>
  BY <1>2
<1>3. CASE ReceiverStart
  <2>1. UNCHANGED delivered /\ starts' = starts + 1
    BY <1>3 DEF ReceiverStart
  <2>2. \A i \in DOMAIN delivered :
          delivered[i].process \in Nat /\ delivered[i].process < starts'
    BY <1>1, <2>1 DEF Delivery
  <2> QED
    BY <1>1, <2>1, <2>2
<1>4. CASE ReceiverRead
  <2> DEFINE f == Head(sock[ReceiverEnd].buf)
  <2>1. CASE HandleData(f)
    <3>1. CASE f.seq \in processed_sequences
      BY <1>2, <1>4, <2>1, <3>1 DEF HandleData, Remembered, AckFor, ReceiverRead
    <3>2. CASE f.seq \notin processed_sequences
      <4> DEFINE d == [process |-> starts, frame |-> f]
      <4>1. /\ processed_sequences' = processed_sequences \cup {f.seq}
            /\ delivered' = Append(delivered, d) /\ starts' = starts
        BY <1>4, <2>1, <3>2 DEF HandleData, Remembered, AckFor, ReceiverRead
      <4>2. /\ d.process = starts /\ d.frame.seq = f.seq
            /\ \A i \in DOMAIN delivered :
                 ~(/\ delivered[i].process = d.process
                   /\ delivered[i].frame.seq = d.frame.seq)
        BY <3>2
      <4> HIDE DEF d
      <4>3. /\ Len(delivered) \in Nat
            /\ DOMAIN delivered = 1 .. Len(delivered)
            /\ DOMAIN delivered' = 1 .. Len(delivered) + 1
            /\ delivered'[Len(delivered) + 1] = d
            /\ \A i \in DOMAIN delivered : delivered'[i] = delivered[i]
        BY <1>1, <4>1
      <4> QED
        BY <1>1, <4>1, <4>2, <4>3
    <3> QED
      BY <3>1, <3>2
  <2>2. CASE HandleHeartbeat(f)
    BY <1>2, <1>4, <2>2 DEF HandleHeartbeat, ReceiverRead
  <2>3. CASE ReceiverExit(TakeHead(sock, ReceiverEnd), "exited")
    BY <1>2, <1>4, <2>3 DEF ReceiverExit, ReceiverRead
  <2> QED
    BY <1>4, <2>1, <2>2, <2>3 DEF ReceiverRead
<1>5. CASE ReceiverStep /\ ~ReceiverStart /\ ~ReceiverRead
  BY <1>2, <1>5
     DEF ReceiverStep, ReceiverNext, ReceiverRun, ReceiverCrash, ReceiverAccept,
         ReceiverEOF, Released, ReceiverRecvFailed, ReceiverReply, ReceiverExit
<1>6. CASE SenderStep \/ ProxyStep \/ UNCHANGED vars
  BY <1>2, <1>6 DEF SenderStep, ProxyStep, vars, receiverVars
<1> QED
  BY <1>3, <1>4, <1>5, <1>6 DEF Next

(* However often the sender retries and over however many connections, one *)
(* receiver process hands a DATA sequence to the application once.         *)
THEOREM ProcessesOnce == Spec => []ProcessedOnce
<1>1. Init => OnceInv
  BY DEF Init, ReceiverInit, OnceInv, ProcessedOnce
<1>2. TypeInv /\ OnceInv /\ [Next]_vars => OnceInv'
  BY OnceInvStep
<1>3. OnceInv => ProcessedOnce
  BY DEF OnceInv
<1> QED
  BY <1>1, <1>2, <1>3, TypeInvariant, PTL DEF Spec

-----------------------------------------------------------------------------
(* One fault.  A held ACK is a fault that was begun and not yet counted.   *)

FaultInv ==
  /\ faults = IF fault_applied THEN 1 ELSE 0
  /\ proxy_pc = "delay" => ~fault_applied

LEMMA FaultInvStep ==
  ASSUME TypeInv, FaultInv, [Next]_vars
  PROVE  FaultInv'
<1>1. CASE NoFault /\ proxy_pc' # "delay"
  BY <1>1 DEF FaultInv, NoFault
<1>2. CASE Inject /\ ~fault_applied /\ proxy_pc' # "delay"
  BY <1>2 DEF FaultInv, Inject
<1>3. ASSUME NEW s, Teardown(s)
      PROVE  proxy_pc' # "delay"
  BY <1>3 DEF Teardown, BothEnds
<1>4. ASSUME NEW s, NEW to, NEW f, NEW pc, pc # "delay", Forward(s, to, f, pc)
      PROVE  proxy_pc' # "delay"
  BY <1>3, <1>4 DEF Forward
<1>5. CASE RelayFromSender
  <2>1. proxy_pc' # "delay"
    BY <1>3, <1>4, <1>5 DEF RelayFromSender, BothEnds
  <2>2. NoFault \/ (Inject /\ ~fault_applied)
    BY <1>5, Zenon DEF RelayFromSender, BothEnds, CorruptsNow, DisconnectsNow
  <2> QED
    BY <1>1, <1>2, <2>1, <2>2
<1>6. CASE RelayFromReceiver
  <2> DEFINE f == Head(sock[BackEnd].buf)
             s == Received(BackEnd)
             first == f.type = "Ack" /\ ~fault_applied
  <2>1. CASE first /\ fault_mode = "DelayAck" /\ ~ReceiveThrows(BackEnd)
    <3>1. NoFault
      BY <1>6, <2>1 DEF RelayFromReceiver
    <3> QED
      BY <2>1, <3>1 DEF FaultInv, NoFault
  <2>2. CASE first /\ fault_mode = "DropAck" /\ ~ReceiveThrows(BackEnd)
    <3>1. Inject /\ proxy_pc' = "poll"
      BY <1>6, <2>2 DEF RelayFromReceiver
    <3> QED
      BY <1>2, <2>2, <3>1
  <2>3. CASE ReceiveThrows(BackEnd)
    BY <1>1, <1>3, <1>6, <2>3 DEF RelayFromReceiver
  <2>4. CASE /\ ~ReceiveThrows(BackEnd)
             /\ ~(first /\ fault_mode = "DropAck")
             /\ ~(first /\ fault_mode = "DelayAck")
    <3>1. Forward(s, FrontEnd, f, "hangup") /\ NoFault
      BY <1>6, <2>4 DEF RelayFromReceiver
    <3> QED
      BY <1>1, <1>4, <3>1
  <2> QED
    BY <2>1, <2>2, <2>3, <2>4
<1>7. CASE RelayDelayedAck
  <2>1. Inject /\ ~fault_applied /\ Forward(sock, FrontEnd, delayed, "hangup")
    BY <1>7 DEF RelayDelayedAck, FaultInv
  <2> QED
    BY <1>2, <1>4, <2>1
<1>8. CASE ProxyStart \/ ProxyAccept \/ ProxyConnect \/ ProxyPoll
           \/ RelaySkips \/ RelayHangup
  <2>1. NoFault
    BY <1>8 DEF ProxyStart, ProxyAccept, ProxyConnect, ProxyPoll, RelaySkips,
                RelayHangup, NoFault
  <2>2. proxy_pc' # "delay"
    BY <1>3, <1>8 DEF ProxyStart, ProxyAccept, ProxyConnect, ProxyPoll,
                      RelaySkips, RelayHangup
  <2> QED
    BY <1>1, <2>1, <2>2
<1>9. CASE SenderStep \/ ReceiverStep \/ UNCHANGED vars
  BY <1>9 DEF SenderStep, ReceiverStep, vars, proxyVars, FaultInv
<1> QED
  BY <1>5, <1>6, <1>7, <1>8, <1>9 DEF Next, ProxyStep, ProxyNext, ProxyRun

(* The fault of the command line is injected at most once per process,     *)
(* over however many connections it relays.                                *)
THEOREM InjectsOneFault == Spec => []OneFault
<1>1. Init => FaultInv
  BY DEF Init, ProxyInit, FaultInv
<1>2. TypeInv /\ FaultInv /\ [Next]_vars => FaultInv'
  BY FaultInvStep
<1>3. FaultInv => OneFault
  BY DEF FaultInv, OneFault
<1> QED
  BY <1>1, <1>2, <1>3, TypeInvariant, PTL DEF Spec

-----------------------------------------------------------------------------
(* Where frames come from.  F is any set of frames: if everything on the   *)
(* way is in F, and so is what a step sends, then everything is afterwards.*)

LEMMA NoFrameIsNone == NoFrame \notin Frame
BY DEF NoFrame, Frame, FrameType, MessageType

(* Leaving a point of the sender's main sends nothing.                     *)
LEMMA LeaveFlow ==
  ASSUME NEW F, NEW s \in SockOf(F), NEW r,
         \/ Fail(r, s) \/ Reconnect(s) \/ ConnectionLost(s)
         \/ NoResponse(s) \/ Answered(s)
  PROVE  sock' \in SockOf(F)
<1>1. CloseFd(s, {SenderEnd}) \in SockOf(F)
  BY CloseFdOf
<1> QED
  BY <1>1, Zenon DEF Fail, Reconnect, ConnectionLost, NoResponse, RetriesLeft, Answered

LEMMA SenderFlow ==
  ASSUME TypeInv, SenderNext,
         NEW F, Fragment \in F, Request \in F,
         sock \in SockOf(F), partial \in F \cup {NoFrame}
  PROVE  /\ sock' \in SockOf(F)
         /\ partial' \in F \cup {NoFrame}
         /\ CanRead => Response \in F
<1>1. sender_pc \in {"send", "wait"} => SenderEnd \in Ends
  BY SenderEndIsEnd DEF TypeInv
<1>2. CanRead => /\ Response \in F
                 /\ TakeHead(sock, SenderEnd) \in SockOf(F)
                 /\ LeaveRest(sock, SenderEnd) \in SockOf(F)
  BY <1>1, TakeHeadOf, LeaveRestOf DEF CanRead, Response
<1> SUFFICES sock' \in SockOf(F) /\ partial' \in F \cup {NoFrame}
  BY <1>2
<1>3. CASE SenderConnect
  BY <1>3, EstablishOf DEF SenderConnect
<1>4. CASE SenderConnectRefused
  BY <1>4 DEF SenderConnectRefused
<1>5. CASE SenderSend
  <2>1. Put(sock, SenderEnd, Request) \in SockOf(F)
    BY <1>1, <1>5, PutOf DEF SenderSend
  <2>2. CloseFd(sock, {SenderEnd}) \in SockOf(F)
    BY CloseFdOf
  <2> QED
    BY <1>5, <2>1, <2>2, LeaveFlow DEF SenderSend
<1>6. CASE SenderReadPart
  BY <1>2, <1>6 DEF SenderReadPart
<1>7. CASE SenderReadResponse
  <2> DEFINE rest == TakeHead(sock, SenderEnd)
  <2>1. partial' = NoFrame /\ rest \in SockOf(F)
    BY <1>2, <1>7 DEF SenderReadResponse
  <2>2. Answered(rest) \/ sock' = rest \/ (\E r : Fail(r, rest))
    BY <1>7, Zenon DEF SenderReadResponse
  <2> QED
    BY <2>1, <2>2, LeaveFlow
<1>8. CASE SenderReadLate
  BY <1>2, <1>8, LeaveFlow DEF SenderReadLate
<1>9. CASE SenderTimeout
  BY <1>9, LeaveFlow, ShutdownOf DEF SenderTimeout
<1>10. CASE SenderConnectionLost
  BY <1>10, LeaveFlow DEF SenderConnectionLost
<1> QED
  BY <1>3, <1>4, <1>5, <1>6, <1>7, <1>8, <1>9, <1>10 DEF SenderNext

(* The fault injector sends on what it received, or a corrupted copy.      *)
LEMMA ForwardFlow ==
  ASSUME NEW F, NEW s \in SockOf(F), NEW to \in Ends, NEW f \in F, NEW pc,
         Forward(s, to, f, pc) \/ Teardown(s)
  PROVE  sock' \in SockOf(F)
BY PutOf, CloseOf, CloseFdOf DEF Forward, Teardown, BothEnds, Die

LEMMA ProxyFlow ==
  ASSUME TypeInv, ProxyNext,
         NEW F, \A f \in F : Corrupted(f) \in F,
         sock \in SockOf(F), delayed \in F \cup {NoFrame}
  PROVE  sock' \in SockOf(F) /\ delayed' \in F \cup {NoFrame}
<1>1. proxy_pc \notin {"down", "accept", "killed"} =>
        FrontEnd \in Ends /\ BackEnd \in Ends
  BY RelayEnds DEF TypeInv, ProxyTypeOK
<1>2. ASSUME NEW e \in Ends
      PROVE  /\ Received(e) \in SockOf(F)
             /\ ~ReceiveThrows(e) => Head(sock[e].buf) \in F
  BY TakeHeadOf DEF Received, ReceiveThrows
<1>3. CASE ProxyStart \/ ProxyAccept \/ ProxyPoll \/ RelaySkips
  BY <1>3 DEF ProxyStart, ProxyAccept, ProxyPoll, RelaySkips
<1>4. CASE ProxyConnect
  BY <1>4, EstablishOf, CloseFdOf DEF ProxyConnect
<1>5. CASE RelayFromSender
  <2> DEFINE f == Head(sock[FrontEnd].buf)
             s == Received(FrontEnd)
  <2>1. FrontEnd \in Ends /\ BackEnd \in Ends /\ s \in SockOf(F)
    BY <1>1, <1>2, <1>5 DEF RelayFromSender, BothEnds
  <2>2. UNCHANGED delayed
    BY <1>5 DEF RelayFromSender, BothEnds
  <2>3. CASE Teardown(s) \/ Teardown(Shutdown(s, {FrontEnd, BackEnd}))
    BY <2>1, <2>2, <2>3, CloseFdOf, ShutdownOf DEF Teardown, BothEnds
  <2>4. CASE ~ReceiveThrows(FrontEnd) /\ Forward(s, BackEnd, Corrupted(f), "poll")
    BY <1>2, <2>1, <2>2, <2>4, ForwardFlow
  <2>5. CASE ~ReceiveThrows(FrontEnd) /\ Forward(s, BackEnd, f, "back")
    BY <1>2, <2>1, <2>2, <2>5, ForwardFlow
  <2> QED
    BY <1>5, <2>3, <2>4, <2>5, Zenon DEF RelayFromSender, BothEnds
<1>6. CASE RelayFromReceiver
  <2> DEFINE f == Head(sock[BackEnd].buf)
             s == Received(BackEnd)
  <2>1. FrontEnd \in Ends /\ BackEnd \in Ends /\ s \in SockOf(F)
    BY <1>1, <1>2, <1>6 DEF RelayFromReceiver
  <2>2. CASE Teardown(s) /\ UNCHANGED delayed
    BY <2>1, <2>2, CloseFdOf DEF Teardown, BothEnds
  <2>3. CASE sock' = s /\ UNCHANGED delayed
    BY <2>1, <2>3
  <2>4. CASE ~ReceiveThrows(BackEnd) /\ sock' = s /\ delayed' = f
    BY <1>2, <2>1, <2>4
  <2>5. CASE /\ ~ReceiveThrows(BackEnd) /\ Forward(s, FrontEnd, f, "hangup")
             /\ UNCHANGED delayed
    BY <1>2, <2>1, <2>5, ForwardFlow
  <2> QED
    BY <1>6, <2>2, <2>3, <2>4, <2>5, Zenon DEF RelayFromReceiver
<1>7. CASE RelayDelayedAck
  <2>1. FrontEnd \in Ends /\ delayed \in F
    BY <1>1, <1>7, NoFrameIsNone DEF RelayDelayedAck, TypeInv, ProxyTypeOK
  <2> QED
    BY <1>7, <2>1, ForwardFlow DEF RelayDelayedAck
<1>8. CASE RelayHangup
  BY <1>8, CloseFdOf DEF RelayHangup, Teardown, BothEnds
<1> QED
  BY <1>3, <1>4, <1>5, <1>6, <1>7, <1>8 DEF ProxyNext, ProxyRun

(* The receiver sends its reply.                                           *)
LEMMA ReceiverFlow ==
  ASSUME TypeInv, ReceiverNext,
         NEW F, sock \in SockOf(F), reply \in F \cup {NoFrame}
  PROVE  /\ sock' \in SockOf(F)
         /\ (receiver_pc = "recv" /\ sock[ReceiverEnd].buf # <<>>) =>
               Head(sock[ReceiverEnd].buf) \in F
<1>1. receiver_pc \in {"recv", "reply"} => ReceiverEnd \in Ends
  BY DEF TypeInv, ReceiverTypeOK, ReceiverEnd, Ends, Sides
<1>2. (receiver_pc = "recv" /\ sock[ReceiverEnd].buf # <<>>) =>
        /\ Head(sock[ReceiverEnd].buf) \in F
        /\ TakeHead(sock, ReceiverEnd) \in SockOf(F)
  BY <1>1, TakeHeadOf
<1> SUFFICES sock' \in SockOf(F)
  BY <1>2
<1>3. CASE ReceiverStart \/ ReceiverAccept
  BY <1>3 DEF ReceiverStart, ReceiverAccept
<1>4. CASE ReceiverCrash \/ (\E s \in SockOf(F) : \E pc : ReceiverExit(s, pc))
  <2>1. \E s \in SockOf(F) : Die(s, "rcv", {"rcv"})
    BY <1>4 DEF ReceiverCrash, ReceiverExit
  <2> QED
    BY <2>1, CloseOf DEF Die
<1>5. CASE ReceiverRead
  BY <1>2, <1>4, <1>5 DEF ReceiverRead, HandleData, Remembered, AckFor, HandleHeartbeat
<1>6. CASE ReceiverEOF
  BY <1>6, CloseFdOf DEF ReceiverEOF, Released
<1>7. CASE ReceiverRecvFailed
  BY <1>4, <1>7 DEF ReceiverRecvFailed
<1>8. CASE ReceiverReply
  <2>1. ReceiverEnd \in Ends /\ reply \in F
    BY <1>1, <1>8, NoFrameIsNone DEF ReceiverReply, TypeInv, ReceiverTypeOK
  <2> QED
    BY <1>4, <1>8, <2>1, PutOf DEF ReceiverReply
<1> QED
  BY <1>3, <1>4, <1>5, <1>6, <1>7, <1>8 DEF ReceiverNext, ReceiverRun

-----------------------------------------------------------------------------
(* Sound frames: what must have happened before a frame is on the way.     *)

Sound(f) ==
  /\ Honest(f)
  /\ f.type = "Data" => f.seq = DataSequence
  /\ f.type = "Heartbeat" => AnsweredBefore(f.seq)

SoundFrame == {f \in Frame : Sound(f)}

Processed(n) == \E i \in DOMAIN delivered : delivered[i].frame.seq = n

SoundInv ==
  /\ sock \in SockOf(SoundFrame)
  /\ partial \in SoundFrame \cup {NoFrame}
  /\ delayed \in SoundFrame \cup {NoFrame}
  /\ reply \in SoundFrame \cup {NoFrame}
  /\ \A k \in completed_responses : Honest(Packet(k[1], k[2]))
  /\ \A n \in processed_sequences : Processed(n)
  /\ \A n \in heard : AnsweredBefore(n)
  /\ phase # "data" => AnsweredBefore(heartbeat_sequence)
  /\ DeliveredIntact

(* Everything that makes a frame sound stays.                              *)
Grows ==
  /\ \/ UNCHANGED delivered
     \/ \E d \in Delivery : delivered' = Append(delivered, d)
  /\ heard \subseteq heard'
  /\ completed_responses \subseteq completed_responses'

LEMMA SoundStays ==
  ASSUME TypeInv, Grows
  PROVE  /\ SoundFrame \subseteq SoundFrame'
         /\ \A n \in Nat : Processed(n) => Processed(n)'
         /\ \A n \in Nat : AnsweredBefore(n) => AnsweredBefore(n)'
         /\ \A t, n : Honest(Packet(t, n)) => Honest(Packet(t, n))'
<1>1. \A i \in DOMAIN delivered : i \in DOMAIN delivered' /\ delivered'[i] = delivered[i]
  <2>1. delivered \in Seq(Delivery)
    BY DEF TypeInv, ReceiverTypeOK
  <2> QED
    BY <2>1 DEF Grows
<1>2. ASSUME NEW n, Processed(n) PROVE Processed(n)'
  BY <1>1, <1>2 DEF Processed
<1>3. ASSUME NEW n, AnsweredBefore(n) PROVE AnsweredBefore(n)'
  BY <1>3 DEF AnsweredBefore, Grows
<1>4. ASSUME NEW f, Honest(f) PROVE Honest(f)'
  BY <1>1, <1>4 DEF Honest, Grows
<1>5. ASSUME NEW f \in SoundFrame PROVE f \in SoundFrame'
  BY <1>3, <1>4, <1>5 DEF SoundFrame, Sound
<1> QED
  BY <1>2, <1>3, <1>4, <1>5

LEMMA SoundBasics ==
  ASSUME TypeInv
  PROVE  /\ Fragment \in SoundFrame
         /\ \A f \in SoundFrame : Corrupted(f) \in SoundFrame
<1>1. Fragment \in SoundFrame
  BY FragmentIsFrame DEF Fragment, SoundFrame, Sound, Honest
<1>2. ASSUME NEW f \in SoundFrame
      PROVE  Corrupted(f) \in SoundFrame
  <2>1. Corrupted(f) \in Frame /\ Corrupted(f).type = f.type /\ Corrupted(f).seq = f.seq
    BY CorruptedIsFrame DEF SoundFrame, Corrupted, Frame
  <2> QED
    BY <2>1 DEF SoundFrame, Sound, Honest
<1> QED
  BY <1>1, <1>2

LEMMA RequestIsSound ==
  ASSUME TypeInv, SoundInv
  PROVE  Request \in SoundFrame
<1>1. Request \in Frame
  BY RequestIsFrame DEF TypeInv
<1>2. Request.type = "Data" => Request.seq = DataSequence
  BY DEF Request, Packet
<1>3. Request.type = "Heartbeat" => AnsweredBefore(Request.seq)
  BY DEF Request, Packet, SoundInv
<1>4. Request.type \notin {"Ack", "HeartbeatAck"}
  BY DEF Request, Packet
<1> QED
  BY <1>1, <1>2, <1>3, <1>4 DEF SoundFrame, Sound, Honest

(* A frame that is sound where it is read is what it says.                 *)
LEMMA SoundKey ==
  ASSUME NEW f \in SoundFrame
  PROVE  Honest(Packet(f.type, f.seq))
BY DEF SoundFrame, Sound, Honest, Packet

(* When a request is answered, all requests before the next are.           *)
LEMMA AnsweredAdvances ==
  ASSUME TypeInv, SoundInv, NEW s, Answered(s),
         completed_responses' = completed_responses \cup {Expected}
  PROVE  (phase # "data" => AnsweredBefore(heartbeat_sequence))'
<1>1. /\ DataSequence \in Nat /\ heartbeat_sequence \in Nat
      /\ heartbeat_sequence >= 2 /\ HeartbeatCount \in Nat
  BY SenderAssumption DEF TypeInv, ControlOK, DataSequence
<1>2. CASE phase = "data"
  <2>1. phase' = "heartbeat" /\ heartbeat_sequence' = 2
    BY <1>2 DEF Answered, LastHeartbeat
  <2>2. <<"Ack", DataSequence>> \in completed_responses'
    BY <1>2 DEF Expected
  <2> QED
    BY <2>1, <2>2 DEF AnsweredBefore, DataSequence
<1>3. CASE phase # "data"
  <2>1. \/ heartbeat_sequence' = heartbeat_sequence + 1
        \/ heartbeat_sequence' = heartbeat_sequence
    BY <1>3 DEF Answered
  <2>2. AnsweredBefore(heartbeat_sequence)
    BY <1>3 DEF SoundInv
  <2>3. <<"HeartbeatAck", heartbeat_sequence>> \in completed_responses'
    BY <1>3 DEF Expected
  <2>4. \A m \in 2 .. heartbeat_sequence' - 1 :
          m \in 2 .. heartbeat_sequence - 1 \/ m = heartbeat_sequence
    BY <1>1, <2>1
  <2>5. \A m \in 2 .. heartbeat_sequence' - 1 :
          <<"HeartbeatAck", m>> \in completed_responses'
    BY <2>2, <2>3, <2>4 DEF AnsweredBefore
  <2> QED
    BY <2>2, <2>5 DEF AnsweredBefore, DataSequence
<1> QED
  BY <1>2, <1>3

LEMMA SoundInit ==
  ASSUME Init
  PROVE  SoundInv
<1>1. Closed \in SocketOf(SoundFrame)
  BY DEF Closed, SocketOf
<1>2. sock \in SockOf(SoundFrame)
  BY <1>1 DEF Init, NetInit, SockOf
<1> QED
  BY <1>2 DEF Init, SenderInit, ProxyInit, ReceiverInit, SoundInv, DeliveredIntact

LEMMA SoundSender ==
  ASSUME TypeInv, SoundInv, SenderStep
  PROVE  SoundInv'
<1>1. /\ SenderNext
      /\ UNCHANGED <<delayed, reply, delivered, heard, processed_sequences>>
  BY DEF SenderStep, proxyVars, receiverVars
<1>2. /\ sock' \in SockOf(SoundFrame)
      /\ partial' \in SoundFrame \cup {NoFrame}
      /\ CanRead => Response \in SoundFrame
  BY <1>1, SenderFlow, SoundBasics, RequestIsSound DEF SoundInv
<1>3. /\ \A k \in completed_responses' \ completed_responses : Honest(Packet(k[1], k[2]))
      /\ completed_responses \subseteq completed_responses'
      /\ (phase # "data" => AnsweredBefore(heartbeat_sequence))'
  <2>1. CASE SenderReadResponse /\ IsResponse(Response)
             /\ <<Response.type, Response.seq>> = Expected
    <3>1. /\ completed_responses' = completed_responses \cup {Expected}
          /\ \E s : Answered(s)
          /\ CanRead
      BY <2>1 DEF SenderReadResponse
    <3>2. Honest(Packet(Response.type, Response.seq))
      BY <1>2, <3>1, SoundKey
    <3>3. Honest(Packet(Expected[1], Expected[2]))
      BY <2>1, <3>2
    <3> QED
      BY <3>1, <3>3, AnsweredAdvances
  <2>2. CASE ~(SenderReadResponse /\ IsResponse(Response)
               /\ <<Response.type, Response.seq>> = Expected)
    <3>1. UNCHANGED completed_responses
      BY <1>1, <2>2 DEF SenderNext, SenderConnect, SenderConnectRefused,
         SenderSend, SenderReadPart, SenderReadResponse, SenderReadLate,
         SenderTimeout, SenderConnectionLost
    <3>2. /\ heartbeat_sequence' = heartbeat_sequence
          /\ phase' # "data" => phase # "data"
      <4>1. \A s, r : Fail(r, s) \/ ConnectionLost(s) \/ NoResponse(s) =>
              /\ heartbeat_sequence' = heartbeat_sequence
              /\ phase' = phase \/ (phase = "heartbeat" /\ phase' = "reconnected")
        BY DEF Fail, Reconnect, ConnectionLost, NoResponse, RetriesLeft
      <4>2. CASE SenderReadResponse
        <5>1. (\E s, r : Fail(r, s)) \/ UNCHANGED <<phase, heartbeat_sequence>>
          BY <2>2, <4>2, Zenon DEF SenderReadResponse
        <5> QED
          BY <4>1, <5>1
      <4>3. CASE ~SenderReadResponse
        BY <1>1, <4>1, <4>3 DEF SenderNext, SenderConnect, SenderConnectRefused,
           SenderSend, SenderReadPart, SenderReadLate, SenderTimeout,
           SenderConnectionLost
      <4> QED
        BY <4>2, <4>3
    <3> QED
      BY <3>1, <3>2 DEF SoundInv, AnsweredBefore
  <2> QED
    BY <2>1, <2>2
<1>4. Grows
  BY <1>1, <1>3 DEF Grows
<1>5. /\ sock' \in SockOf(SoundFrame')
      /\ partial' \in SoundFrame' \cup {NoFrame}
      /\ delayed' \in SoundFrame' \cup {NoFrame}
      /\ reply' \in SoundFrame' \cup {NoFrame}
  BY <1>1, <1>2, <1>4, SoundStays, SockOfMonotone DEF SoundInv
<1>6. \A k \in completed_responses' : Honest(Packet(k[1], k[2]))'
  BY <1>3, <1>4, SoundStays DEF SoundInv
<1>7. /\ \A n \in processed_sequences' : Processed(n)'
      /\ \A n \in heard' : AnsweredBefore(n)'
  BY <1>1, <1>4, SoundStays DEF SoundInv, TypeInv, ReceiverTypeOK
<1>8. DeliveredIntact'
  BY <1>1 DEF SoundInv, DeliveredIntact
<1>9. NoFrame' = NoFrame
  BY DEF NoFrame
<1> QED
  BY <1>3, <1>5, <1>6, <1>7, <1>8, <1>9 DEF SoundInv

LEMMA SoundProxy ==
  ASSUME TypeInv, SoundInv, ProxyStep
  PROVE  SoundInv'
<1>1. /\ ProxyNext
      /\ UNCHANGED <<partial, reply, delivered, heard, processed_sequences,
                     completed_responses, phase, heartbeat_sequence>>
  BY DEF ProxyStep, senderVars, receiverVars
<1>2. sock' \in SockOf(SoundFrame) /\ delayed' \in SoundFrame \cup {NoFrame}
  BY <1>1, ProxyFlow, SoundBasics DEF SoundInv
<1>3. SoundFrame' = SoundFrame
  BY <1>1 DEF SoundFrame, Sound, Honest, AnsweredBefore
<1> QED
  BY <1>1, <1>2, <1>3
     DEF SoundInv, Honest, Processed, AnsweredBefore, DeliveredIntact

(* What HandleData and HandleHeartbeat take in and answer.                 *)
LEMMA HandleSound ==
  ASSUME TypeInv, SoundInv, receiver_pc = "recv", UNCHANGED completed_responses,
         NEW f \in SoundFrame, Decodes(f),
         \/ f.type = "Data" /\ HandleData(f)
         \/ f.type = "Heartbeat" /\ HandleHeartbeat(f)
  PROVE  /\ Grows
         /\ reply' \in SoundFrame'
         /\ \A n \in processed_sequences' \ processed_sequences : Processed(n)'
         /\ \A n \in heard' \ heard : AnsweredBefore(n)
         /\ DeliveredIntact'
<1>1. f \in Frame /\ f.seq \in Nat /\ Sound(f)
  BY DEF SoundFrame, Frame
<1>2. /\ Packet("Ack", f.seq) \in Frame
      /\ Packet("HeartbeatAck", f.seq) \in Frame
  BY <1>1, PacketIsFrame DEF MessageType
<1>3. delivered \in Seq(Delivery) /\ starts \in Nat
  BY ReceiverAssumption DEF TypeInv, ReceiverTypeOK
<1>4. CASE f.type = "Data" /\ HandleData(f)
  <2> DEFINE d == [process |-> starts, frame |-> f]
  <2>1. /\ heard' = heard /\ reply' = Packet("Ack", f.seq)
        /\ UNCHANGED completed_responses
    BY <1>4 DEF HandleData, Remembered, AckFor
  <2>2. d \in Delivery /\ d.frame = f
    BY <1>1, <1>3 DEF Delivery
  <2>3. f = Packet("Data", DataSequence)
    <3>1. f.type = "Data" /\ f.seq = DataSequence /\ f.crcOk = TRUE
      BY <1>1, <1>4 DEF Sound, Decodes, Frame
    <3> QED
      BY <1>1, <3>1 DEF Frame, Packet
  <2>4. CASE f.seq \in processed_sequences
    <3>1. UNCHANGED <<processed_sequences, delivered>>
      BY <1>4, <2>4 DEF HandleData, Remembered, AckFor
    <3>2. Processed(f.seq)'
      BY <2>4, <3>1 DEF SoundInv, Processed
    <3>3. reply' \in SoundFrame'
      BY <1>2, <2>1, <3>2 DEF SoundFrame, Sound, Honest, Processed, Packet
    <3> QED
      BY <2>1, <3>1, <3>3 DEF Grows, SoundInv, DeliveredIntact
  <2>5. CASE f.seq \notin processed_sequences
    <3>1. /\ processed_sequences' = processed_sequences \cup {f.seq}
          /\ delivered' = Append(delivered, d)
      BY <1>4, <2>5 DEF HandleData, Remembered, AckFor
    <3> HIDE DEF d
    <3>2. /\ Len(delivered) + 1 \in DOMAIN delivered'
          /\ delivered'[Len(delivered) + 1] = d
          /\ \A i \in DOMAIN delivered' :
               delivered'[i] = d \/ (i \in DOMAIN delivered /\ delivered'[i] = delivered[i])
      BY <1>3, <2>2, <3>1
    <3>3. Processed(f.seq)'
      BY <2>2, <3>2 DEF Processed
    <3>4. reply' \in SoundFrame'
      BY <1>2, <2>1, <3>3 DEF SoundFrame, Sound, Honest, Processed, Packet
    <3>5. DeliveredIntact'
      BY <2>2, <2>3, <3>2 DEF SoundInv, DeliveredIntact
    <3>6. Grows
      BY <2>1, <2>2, <3>1 DEF Grows
    <3> QED
      BY <2>1, <3>1, <3>3, <3>4, <3>5, <3>6
  <2> QED
    BY <2>4, <2>5
<1>5. CASE f.type = "Heartbeat" /\ HandleHeartbeat(f)
  <2>1. /\ heard' = heard \cup {f.seq} /\ reply' = Packet("HeartbeatAck", f.seq)
        /\ UNCHANGED <<processed_sequences, delivered, completed_responses>>
    BY <1>5 DEF HandleHeartbeat
  <2>2. AnsweredBefore(f.seq)
    BY <1>1, <1>5 DEF Sound
  <2>3. reply' \in SoundFrame'
    BY <1>2, <2>1 DEF SoundFrame, Sound, Honest, Packet
  <2> QED
    BY <2>1, <2>2, <2>3 DEF Grows, SoundInv, DeliveredIntact
<1> QED
  BY <1>4, <1>5

LEMMA SoundReceiver ==
  ASSUME TypeInv, SoundInv, ReceiverStep
  PROVE  SoundInv'
<1>1. /\ ReceiverNext
      /\ UNCHANGED <<partial, delayed, completed_responses, phase, heartbeat_sequence>>
  BY DEF ReceiverStep, senderVars, proxyVars
<1>2. /\ sock' \in SockOf(SoundFrame)
      /\ (receiver_pc = "recv" /\ sock[ReceiverEnd].buf # <<>>) =>
            Head(sock[ReceiverEnd].buf) \in SoundFrame
  BY <1>1, ReceiverFlow DEF SoundInv
<1> DEFINE f == Head(sock[ReceiverEnd].buf)
<1>3. /\ Grows
      /\ reply' \in SoundFrame' \cup {NoFrame}
      /\ \A n \in processed_sequences' \ processed_sequences : Processed(n)'
      /\ \A n \in heard' \ heard : AnsweredBefore(n)
      /\ DeliveredIntact'
  <2>1. CASE /\ ReceiverRead /\ Decodes(f)
             /\ \/ f.type = "Data" /\ HandleData(f)
                \/ f.type = "Heartbeat" /\ HandleHeartbeat(f)
    BY <1>1, <1>2, <2>1, HandleSound DEF ReceiverRead
  <2>2. CASE ~(/\ ReceiverRead /\ Decodes(f)
               /\ \/ f.type = "Data" /\ HandleData(f)
                  \/ f.type = "Heartbeat" /\ HandleHeartbeat(f))
    <3>1. /\ UNCHANGED <<reply, delivered, heard>>
          /\ processed_sequences' \subseteq processed_sequences
      BY <1>1, <2>2
         DEF ReceiverNext, ReceiverRun, ReceiverStart, ReceiverCrash,
             ReceiverAccept, ReceiverRead, ReceiverEOF, Released, ReceiverRecvFailed,
             ReceiverReply, ReceiverExit
    <3>2. Grows /\ DeliveredIntact'
      BY <1>1, <3>1 DEF Grows, SoundInv, DeliveredIntact
    <3> QED
      BY <3>1, <3>2, SoundStays DEF SoundInv
  <2> QED
    BY <2>1, <2>2
<1>4. /\ sock' \in SockOf(SoundFrame')
      /\ partial' \in SoundFrame' \cup {NoFrame}
      /\ delayed' \in SoundFrame' \cup {NoFrame}
  BY <1>1, <1>2, <1>3, SoundStays, SockOfMonotone DEF SoundInv
<1>5. \A k \in completed_responses' : Honest(Packet(k[1], k[2]))'
  BY <1>1, <1>3, SoundStays DEF SoundInv
<1>6. \A n \in processed_sequences' : Processed(n)'
  <2>1. processed_sequences \subseteq Nat
    BY DEF TypeInv, ReceiverTypeOK
  <2> QED
    BY <1>3, <2>1, SoundStays DEF SoundInv
<1>7. /\ \A n \in heard' : AnsweredBefore(n)'
      /\ phase' # "data" => AnsweredBefore(heartbeat_sequence)'
  BY <1>1, <1>3 DEF SoundInv, AnsweredBefore
<1> QED
  BY <1>3, <1>4, <1>5, <1>6, <1>7 DEF SoundInv

LEMMA SoundInvariant == Spec => []SoundInv
<1>1. Init => SoundInv
  BY SoundInit
<1>2. TypeInv /\ SoundInv /\ [Next]_vars => SoundInv'
  <2> SUFFICES ASSUME TypeInv, SoundInv, [Next]_vars
               PROVE  SoundInv'
    OBVIOUS
  <2>1. CASE SenderStep
    BY <2>1, SoundSender
  <2>2. CASE ProxyStep
    BY <2>2, SoundProxy
  <2>3. CASE ReceiverStep
    BY <2>3, SoundReceiver
  <2>4. CASE UNCHANGED vars
    <3>1. UNCHANGED <<netVars, senderVars, proxyVars, receiverVars>>
      BY <2>4 DEF vars
    <3>2. SoundFrame' = SoundFrame
      BY <3>1 DEF SoundFrame, Sound, Honest, AnsweredBefore, senderVars, receiverVars
    <3> QED
      BY <3>1, <3>2
         DEF SoundInv, Honest, Processed, AnsweredBefore, DeliveredIntact,
             netVars, senderVars, proxyVars, receiverVars
  <2> QED
    BY <2>1, <2>2, <2>3, <2>4 DEF Next
<1> QED
  BY <1>1, <1>2, TypeInvariant, PTL DEF Spec

(* An ACK means processed and a HEARTBEAT_ACK means received, wherever the *)
(* response is: on the way, half read, held back, or matched.              *)
THEOREM HonestResponses == Spec => []ResponsesAreHonest
<1>1. SoundInv => ResponsesAreHonest
  <2> SUFFICES ASSUME SoundInv PROVE ResponsesAreHonest
    OBVIOUS
  <2>1. \A e \in Ends : \A i \in DOMAIN sock[e].buf : sock[e].buf[i] \in SoundFrame
    BY SockOfElement DEF SoundInv
  <2>2. Honest(NoFrame)
    BY DEF Honest, NoFrame
  <2> QED
    BY <2>1, <2>2 DEF SoundInv, SoundFrame, Sound, ResponsesAreHonest
<1> QED
  BY <1>1, SoundInvariant, PTL

(* A packet that was damaged on the way never reaches the application.     *)
THEOREM IntactDeliveries == Spec => []DeliveredIntact
<1>1. SoundInv => DeliveredIntact
  BY DEF SoundInv
<1> QED
  BY <1>1, SoundInvariant, PTL

(* A heartbeat is on the way, or was received, only when DATA and every    *)
(* earlier heartbeat were answered.                                        *)
THEOREM OneRequest == Spec => []OneRequestAtATime
<1>1. SoundInv => OneRequestAtATime
  <2> SUFFICES ASSUME SoundInv PROVE OneRequestAtATime
    OBVIOUS
  <2>1. \A e \in Ends : \A i \in DOMAIN sock[e].buf : sock[e].buf[i] \in SoundFrame
    BY SockOfElement DEF SoundInv
  <2> QED
    BY <2>1 DEF SoundInv, SoundFrame, Sound, OneRequestAtATime
<1> QED
  BY <1>1, SoundInvariant, PTL

-----------------------------------------------------------------------------
(* Descriptors.                                                            *)

AllClosed(s, d) == \A c \in Conns : ~s[<<d, c>>].open

(* Where a process has no connection it has no end of one open: this is    *)
(* what makes NoDescriptorLeak inductive.                                  *)
LeakInv ==
  /\ NoDescriptorLeak
  /\ sender_pc \notin {"send", "wait"} => AllClosed(sock, "snd")
  /\ proxy_pc \in {"down", "accept", "killed"} => conn = 0
  /\ proxy_pc \in {"down", "accept", "connect", "killed"} => AllClosed(sock, "back")
  /\ receiver_pc \notin {"recv", "reply"} => client_fd = 0

(* send(), recv() and shutdown() open and close nothing.                   *)
LEMMA PutOpens ==
  ASSUME NEW s \in SockState, NEW e \in Ends, NEW f
  PROVE  \A d \in Ends : Put(s, e, f)[d].open = s[d].open
<1>1. Peer(e) \in Ends
  BY PeerIsEnd
<1>2. \A d \in Ends : s[d] \in Socket
  BY SocketOfFrame DEF SockState, SockOf
<1> QED
  BY <1>1, <1>2 DEF Put, SockState, SockOf, Socket

LEMMA TakeHeadOpens ==
  ASSUME NEW s \in SockState, NEW e
  PROVE  \A d \in Ends : /\ TakeHead(s, e)[d].open = s[d].open
                         /\ LeaveRest(s, e)[d].open = s[d].open
<1>1. \A d \in Ends : s[d] \in Socket
  BY SocketOfFrame DEF SockState, SockOf
<1> QED
  BY <1>1 DEF TakeHead, LeaveRest, SockState, SockOf, Socket

LEMMA ShutdownOpens ==
  ASSUME NEW s \in SockState, NEW E
  PROVE  \A d \in Ends : Shutdown(s, E)[d].open = s[d].open
<1>1. \A d \in Ends : s[d] \in Socket
  BY SocketOfFrame DEF SockState, SockOf
<1> QED
  BY <1>1 DEF Shutdown, Socket

(* close() closes the ends it names and no other.                          *)
LEMMA CloseOpens ==
  ASSUME NEW s \in SockState, NEW E, NEW A
  PROVE  \A d \in Ends : /\ d \in E => ~Close(s, E, A)[d].open
                         /\ d \notin E => Close(s, E, A)[d].open = s[d].open
<1>1. \A d \in Ends : s[d] \in Socket
  BY SocketOfFrame DEF SockState, SockOf
<1>2. \A d \in Ends : d \in E => ~Close(s, E, A)[d].open
  BY DEF Close, Closed
<1>3. \A d \in Ends : d \notin E => Close(s, E, A)[d].open = s[d].open
  BY <1>1 DEF Close, Socket
<1> QED
  BY <1>2, <1>3

(* connect() opens two ends, and the connection waits at the listener.     *)
LEMMA EstablishOpens ==
  ASSUME sock \in SockState, backlog \in [Listeners -> Seq(Conns)],
         NEW d \in Sides, NEW l \in Listeners, NEW c \in Conns,
         Establish(d, l, c)
  PROVE  /\ \A e \in Ends : e \notin {<<d, c>>, <<l, c>>} => sock'[e] = sock[e]
         /\ Waiting(l)' = Waiting(l) \cup {c}
         /\ \A k \in Listeners \ {l} : Waiting(k)' = Waiting(k)
<1>1. \A q \in Seq(Conns) :
        {Append(q, c)[i] : i \in DOMAIN Append(q, c)} = {q[i] : i \in DOMAIN q} \cup {c}
  <2> SUFFICES ASSUME NEW q \in Seq(Conns)
               PROVE  {Append(q, c)[i] : i \in DOMAIN Append(q, c)}
                        = {q[i] : i \in DOMAIN q} \cup {c}
    OBVIOUS
  <2>1. /\ DOMAIN Append(q, c) = DOMAIN q \cup {Len(q) + 1}
        /\ Append(q, c)[Len(q) + 1] = c
        /\ \A i \in DOMAIN q : Append(q, c)[i] = q[i]
    OBVIOUS
  <2> QED
    BY <2>1, Zenon
<1>2. backlog[l] \in Seq(Conns)
  OBVIOUS
<1>3. backlog'[l] = Append(backlog[l], c) /\ \A k \in Listeners \ {l} : backlog'[k] = backlog[k]
  BY DEF Establish
<1>4. Waiting(l)' = Waiting(l) \cup {c}
  <2>1. {Append(backlog[l], c)[i] : i \in DOMAIN Append(backlog[l], c)}
          = {backlog[l][i] : i \in DOMAIN backlog[l]} \cup {c}
    BY <1>1, <1>2, Zenon
  <2> QED
    BY <1>3, <2>1, Zenon DEF Waiting
<1>5. \A k \in Listeners \ {l} : Waiting(k)' = Waiting(k)
  BY <1>3 DEF Waiting
<1>6. \A e \in Ends : e \notin {<<d, c>>, <<l, c>>} => sock'[e] = sock[e]
  BY DEF Establish, SockState, SockOf
<1> QED
  BY <1>4, <1>5, <1>6

(* accept() takes the first connection of the backlog.                     *)
LEMMA AcceptWaits ==
  ASSUME NEW q \in Seq(Conns), q # <<>>
  PROVE  {q[i] : i \in DOMAIN q}
           = {Head(q)} \cup {Tail(q)[i] : i \in DOMAIN Tail(q)}
<1>1. /\ Head(q) = q[1] /\ 1 \in DOMAIN q
      /\ \A i \in DOMAIN Tail(q) : i + 1 \in DOMAIN q /\ Tail(q)[i] = q[i + 1]
      /\ \A i \in DOMAIN q : i = 1 \/ (i - 1 \in DOMAIN Tail(q) /\ Tail(q)[i - 1] = q[i])
  OBVIOUS
<1>2. ASSUME NEW i \in DOMAIN q
      PROVE  q[i] \in {Head(q)} \cup {Tail(q)[j] : j \in DOMAIN Tail(q)}
  BY <1>1, <1>2
<1>3. ASSUME NEW j \in DOMAIN Tail(q)
      PROVE  Tail(q)[j] \in {q[i] : i \in DOMAIN q}
  BY <1>1, <1>3
<1> QED
  BY <1>1, <1>2, <1>3

(* Leaving a point of the sender's main either goes on with the same       *)
(* connection or closes it.                                                *)
LEMMA LeaveOpens ==
  ASSUME TypeInv, NEW s \in SockState,
         \A d \in Ends : s[d].open = sock[d].open,
         sender_pc \in {"send", "wait"}, NEW r,
         \/ Fail(r, s) \/ Reconnect(s) \/ ConnectionLost(s)
         \/ NoResponse(s) \/ Answered(s)
  PROVE  /\ \A d \in Ends : sock'[d].open => sock[d].open
         /\ sender_pc' \in {"send", "wait"} \/ ~sock'[SenderEnd].open
<1>1. SenderEnd \in Ends
  BY SenderEndIsEnd DEF TypeInv
<1>2. CASE sock' = CloseFd(s, {SenderEnd})
  <2>1. ~sock'[SenderEnd].open /\ \A d \in Ends : sock'[d].open => sock[d].open
    BY <1>1, <1>2, CloseOpens DEF CloseFd
  <2> QED
    BY <2>1
<1>3. CASE sock' = s /\ sender_pc' = "send"
  BY <1>3
<1> QED
  BY <1>2, <1>3, Zenon
     DEF Fail, Reconnect, ConnectionLost, NoResponse, RetriesLeft, Answered

LEMMA SenderLeaks ==
  ASSUME TypeInv, LeakInv, SenderStep
  PROVE  LeakInv'
<1>1. /\ SenderNext
      /\ UNCHANGED <<proxy_pc, conn, receiver_pc, client_fd>>
  BY DEF SenderStep, proxyVars, receiverVars
<1>2. sock \in SockState /\ backlog \in [Listeners -> Seq(Conns)]
  BY DEF TypeInv, NetRestOK
<1>3. \A c \in Conns, d \in Sides : <<d, c>> \in Ends
  BY DEF Ends
<1>4. CASE SenderConnect
  <2>1. fd + 1 \in Conns /\ fd' = fd + 1 /\ sender_pc = "connect" /\ sender_pc' = "send"
    BY <1>4, SenderAssumption
       DEF SenderConnect, TypeInv, ControlOK, ConnectionBudget, Conns, Phases
  <2>2. /\ \A e \in Ends : e \notin {<<"snd", fd + 1>>, <<"front", fd + 1>>} => sock'[e] = sock[e]
        /\ Waiting("front")' = Waiting("front") \cup {fd + 1}
        /\ Waiting("rcv")' = Waiting("rcv")
    <3>1. "snd" \in Sides /\ "front" \in Listeners /\ "rcv" \in Listeners \ {"front"}
      BY DEF Sides, Listeners
    <3>2. Establish("snd", "front", fd + 1)
      BY <1>4 DEF SenderConnect
    <3> QED
      BY <1>2, <2>1, <3>1, <3>2, EstablishOpens
  <2>3. NoDescriptorLeak'
    BY <1>1, <1>3, <2>1, <2>2 DEF LeakInv, NoDescriptorLeak, AllClosed, Sides
  <2>4. \A c \in Conns : sock'[<<"back", c>>] = sock[<<"back", c>>]
    BY <1>3, <2>2 DEF Sides
  <2> QED
    BY <1>1, <2>1, <2>3, <2>4 DEF LeakInv, AllClosed
<1>5. CASE ~SenderConnect
  <2>1. UNCHANGED <<fd, backlog>>
    BY <1>1, <1>5 DEF SenderNext, SenderConnectRefused, SenderSend, SenderReadPart,
       SenderReadResponse, SenderReadLate, SenderTimeout, SenderConnectionLost
  <2>2. /\ \A d \in Ends : sock'[d].open => sock[d].open
        /\ sender_pc' \in {"send", "wait"} \/ ~sock'[SenderEnd].open
           \/ (sender_pc = "connect" /\ UNCHANGED sock)
    <3> DEFINE rest == TakeHead(sock, SenderEnd)
    <3>1. sender_pc \in {"send", "wait"} => SenderEnd \in Ends
      BY SenderEndIsEnd DEF TypeInv
    <3>2. CanRead => /\ rest \in SockState
                     /\ \A d \in Ends : /\ rest[d].open = sock[d].open
                                        /\ LeaveRest(sock, SenderEnd)[d].open = sock[d].open
      BY <1>2, CanReadFrame, TakeHeadOpens DEF TypeInv
    <3>3. CASE SenderConnectRefused
      BY <3>3 DEF SenderConnectRefused
    <3>4. CASE SenderSend
      <4>1. CASE sender_pc' = "wait" /\ sock' = Put(sock, SenderEnd, Request)
        BY <1>2, <3>1, <3>4, <4>1, PutOpens DEF SenderSend
      <4>2. CASE ConnectionLost(sock)
        BY <1>2, <3>4, <4>2, LeaveOpens DEF SenderSend
      <4>3. CASE sock' = CloseFd(sock, {SenderEnd})
        BY <1>2, <3>1, <3>4, <4>3, CloseOpens DEF SenderSend, CloseFd
      <4> QED
        BY <3>4, <4>1, <4>2, <4>3 DEF SenderSend
    <3>5. CASE SenderReadPart
      BY <3>2, <3>5 DEF SenderReadPart, CanRead
    <3>6. CASE SenderReadResponse
      <4>1. CanRead /\ sender_pc = "wait"
        BY <3>6 DEF SenderReadResponse, CanRead
      <4>2. \/ Answered(rest) \/ (sock' = rest /\ UNCHANGED sender_pc)
            \/ (\E r : Fail(r, rest))
        BY <3>6, Zenon DEF SenderReadResponse
      <4>3. CASE Answered(rest) \/ (\E r : Fail(r, rest))
        BY <3>2, <4>1, <4>3, LeaveOpens
      <4>4. CASE sock' = rest /\ UNCHANGED sender_pc
        BY <3>2, <4>1, <4>4
      <4> QED
        BY <4>2, <4>3, <4>4
    <3>7. CASE SenderReadLate
      <4>1. CanRead /\ sender_pc = "wait"
        BY <3>7 DEF SenderReadLate, CanRead
      <4>2. NoResponse(rest) \/ Fail("invalid frame", rest)
        BY <3>7 DEF SenderReadLate
      <4> QED
        BY <3>2, <4>1, <4>2, LeaveOpens
    <3>8. CASE SenderTimeout
      <4>1. sender_pc = "wait" /\ (NoResponse(sock)
               \/ Fail("partial response", Shutdown(sock, {SenderEnd})))
        BY <3>8 DEF SenderTimeout
      <4>2. /\ Shutdown(sock, {SenderEnd}) \in SockState
            /\ \A d \in Ends : Shutdown(sock, {SenderEnd})[d].open = sock[d].open
        BY <1>2, ShutdownType, ShutdownOpens
      <4> QED
        BY <1>2, <4>1, <4>2, LeaveOpens
    <3>9. CASE SenderConnectionLost
      BY <1>2, <3>9, LeaveOpens DEF SenderConnectionLost
    <3> QED
      BY <1>1, <1>5, <3>3, <3>4, <3>5, <3>6, <3>7, <3>8, <3>9 DEF SenderNext
  <2>3. Waiting("front")' = Waiting("front") /\ Waiting("rcv")' = Waiting("rcv")
    BY <2>1 DEF Waiting
  <2>4. NoDescriptorLeak'
    BY <1>1, <1>3, <2>1, <2>2, <2>3 DEF LeakInv, NoDescriptorLeak, Sides
  <2>5. sender_pc' \notin {"send", "wait"} => AllClosed(sock', "snd")
    <3>1. CASE ~sock'[SenderEnd].open
      BY <1>3, <2>1, <2>4, <3>1 DEF NoDescriptorLeak, AllClosed, SenderEnd, Sides
    <3>2. CASE sender_pc = "connect" /\ UNCHANGED sock
      BY <3>2 DEF LeakInv, AllClosed
    <3> QED
      BY <2>2, <3>1, <3>2
  <2>6. \A c \in Conns : sock'[<<"back", c>>].open => sock[<<"back", c>>].open
    BY <1>3, <2>2 DEF Sides
  <2> QED
    BY <1>1, <2>4, <2>5, <2>6 DEF LeakInv, AllClosed
<1> QED
  BY <1>4, <1>5

(* A step of the fault injector, or of the receiver, that closes ends and  *)
(* opens none, and the rest of LeakInv for it to establish.                *)
OthersStay == UNCHANGED <<sender_pc, fd, receiver_pc, client_fd>>

LEMMA RelayEndsClosed ==
  ASSUME TypeInv, LeakInv, OthersStay, conn \in Conns,
         conn' = 0, proxy_pc' \in {"accept", "killed"},
         \A d \in Ends : sock'[d].open => sock[d].open /\ d \notin BothEnds,
         \/ UNCHANGED backlog
         \/ /\ backlog' = [backlog EXCEPT !["front"] = <<>>]
            /\ \A c \in Conns : ~sock'[<<"front", c>>].open
  PROVE  LeakInv'
<1>1. \A c \in Conns, d \in Sides : <<d, c>> \in Ends
  BY DEF Ends
<1>2. UNCHANGED <<sender_pc, fd, receiver_pc, client_fd>>
  BY DEF OthersStay
<1>3. Waiting("rcv")' = Waiting("rcv")
  <2>1. CASE UNCHANGED backlog
    BY <2>1 DEF Waiting
  <2>2. CASE backlog' = [backlog EXCEPT !["front"] = <<>>]
    <3>1. backlog'["rcv"] = backlog["rcv"]
      BY <2>2 DEF TypeInv, NetRestOK, Listeners
    <3> QED
      BY <3>1 DEF Waiting
  <2> QED
    BY <2>1, <2>2
<1>4. \A c \in Conns : sock'[<<"back", c>>].open => FALSE
  BY <1>1 DEF LeakInv, NoDescriptorLeak, BothEnds, BackEnd, Sides
<1>5. \A c \in Conns : sock'[<<"front", c>>].open => c \in Waiting("front")'
  <2>1. CASE UNCHANGED backlog
    <3>1. Waiting("front")' = Waiting("front")
      BY <2>1 DEF Waiting
    <3> QED
      BY <1>1, <3>1 DEF LeakInv, NoDescriptorLeak, BothEnds, FrontEnd, Sides
  <2>2. CASE \A c \in Conns : ~sock'[<<"front", c>>].open
    BY <2>2
  <2> QED
    BY <2>1, <2>2
<1>6. \A c \in Conns : /\ sock'[<<"snd", c>>].open => sock[<<"snd", c>>].open
                       /\ sock'[<<"rcv", c>>].open => sock[<<"rcv", c>>].open
  BY <1>1 DEF Sides
<1>7. NoDescriptorLeak'
  BY <1>2, <1>3, <1>4, <1>5, <1>6 DEF LeakInv, NoDescriptorLeak
<1> QED
  BY <1>2, <1>4, <1>6, <1>7 DEF LeakInv, AllClosed

LEMMA RelayGoesOn ==
  ASSUME TypeInv, LeakInv, OthersStay,
         proxy_pc \notin {"down", "accept", "connect", "killed"},
         proxy_pc' \notin {"down", "accept", "connect", "killed"},
         UNCHANGED <<conn, backlog>>,
         \A d \in Ends : sock'[d].open => sock[d].open
  PROVE  LeakInv'
<1>1. \A c \in Conns, d \in Sides : <<d, c>> \in Ends
  BY DEF Ends
<1>2. UNCHANGED <<sender_pc, fd, receiver_pc, client_fd>>
  BY DEF OthersStay
<1>3. \A l \in Listeners : Waiting(l)' = Waiting(l)
  BY DEF Waiting
<1>4. NoDescriptorLeak'
  BY <1>1, <1>2, <1>3 DEF LeakInv, NoDescriptorLeak, Sides, Listeners
<1>5. \A c \in Conns : sock'[<<"snd", c>>].open => sock[<<"snd", c>>].open
  BY <1>1 DEF Sides
<1> QED
  BY <1>2, <1>4, <1>5 DEF LeakInv, AllClosed

(* Forwarding a packet, or giving the connection up.                       *)
LEMMA ForwardLeaks ==
  ASSUME TypeInv, LeakInv, OthersStay, NEW s \in SockState,
         \A d \in Ends : s[d].open = sock[d].open,
         proxy_pc \notin {"down", "accept", "connect", "killed"},
         NEW to \in Ends, NEW f, NEW pc \in {"poll", "back", "hangup"},
         Forward(s, to, f, pc) \/ Teardown(s)
  PROVE  LeakInv'
<1>1. conn \in Conns /\ backlog \in [Listeners -> Seq(Conns)]
  BY DEF TypeInv, ProxyTypeOK, NetRestOK
<1>2. CASE Teardown(s)
  <2>1. \A d \in Ends : sock'[d].open => sock[d].open /\ d \notin BothEnds
    BY <1>2, CloseOpens DEF Teardown, CloseFd
  <2>2. conn' = 0 /\ proxy_pc' = "accept" /\ UNCHANGED backlog
    BY <1>2 DEF Teardown
  <2> QED
    BY <1>1, <2>1, <2>2, RelayEndsClosed
<1>3. CASE sock' = Put(s, to, f) /\ proxy_pc' = pc /\ UNCHANGED <<conn, backlog>>
  <2>1. \A d \in Ends : sock'[d].open => sock[d].open
    BY <1>3, PutOpens
  <2> QED
    BY <1>3, <2>1, RelayGoesOn
<1>4. CASE proxy_pc' = "killed" /\ conn' = 0 /\ Die(s, "front", {"front", "back"})
  <2> DEFINE gone == {e \in Ends : e[1] \in {"front", "back"}}
             left == {<<"front", backlog["front"][i]>> : i \in DOMAIN backlog["front"]}
  <2>1. /\ sock' = Close(s, gone, left)
        /\ backlog' = [backlog EXCEPT !["front"] = <<>>]
    BY <1>4 DEF Die
  <2>2. \A d \in Ends : sock'[d].open => sock[d].open /\ d \notin gone
    BY <2>1, CloseOpens
  <2>3. \A d \in Ends : d \in BothEnds => d \in gone
    BY DEF BothEnds, FrontEnd, BackEnd
  <2>4. \A c \in Conns : <<"front", c>> \in gone
    BY DEF Ends, Sides
  <2>5. \A c \in Conns : ~sock'[<<"front", c>>].open
    BY <2>2, <2>4
  <2>6. \A d \in Ends : sock'[d].open => sock[d].open /\ d \notin BothEnds
    BY <2>2, <2>3
  <2> QED
    BY <1>1, <1>4, <2>1, <2>5, <2>6, RelayEndsClosed
<1> QED
  BY <1>2, <1>3, <1>4 DEF Forward

LEMMA ProxyLeaks ==
  ASSUME TypeInv, LeakInv, ProxyStep
  PROVE  LeakInv'
<1>1. ProxyNext /\ OthersStay
  BY DEF ProxyStep, senderVars, receiverVars, OthersStay
<1>2. UNCHANGED <<sender_pc, fd, receiver_pc, client_fd>>
  BY <1>1 DEF OthersStay
<1>3. sock \in SockState /\ backlog \in [Listeners -> Seq(Conns)]
  BY DEF TypeInv, NetRestOK
<1>4. proxy_pc \notin {"down", "accept", "killed"} =>
        conn \in Conns /\ FrontEnd \in Ends /\ BackEnd \in Ends
  BY RelayEnds DEF TypeInv, ProxyTypeOK
<1>5. \A c \in Conns, d \in Sides : <<d, c>> \in Ends
  BY DEF Ends
<1>6. ASSUME NEW e
      PROVE  /\ \A d \in Ends : Received(e)[d].open = sock[d].open
             /\ \A E : \A d \in Ends :
                  Received(e) \in SockState =>
                    Shutdown(Received(e), E)[d].open = sock[d].open
  <2>1. \A d \in Ends : Received(e)[d].open = sock[d].open
    BY <1>3, TakeHeadOpens DEF Received
  <2> QED
    BY <2>1, ShutdownOpens
<1>7. CASE ProxyStart
  <2>1. UNCHANGED <<conn, sock, backlog>> /\ proxy_pc = "down" /\ proxy_pc' = "accept"
    BY <1>7 DEF ProxyStart
  <2>2. Waiting("front")' = Waiting("front") /\ Waiting("rcv")' = Waiting("rcv")
    BY <2>1 DEF Waiting
  <2> QED
    BY <1>2, <2>1, <2>2 DEF LeakInv, NoDescriptorLeak, AllClosed
<1>8. CASE ProxyAccept
  <2>1. /\ UNCHANGED sock /\ proxy_pc = "accept" /\ proxy_pc' = "connect"
        /\ backlog["front"] # <<>> /\ conn' = Head(backlog["front"])
        /\ backlog' = [backlog EXCEPT !["front"] = Tail(@)]
    BY <1>8 DEF ProxyAccept
  <2>2. Waiting("front") = {conn'} \cup Waiting("front")'
    <3>1. backlog["front"] \in Seq(Conns) /\ backlog'["front"] = Tail(backlog["front"])
      BY <1>3, <2>1 DEF Listeners
    <3> QED
      BY <2>1, <3>1, AcceptWaits DEF Waiting
  <2>3. Waiting("rcv")' = Waiting("rcv")
    BY <1>3, <2>1 DEF Waiting, Listeners
  <2>4. conn = 0 /\ \A c \in Conns : c # 0
    BY <2>1 DEF LeakInv, Conns
  <2> QED
    BY <1>2, <2>1, <2>2, <2>3, <2>4 DEF LeakInv, NoDescriptorLeak, AllClosed
<1>9. CASE ProxyConnect
  <2>1. proxy_pc = "connect" /\ conn \in Conns
    BY <1>4, <1>9 DEF ProxyConnect
  <2>2. CASE listening["rcv"]
    <3>1. Establish("back", "rcv", conn) /\ proxy_pc' = "poll" /\ UNCHANGED conn
      BY <1>9, <2>2 DEF ProxyConnect
    <3>2. /\ \A e \in Ends : e \notin {<<"back", conn>>, <<"rcv", conn>>} => sock'[e] = sock[e]
          /\ Waiting("rcv")' = Waiting("rcv") \cup {conn}
          /\ Waiting("front")' = Waiting("front")
      <4>1. "back" \in Sides /\ "rcv" \in Listeners /\ "front" \in Listeners \ {"rcv"}
        BY DEF Sides, Listeners
      <4> QED
        BY <1>3, <2>1, <3>1, <4>1, EstablishOpens
    <3>3. NoDescriptorLeak'
      BY <1>2, <1>5, <2>1, <3>1, <3>2 DEF LeakInv, NoDescriptorLeak, AllClosed, Sides
    <3>4. \A c \in Conns : sock'[<<"snd", c>>] = sock[<<"snd", c>>]
      BY <1>5, <3>2 DEF Sides
    <3> QED
      BY <1>2, <3>1, <3>3, <3>4 DEF LeakInv, AllClosed
  <2>3. CASE ~listening["rcv"]
    <3>1. /\ sock' = CloseFd(sock, {FrontEnd}) /\ proxy_pc' = "accept"
          /\ conn' = 0 /\ UNCHANGED backlog
      BY <1>9, <2>3 DEF ProxyConnect
    <3>2. \A d \in Ends : sock'[d].open => sock[d].open /\ d # FrontEnd
      BY <1>3, <3>1, CloseOpens DEF CloseFd
    <3>3. ~sock[BackEnd].open
      BY <2>1 DEF LeakInv, AllClosed, BackEnd
    <3>4. \A d \in Ends : sock'[d].open => sock[d].open /\ d \notin BothEnds
      BY <3>2, <3>3 DEF BothEnds
    <3> QED
      BY <1>1, <2>1, <3>1, <3>4, RelayEndsClosed
  <2> QED
    BY <2>2, <2>3
<1>10. CASE ProxyPoll
  BY <1>1, <1>10, RelayGoesOn DEF ProxyPoll
<1>11. CASE RelayFromSender
  <2> DEFINE f == Head(sock[FrontEnd].buf)
             s == Received(FrontEnd)
  <2>1. proxy_pc = "front" /\ FrontEnd \in Ends /\ BackEnd \in Ends
    BY <1>4, <1>11 DEF RelayFromSender
  <2>2. s \in SockState /\ Shutdown(s, BothEnds) \in SockState
    BY <1>3, <2>1, ReceivedType, ShutdownType
  <2>3. CASE Teardown(s)
    BY <1>1, <1>6, <2>1, <2>2, <2>3, ForwardLeaks
  <2>4. CASE Forward(s, BackEnd, Corrupted(f), "poll")
    BY <1>1, <1>6, <2>1, <2>2, <2>4, ForwardLeaks
  <2>5. CASE Teardown(Shutdown(s, BothEnds))
    BY <1>1, <1>6, <2>1, <2>2, <2>5, ForwardLeaks
  <2>6. CASE Forward(s, BackEnd, f, "back")
    BY <1>1, <1>6, <2>1, <2>2, <2>6, ForwardLeaks
  <2> QED
    BY <1>11, <2>3, <2>4, <2>5, <2>6, Zenon DEF RelayFromSender
<1>12. CASE RelayFromReceiver
  <2> DEFINE f == Head(sock[BackEnd].buf)
             s == Received(BackEnd)
  <2>1. proxy_pc = "back" /\ FrontEnd \in Ends /\ BackEnd \in Ends
    BY <1>4, <1>12 DEF RelayFromReceiver
  <2>2. s \in SockState
    BY <1>3, <2>1, ReceivedType
  <2>3. CASE Teardown(s)
    BY <1>1, <1>6, <2>1, <2>2, <2>3, ForwardLeaks
  <2>4. CASE sock' = s /\ proxy_pc' \in {"poll", "delay"} /\ UNCHANGED <<conn, backlog>>
    BY <1>1, <1>6, <2>1, <2>4, RelayGoesOn
  <2>5. CASE Forward(s, FrontEnd, f, "hangup")
    BY <1>1, <1>6, <2>1, <2>2, <2>5, ForwardLeaks
  <2>6. \/ Teardown(s) \/ Forward(s, FrontEnd, f, "hangup")
        \/ sock' = s /\ proxy_pc' \in {"poll", "delay"} /\ UNCHANGED <<conn, backlog>>
    BY <1>12 DEF RelayFromReceiver
  <2> QED
    BY <2>3, <2>4, <2>5, <2>6
<1>13. CASE RelaySkips
  BY <1>1, <1>13, RelayGoesOn DEF RelaySkips
<1>14. CASE RelayDelayedAck
  BY <1>1, <1>3, <1>4, <1>14, ForwardLeaks DEF RelayDelayedAck
<1>15. CASE RelayHangup
  <2>1. CASE Teardown(sock)
    BY <1>1, <1>3, <1>4, <1>15, <2>1, ForwardLeaks DEF RelayHangup
  <2>2. CASE proxy_pc' = "poll" /\ UNCHANGED <<conn, sock, backlog>>
    BY <1>1, <1>15, <2>2, RelayGoesOn DEF RelayHangup
  <2> QED
    BY <1>15, <2>1, <2>2 DEF RelayHangup
<1> QED
  BY <1>1, <1>7, <1>8, <1>9, <1>10, <1>11, <1>12, <1>13, <1>14, <1>15
     DEF ProxyNext, ProxyRun

(* The end of the receiver process closes every end it has.                *)
LEMMA ReceiverDieLeaks ==
  ASSUME TypeInv, LeakInv, UNCHANGED <<sender_pc, fd, proxy_pc, conn>>,
         client_fd' = 0, NEW s \in SockState, Die(s, "rcv", {"rcv"}),
         \A d \in Ends : s[d].open => sock[d].open
  PROVE  LeakInv'
<1> DEFINE gone == {e \in Ends : e[1] \in {"rcv"}}
           left == {<<"rcv", backlog["rcv"][i]>> : i \in DOMAIN backlog["rcv"]}
<1>1. /\ sock' = Close(s, gone, left)
      /\ backlog' = [backlog EXCEPT !["rcv"] = <<>>]
  BY DEF Die
<1>2. \A d \in Ends : sock'[d].open => sock[d].open /\ d \notin gone
  BY <1>1, CloseOpens
<1>3. \A c \in Conns : /\ <<"rcv", c>> \in gone
                       /\ \A d \in Sides : <<d, c>> \in Ends
  BY DEF Ends, Sides
<1>4. Waiting("front")' = Waiting("front")
  <2>1. backlog'["front"] = backlog["front"]
    BY <1>1 DEF TypeInv, NetRestOK
  <2> QED
    BY <2>1 DEF Waiting
<1> HIDE DEF gone, left
<1>5. \A c \in Conns : ~sock'[<<"rcv", c>>].open
  BY <1>2, <1>3 DEF Sides
<1>6. \A c \in Conns : /\ sock'[<<"snd", c>>].open => sock[<<"snd", c>>].open
                       /\ sock'[<<"front", c>>].open => sock[<<"front", c>>].open
                       /\ sock'[<<"back", c>>].open => sock[<<"back", c>>].open
  BY <1>2, <1>3 DEF Sides
<1>7. NoDescriptorLeak'
  BY <1>4, <1>5, <1>6 DEF LeakInv, NoDescriptorLeak
<1> QED
  BY <1>6, <1>7 DEF LeakInv, AllClosed

LEMMA ReceiverLeaks ==
  ASSUME TypeInv, LeakInv, ReceiverStep
  PROVE  LeakInv'
<1>1. ReceiverNext /\ UNCHANGED <<sender_pc, fd, proxy_pc, conn>>
  BY DEF ReceiverStep, senderVars, proxyVars
<1>2. sock \in SockState /\ backlog \in [Listeners -> Seq(Conns)]
  BY DEF TypeInv, NetRestOK
<1>3. \A c \in Conns, d \in Sides : <<d, c>> \in Ends
  BY DEF Ends
<1>4. receiver_pc \in {"recv", "reply"} => ReceiverEnd \in Ends /\ client_fd \in Conns
  BY DEF TypeInv, ReceiverTypeOK, ReceiverEnd, Ends, Sides
<1>5. CASE /\ UNCHANGED <<client_fd, backlog>>
           /\ \A d \in Ends : sock'[d].open => sock[d].open
           /\ receiver_pc' \in {"recv", "reply"} \/ client_fd = 0
  <2>1. Waiting("front")' = Waiting("front") /\ Waiting("rcv")' = Waiting("rcv")
    BY <1>5 DEF Waiting
  <2>2. NoDescriptorLeak'
    BY <1>1, <1>3, <1>5, <2>1 DEF LeakInv, NoDescriptorLeak, Sides
  <2>3. \A c \in Conns : /\ sock'[<<"snd", c>>].open => sock[<<"snd", c>>].open
                         /\ sock'[<<"back", c>>].open => sock[<<"back", c>>].open
    BY <1>3, <1>5 DEF Sides
  <2> QED
    BY <1>1, <1>5, <2>2, <2>3 DEF LeakInv, AllClosed
<1>6. CASE ReceiverStart
  BY <1>5, <1>6 DEF ReceiverStart, LeakInv
<1>7. CASE \/ ReceiverCrash
           \/ \E s \in SockState : \E pc :
                /\ ReceiverExit(s, pc)
                /\ \A d \in Ends : s[d].open => sock[d].open
  <2>1. PICK s \in SockState : /\ client_fd' = 0 /\ Die(s, "rcv", {"rcv"})
                               /\ \A d \in Ends : s[d].open => sock[d].open
    BY <1>2, <1>7 DEF ReceiverCrash, ReceiverExit
  <2> QED
    BY <1>1, <2>1, ReceiverDieLeaks
<1>8. CASE ReceiverAccept
  <2>1. /\ UNCHANGED sock /\ receiver_pc = "accept" /\ receiver_pc' = "recv"
        /\ backlog["rcv"] # <<>> /\ client_fd' = Head(backlog["rcv"])
        /\ backlog' = [backlog EXCEPT !["rcv"] = Tail(@)]
    BY <1>8 DEF ReceiverAccept
  <2>2. Waiting("rcv") = {client_fd'} \cup Waiting("rcv")'
    <3>1. backlog["rcv"] \in Seq(Conns) /\ backlog'["rcv"] = Tail(backlog["rcv"])
      BY <1>2, <2>1 DEF Listeners
    <3> QED
      BY <2>1, <3>1, AcceptWaits DEF Waiting
  <2>3. Waiting("front")' = Waiting("front")
    BY <1>2, <2>1 DEF Waiting, Listeners
  <2>4. client_fd = 0 /\ \A c \in Conns : c # 0
    BY <2>1 DEF LeakInv, Conns
  <2> QED
    BY <1>1, <2>1, <2>2, <2>3, <2>4 DEF LeakInv, NoDescriptorLeak, AllClosed
<1>9. CASE ReceiverRead
  <2>1. CASE sock' = TakeHead(sock, ReceiverEnd) /\ receiver_pc' = "reply"
             /\ UNCHANGED <<client_fd, backlog>>
    BY <1>2, <1>5, <2>1, TakeHeadOpens
  <2>2. CASE ReceiverExit(TakeHead(sock, ReceiverEnd), "exited")
    <3>1. ReceiverEnd \in Ends /\ sock[ReceiverEnd].buf # <<>>
      BY <1>4, <1>9 DEF ReceiverRead
    <3>2. /\ TakeHead(sock, ReceiverEnd) \in SockState
          /\ \A d \in Ends : TakeHead(sock, ReceiverEnd)[d].open => sock[d].open
      BY <1>2, <3>1, TakeHeadType, TakeHeadOpens
    <3> QED
      BY <1>7, <2>2, <3>2
  <2> QED
    BY <1>9, <2>1, <2>2 DEF ReceiverRead, HandleData, HandleHeartbeat
<1>10. CASE ReceiverEOF
  <2>1. /\ sock' = CloseFd(sock, {ReceiverEnd}) /\ client_fd' = 0
        /\ UNCHANGED backlog /\ client_fd \in Conns
    BY <1>4, <1>10 DEF ReceiverEOF, Released
  <2>2. \A d \in Ends : sock'[d].open => sock[d].open /\ d # ReceiverEnd
    BY <1>2, <2>1, CloseOpens DEF CloseFd
  <2>3. Waiting("front")' = Waiting("front") /\ Waiting("rcv")' = Waiting("rcv")
    BY <2>1 DEF Waiting
  <2>4. \A c \in Conns : sock'[<<"rcv", c>>].open => c # client_fd
    BY <1>3, <2>2 DEF ReceiverEnd, Sides
  <2>5. NoDescriptorLeak'
    BY <1>1, <1>3, <2>2, <2>3, <2>4 DEF LeakInv, NoDescriptorLeak, Sides
  <2>6. \A c \in Conns : /\ sock'[<<"snd", c>>].open => sock[<<"snd", c>>].open
                         /\ sock'[<<"back", c>>].open => sock[<<"back", c>>].open
    BY <1>3, <2>2 DEF Sides
  <2> QED
    BY <1>1, <2>1, <2>5, <2>6 DEF LeakInv, AllClosed
<1>11. CASE ReceiverRecvFailed
  BY <1>2, <1>7, <1>11 DEF ReceiverRecvFailed
<1>12. CASE ReceiverReply
  <2>1. CASE sock' = Put(sock, ReceiverEnd, reply) /\ receiver_pc' = "recv"
             /\ UNCHANGED <<client_fd, backlog>>
    BY <1>2, <1>4, <1>5, <1>12, <2>1, PutOpens DEF ReceiverReply
  <2> QED
    BY <1>2, <1>7, <1>12, <2>1 DEF ReceiverReply
<1> QED
  BY <1>1, <1>6, <1>7, <1>8, <1>9, <1>10, <1>11, <1>12
     DEF ReceiverNext, ReceiverRun

(* No process loses track of a connection end, over however many           *)
(* connections, failures and restarts.                                     *)
THEOREM DescriptorsKept == Spec => []NoDescriptorLeak
<1>1. Init => LeakInv
  BY DEF Init, NetInit, SenderInit, ProxyInit, ReceiverInit, LeakInv,
         NoDescriptorLeak, AllClosed, Ends, Sides, Closed
<1>2. TypeInv /\ LeakInv /\ [Next]_vars => LeakInv'
  <2> SUFFICES ASSUME TypeInv, LeakInv, [Next]_vars
               PROVE  LeakInv'
    OBVIOUS
  <2>1. CASE SenderStep
    BY <2>1, SenderLeaks
  <2>2. CASE ProxyStep
    BY <2>2, ProxyLeaks
  <2>3. CASE ReceiverStep
    BY <2>3, ReceiverLeaks
  <2>4. CASE UNCHANGED vars
    BY <2>4 DEF vars, netVars, senderVars, proxyVars, receiverVars, LeakInv,
       NoDescriptorLeak, AllClosed, Waiting
  <2> QED
    BY <2>1, <2>2, <2>3, <2>4 DEF Next
<1>3. LeakInv => NoDescriptorLeak
  BY DEF LeakInv
<1> QED
  BY <1>1, <1>2, <1>3, TypeInvariant, PTL DEF Spec

-----------------------------------------------------------------------------
(***************************************************************************)
(* Part 3: the streams.  What lies unread on each end is a sequence of     *)
(* whole frames that answer, or ask for an answer to, a request of the     *)
(* sender (but for the one response it is in the middle of reading).  With *)
(* part 2 this makes every step one of RequestSession, or invisible to it. *)
(***************************************************************************)

-----------------------------------------------------------------------------
(* Streams.  Keys are the responses the sender can still be sent: the ones *)
(* it has matched and the one it waits for, or will wait for next.         *)

Keys == completed_responses \cup {Expected}

AnswerKey(f) == <<IF f.type = "Data" THEN "Ack" ELSE "HeartbeatAck", f.seq>>

(* A request may have been corrupted on its way; a response never is.      *)
RequestFrame ==
  {f \in Frame : f.type \in {"Data", "Heartbeat"} /\ AnswerKey(f) \in Keys}

ResponseFrame ==
  {f \in Frame : /\ f.type \in {"Ack", "HeartbeatAck"} /\ f.crcOk
                 /\ <<f.type, f.seq>> \in Keys}

Carried(e) == IF e[1] \in {"snd", "back"} THEN ResponseFrame ELSE RequestFrame

(* The rest of a half read response, and what comes after it.              *)
Torn == {q \in Seq(Frame) : q # <<>> /\ Tail(q) \in Seq(ResponseFrame)}

Unread == [e \in Ends |-> IF e = SenderEnd /\ partial # NoFrame
                            THEN Torn ELSE Seq(Carried(e))]

Holds(s, P) == \A e \in Ends : s[e].buf \in P[e]

StreamInv ==
  /\ Holds(sock, Unread)
  /\ partial # NoFrame => sender_pc = "wait" /\ partial \in ResponseFrame
  /\ delayed \in ResponseFrame \cup {NoFrame}
  /\ reply \in ResponseFrame \cup {NoFrame}
  /\ NoProtocolError

(* The same without a half read response.                                  *)
Whole == [e \in Ends |-> Seq(Carried(e))]

(* send(), recv(), close(), shutdown() and connect(), end by end.          *)
LEMMA PutHolds ==
  ASSUME NEW s \in SockState, NEW e \in Ends, NEW f, NEW P, Holds(s, P),
         \A q \in P[Peer(e)] : Append(q, f) \in P[Peer(e)]
  PROVE  Holds(Put(s, e, f), P)
<1>1. Peer(e) \in Ends
  BY PeerIsEnd
<1>2. \A d \in Ends : s[d] \in Socket
  BY SocketOfFrame DEF SockState, SockOf
<1>3. CASE s[Peer(e)].open
  <2>1. \A d \in Ends : d # Peer(e) => Put(s, e, f)[d] = s[d]
    BY <1>3 DEF Put, SockState, SockOf
  <2>2. Put(s, e, f)[Peer(e)].buf = Append(s[Peer(e)].buf, f)
    BY <1>1, <1>2, <1>3 DEF Put, SockState, SockOf, Socket
  <2> QED
    BY <1>1, <2>1, <2>2 DEF Holds
<1>4. CASE ~s[Peer(e)].open
  <2>1. \A d \in Ends : Put(s, e, f)[d].buf = s[d].buf
    BY <1>2, <1>4 DEF Put, SockState, SockOf, Socket
  <2> QED
    BY <2>1 DEF Holds
<1> QED
  BY <1>3, <1>4

LEMMA TakeHeadHolds ==
  ASSUME NEW s \in SockState, NEW e \in Ends, NEW P,
         \A d \in Ends : d # e => s[d].buf \in P[d],
         Tail(s[e].buf) \in P[e]
  PROVE  Holds(TakeHead(s, e), P)
<1>1. s[e] \in Socket
  BY SocketOfFrame DEF SockState, SockOf
<1>2. TakeHead(s, e)[e].buf = Tail(s[e].buf)
  BY <1>1 DEF TakeHead, SockState, SockOf, Socket
<1>3. \A d \in Ends : d # e => TakeHead(s, e)[d] = s[d]
  BY DEF TakeHead, SockState, SockOf
<1> QED
  BY <1>2, <1>3 DEF Holds

LEMMA CloseHolds ==
  ASSUME NEW s \in SockState, NEW E, NEW A, NEW P,
         \A d \in Ends : IF d \in E THEN <<>> \in P[d] ELSE s[d].buf \in P[d]
  PROVE  Holds(Close(s, E, A), P)
<1>1. \A d \in Ends : s[d] \in Socket
  BY SocketOfFrame DEF SockState, SockOf
<1>2. \A d \in Ends : d \in E => Close(s, E, A)[d].buf = <<>>
  BY DEF Close, Closed
<1>3. \A d \in Ends : d \notin E => Close(s, E, A)[d].buf = s[d].buf
  BY <1>1 DEF Close, Socket
<1> QED
  BY <1>2, <1>3 DEF Holds

LEMMA ShutdownHolds ==
  ASSUME NEW s \in SockState, NEW E
  PROVE  \A d \in Ends : Shutdown(s, E)[d].buf = s[d].buf
<1>1. \A d \in Ends : s[d] \in Socket
  BY SocketOfFrame DEF SockState, SockOf
<1> QED
  BY <1>1 DEF Shutdown, Socket

LEMMA EstablishHolds ==
  ASSUME sock \in SockState, NEW d, NEW l, NEW c, NEW P, Holds(sock, P),
         Establish(d, l, c),
         \A e \in {<<d, c>>, <<l, c>>} : <<>> \in P[e]
  PROVE  Holds(sock', P)
<1>1. \A e \in Ends : sock'[e] = Fresh \/ sock'[e] = sock[e]
  BY DEF Establish, SockState, SockOf
<1>2. \A e \in Ends : e \notin {<<d, c>>, <<l, c>>} => sock'[e] = sock[e]
  BY DEF Establish, SockState, SockOf
<1>3. Fresh.buf = <<>>
  BY DEF Fresh
<1> QED
  BY <1>1, <1>2, <1>3 DEF Holds

-----------------------------------------------------------------------------
(* What the sets of StreamInv are closed under.                            *)

LEMMA TornAppends ==
  ASSUME NEW q \in Torn, NEW f \in ResponseFrame
  PROVE  Append(q, f) \in Torn
<1>1. q \in Seq(Frame) /\ q # <<>> /\ Tail(q) \in Seq(ResponseFrame) /\ f \in Frame
  BY DEF Torn, ResponseFrame
<1> DEFINE a == Append(q, f)
<1>2. /\ a \in Seq(Frame) /\ a # <<>> /\ Len(a) = Len(q) + 1 /\ Len(q) >= 1
      /\ \A i \in 1 .. Len(q) : a[i] = q[i]
      /\ a[Len(q) + 1] = f
  BY <1>1
<1> HIDE DEF a
<1>3. /\ Tail(a) \in Seq(Frame) /\ Len(Tail(a)) = Len(q)
      /\ \A i \in 1 .. Len(q) : Tail(a)[i] = a[i + 1]
  BY <1>1, <1>2
<1>4. /\ Len(Tail(q)) = Len(q) - 1
      /\ \A i \in 1 .. Len(q) - 1 : Tail(q)[i] = q[i + 1] /\ Tail(q)[i] \in ResponseFrame
  BY <1>1, <1>2
<1>5. \A i \in 1 .. Len(Tail(a)) : Tail(a)[i] \in ResponseFrame
  <2> TAKE i \in 1 .. Len(Tail(a))
  <2>1. CASE i = Len(q)
    BY <1>1, <1>2, <1>3, <2>1
  <2>2. CASE i # Len(q)
    BY <1>1, <1>2, <1>3, <1>4, <2>2
  <2> QED
    BY <2>1, <2>2
<1>6. Tail(a) \in Seq(ResponseFrame)
  <2> DEFINE t == Tail(a)
  <2>1. t \in Seq(Frame) /\ \A i \in 1 .. Len(t) : t[i] \in ResponseFrame
    BY <1>3, <1>5
  <2> HIDE DEF t
  <2>2. t \in [1 .. Len(t) -> ResponseFrame] /\ Len(t) \in Nat
    BY <2>1
  <2>3. t \in Seq(ResponseFrame)
    BY <2>2
  <2> QED
    BY <2>3 DEF t
<1>7. a \in Torn
  BY <1>2, <1>6 DEF Torn
<1> QED
  BY <1>7 DEF a

LEMMA UnreadBasics ==
  /\ \A e \in Ends : e[1] # "snd" => Unread[e] = Seq(Carried(e)) /\ <<>> \in Unread[e]
  /\ \A e \in Ends : \A f \in Carried(e) : \A q \in Unread[e] :
       Append(q, f) \in Unread[e]
<1>1. ASSUME NEW e \in Ends, e[1] # "snd"
      PROVE  Unread[e] = Seq(Carried(e)) /\ <<>> \in Unread[e]
  <2>1. Unread[e] = Seq(Carried(e))
    BY <1>1 DEF Unread, SenderEnd
  <2>2. \A F : <<>> \in Seq(F)
    OBVIOUS
  <2> QED
    BY <2>1, <2>2
<1>2. ASSUME NEW e \in Ends, NEW f \in Carried(e), NEW q \in Unread[e]
      PROVE  Append(q, f) \in Unread[e]
  <2>1. CASE e = SenderEnd /\ partial # NoFrame
    <3>1. Unread[e] = Torn /\ Carried(e) = ResponseFrame
      BY <2>1 DEF Unread, Carried, SenderEnd
    <3> QED
      BY <1>2, <3>1, TornAppends
  <2>2. CASE ~(e = SenderEnd /\ partial # NoFrame)
    <3>1. Unread[e] = Seq(Carried(e))
      BY <2>2 DEF Unread
    <3> QED
      BY <1>2, <3>1
  <2> QED
    BY <2>1, <2>2
<1> QED
  BY <1>1, <1>2

LEMMA FramesAreFrames ==
  /\ ResponseFrame \subseteq Frame /\ RequestFrame \subseteq Frame
  /\ \A e : Carried(e) \subseteq Frame
  /\ NoFrame \notin ResponseFrame
BY NoFrameIsNone DEF ResponseFrame, RequestFrame, Carried

(* What a response, or a corrupted request, is.                            *)
LEMMA CorruptedIsRequest ==
  ASSUME NEW f \in RequestFrame
  PROVE  Corrupted(f) \in RequestFrame
<1>1. Corrupted(f) \in Frame /\ Corrupted(f).type = f.type /\ Corrupted(f).seq = f.seq
  BY CorruptedIsFrame DEF RequestFrame, Corrupted, Frame
<1> QED
  BY <1>1 DEF RequestFrame, AnswerKey

LEMMA AnswerIsResponse ==
  ASSUME NEW f \in RequestFrame
  PROVE  /\ f.type = "Data" => Packet("Ack", f.seq) \in ResponseFrame
         /\ f.type = "Heartbeat" => Packet("HeartbeatAck", f.seq) \in ResponseFrame
<1>1. f.seq \in Nat /\ AnswerKey(f) \in Keys
  BY DEF RequestFrame, Frame
<1>2. Packet("Ack", f.seq) \in Frame /\ Packet("HeartbeatAck", f.seq) \in Frame
  BY <1>1, PacketIsFrame DEF MessageType
<1> QED
  BY <1>1, <1>2 DEF ResponseFrame, AnswerKey, Packet

LEMMA RequestIsAsked ==
  ASSUME TypeInv
  PROVE  Request \in RequestFrame
<1>1. Request \in Frame
  BY RequestIsFrame DEF TypeInv
<1> QED
  BY <1>1 DEF Request, RequestFrame, AnswerKey, Keys, Expected, Packet

-----------------------------------------------------------------------------
(* The fault injector and the receiver: the sender's requests stay.        *)

SenderStays == UNCHANGED senderVars

LEMMA StreamStays ==
  ASSUME SenderStays
  PROVE  /\ Unread' = Unread /\ ResponseFrame' = ResponseFrame /\ Keys' = Keys
         /\ UNCHANGED <<partial, sender_pc, sender_error>>
BY DEF SenderStays, senderVars, Unread, ResponseFrame, RequestFrame, Carried, Torn,
       AnswerKey, Keys, Expected, SenderEnd

LEMMA ForwardStream ==
  ASSUME NEW s \in SockState, Holds(s, Unread), conn \in Conns,
         NEW to \in {FrontEnd, BackEnd}, NEW f \in Carried(Peer(to)), NEW pc,
         Forward(s, to, f, pc) \/ Teardown(s)
  PROVE  Holds(sock', Unread)
<1>1. to \in Ends /\ Peer(to) \in Ends
  BY RelayEnds, PeerIsEnd
<1>2. Holds(Put(s, to, f), Unread)
  BY <1>1, PutHolds, UnreadBasics
<1>3. ASSUME NEW E, NEW A, \A d \in E : d[1] # "snd"
      PROVE  Holds(Close(s, E, A), Unread)
  <2>1. \A d \in Ends : d \in E => <<>> \in Unread[d]
    BY <1>3, UnreadBasics
  <2> QED
    BY <2>1, CloseHolds DEF Holds
<1>4. Holds(CloseFd(s, BothEnds), Unread)
  BY <1>3 DEF CloseFd, BothEnds, FrontEnd, BackEnd
<1>5. Die(s, "front", {"front", "back"}) => Holds(sock', Unread)
  BY <1>3 DEF Die
<1> QED
  BY <1>2, <1>4, <1>5 DEF Forward, Teardown

LEMMA ProxyStream ==
  ASSUME TypeInv, StreamInv, ProxyStep
  PROVE  StreamInv'
<1>1. ProxyNext /\ UNCHANGED reply /\ SenderStays
  BY DEF ProxyStep, receiverVars, SenderStays
<1>2. sock \in SockState /\ Holds(sock, Unread)
  BY DEF TypeInv, StreamInv
<1>3. proxy_pc \notin {"down", "accept", "killed"} =>
        conn \in Conns /\ FrontEnd \in Ends /\ BackEnd \in Ends
  BY RelayEnds DEF TypeInv, ProxyTypeOK
<1>4. /\ Carried(FrontEnd) = RequestFrame /\ Carried(BackEnd) = ResponseFrame
      /\ Carried(Peer(FrontEnd)) = ResponseFrame /\ Carried(Peer(BackEnd)) = RequestFrame
      /\ FrontEnd[1] # "snd" /\ BackEnd[1] # "snd"
  BY DEF Carried, FrontEnd, BackEnd, Peer, PeerSide
<1>5. ASSUME NEW e \in Ends, e[1] # "snd"
      PROVE  /\ Received(e) \in SockState /\ Holds(Received(e), Unread)
             /\ ~ReceiveThrows(e) => Head(sock[e].buf) \in Carried(e)
  <2>1. sock[e].buf \in Seq(Carried(e)) /\ Unread[e] = Seq(Carried(e))
    BY <1>2, <1>5, UnreadBasics DEF Holds
  <2>2. sock[e].buf # <<>> => /\ Head(sock[e].buf) \in Carried(e)
                              /\ Tail(sock[e].buf) \in Seq(Carried(e))
    BY <2>1
  <2>3. sock[e].buf # <<>> => Holds(TakeHead(sock, e), Unread)
    BY <1>2, <2>1, <2>2, TakeHeadHolds DEF Holds
  <2> QED
    BY <1>2, <2>2, <2>3, ReceivedType DEF Received, ReceiveThrows
<1> SUFFICES Holds(sock', Unread) /\ delayed' \in ResponseFrame \cup {NoFrame}
  BY <1>1, StreamStays DEF StreamInv, NoProtocolError
<1>6. delayed \in ResponseFrame \cup {NoFrame}
  BY DEF StreamInv
<1>7. CASE UNCHANGED <<sock, delayed>>
  BY <1>2, <1>6, <1>7
<1>8. CASE ProxyConnect
  <2>1. conn \in Conns /\ UNCHANGED delayed
    BY <1>3, <1>8 DEF ProxyConnect
  <2>2. CASE Establish("back", "rcv", conn)
    <3>1. <<"back", conn>> \in Ends /\ <<"rcv", conn>> \in Ends
      BY <2>1 DEF Ends, Sides
    <3>2. <<>> \in Unread[<<"back", conn>>] /\ <<>> \in Unread[<<"rcv", conn>>]
      BY <3>1, UnreadBasics
    <3> QED
      BY <1>2, <1>6, <2>1, <2>2, <3>2, EstablishHolds
  <2>3. CASE sock' = CloseFd(sock, {FrontEnd})
    <3>1. <<>> \in Unread[FrontEnd]
      BY <1>3, <1>4, <1>8, UnreadBasics DEF ProxyConnect
    <3> QED
      BY <1>2, <1>6, <2>1, <2>3, <3>1, CloseHolds DEF CloseFd, Holds
  <2> QED
    BY <1>8, <2>2, <2>3 DEF ProxyConnect
<1>9. CASE RelayFromSender
  <2> DEFINE f == Head(sock[FrontEnd].buf)
             s == Received(FrontEnd)
  <2>1. /\ conn \in Conns /\ UNCHANGED delayed
        /\ s \in SockState /\ Holds(s, Unread)
        /\ ~ReceiveThrows(FrontEnd) => f \in RequestFrame /\ Corrupted(f) \in RequestFrame
    BY <1>3, <1>4, <1>5, <1>9, CorruptedIsRequest DEF RelayFromSender
  <2>2. Shutdown(s, BothEnds) \in SockState /\ Holds(Shutdown(s, BothEnds), Unread)
    BY <2>1, ShutdownType, ShutdownHolds DEF Holds
  <2>3. \E x : x \in Carried(Peer(BackEnd))
    BY <1>4, RequestIsAsked
  <2>4. CASE Teardown(s)
    BY <1>6, <2>1, <2>3, <2>4, ForwardStream
  <2>5. CASE ~ReceiveThrows(FrontEnd) /\ Forward(s, BackEnd, Corrupted(f), "poll")
    BY <1>4, <1>6, <2>1, <2>5, ForwardStream
  <2>6. CASE Teardown(Shutdown(s, BothEnds))
    BY <1>6, <2>1, <2>2, <2>3, <2>6, ForwardStream
  <2>7. CASE ~ReceiveThrows(FrontEnd) /\ Forward(s, BackEnd, f, "back")
    BY <1>4, <1>6, <2>1, <2>7, ForwardStream
  <2> QED
    BY <1>9, <2>4, <2>5, <2>6, <2>7, Zenon DEF RelayFromSender
<1>10. CASE RelayFromReceiver
  <2> DEFINE f == Head(sock[BackEnd].buf)
             s == Received(BackEnd)
  <2>1. /\ conn \in Conns /\ s \in SockState /\ Holds(s, Unread)
        /\ ~ReceiveThrows(BackEnd) => f \in ResponseFrame
    BY <1>3, <1>4, <1>5, <1>10 DEF RelayFromReceiver
  <2>2. \E x : x \in Carried(Peer(BackEnd))
    BY <1>4, RequestIsAsked
  <2>3. CASE Teardown(s) /\ UNCHANGED delayed
    BY <1>6, <2>1, <2>2, <2>3, ForwardStream
  <2>4. CASE sock' = s /\ UNCHANGED delayed
    BY <1>6, <2>1, <2>4
  <2>5. CASE ~ReceiveThrows(BackEnd) /\ sock' = s /\ delayed' = f
    BY <2>1, <2>5
  <2>6. CASE /\ ~ReceiveThrows(BackEnd) /\ Forward(s, FrontEnd, f, "hangup")
             /\ UNCHANGED delayed
    BY <1>4, <1>6, <2>1, <2>6, ForwardStream
  <2> QED
    BY <1>10, <2>3, <2>4, <2>5, <2>6, Zenon DEF RelayFromReceiver
<1>11. CASE RelayDelayedAck
  <2>1. /\ conn \in Conns /\ delayed \in ResponseFrame /\ UNCHANGED delayed
        /\ Forward(sock, FrontEnd, delayed, "hangup")
    BY <1>3, <1>6, <1>11, NoFrameIsNone DEF RelayDelayedAck, TypeInv, ProxyTypeOK
  <2> QED
    BY <1>2, <1>4, <1>6, <2>1, ForwardStream
<1>12. CASE RelayHangup
  <2>1. \E x : x \in Carried(Peer(BackEnd))
    BY <1>4, RequestIsAsked
  <2> QED
    BY <1>2, <1>3, <1>6, <1>12, <2>1, ForwardStream DEF RelayHangup
<1>13. ProxyStart \/ ProxyAccept \/ ProxyPoll \/ RelaySkips => UNCHANGED <<sock, delayed>>
  BY DEF ProxyStart, ProxyAccept, ProxyPoll, RelaySkips
<1> QED
  BY <1>1, <1>7, <1>8, <1>9, <1>10, <1>11, <1>12, <1>13 DEF ProxyNext, ProxyRun

LEMMA ReceiverStream ==
  ASSUME TypeInv, StreamInv, ReceiverStep
  PROVE  StreamInv'
<1>1. ReceiverNext /\ UNCHANGED delayed /\ SenderStays
  BY DEF ReceiverStep, proxyVars, SenderStays
<1>2. sock \in SockState /\ Holds(sock, Unread) /\ reply \in ResponseFrame \cup {NoFrame}
  BY DEF TypeInv, StreamInv
<1>3. receiver_pc \in {"recv", "reply"} => ReceiverEnd \in Ends
  BY DEF TypeInv, ReceiverTypeOK, ReceiverEnd, Ends, Sides
<1>4. /\ Carried(ReceiverEnd) = RequestFrame
      /\ Carried(Peer(ReceiverEnd)) = ResponseFrame
      /\ ReceiverEnd[1] # "snd"
  BY DEF Carried, ReceiverEnd, Peer, PeerSide
<1> SUFFICES Holds(sock', Unread) /\ reply' \in ResponseFrame \cup {NoFrame}
  BY <1>1, StreamStays DEF StreamInv, NoProtocolError
<1>5. ASSUME NEW s \in SockState, Holds(s, Unread), NEW E, NEW A, \A d \in E : d[1] # "snd"
      PROVE  Holds(Close(s, E, A), Unread)
  <2>1. \A d \in Ends : d \in E => <<>> \in Unread[d]
    BY <1>5, UnreadBasics
  <2> QED
    BY <1>5, <2>1, CloseHolds DEF Holds
<1>6. CASE UNCHANGED <<sock, reply>>
  BY <1>2, <1>6
<1>7. ASSUME NEW s \in SockState, Holds(s, Unread), Die(s, "rcv", {"rcv"}), UNCHANGED reply
      PROVE  Holds(sock', Unread) /\ reply' \in ResponseFrame \cup {NoFrame}
  BY <1>2, <1>5, <1>7 DEF Die
<1>8. CASE ReceiverRead
  <2> DEFINE f == Head(sock[ReceiverEnd].buf)
  <2>1. sock[ReceiverEnd].buf # <<>> /\ ReceiverEnd \in Ends
    BY <1>3, <1>8 DEF ReceiverRead
  <2>2. sock[ReceiverEnd].buf \in Seq(RequestFrame) /\ Unread[ReceiverEnd] = Seq(RequestFrame)
    BY <1>2, <1>4, <2>1, UnreadBasics DEF Holds
  <2>3. f \in RequestFrame /\ Tail(sock[ReceiverEnd].buf) \in Seq(RequestFrame)
    BY <2>1, <2>2
  <2>4. Holds(TakeHead(sock, ReceiverEnd), Unread)
    BY <1>2, <2>1, <2>2, <2>3, TakeHeadHolds DEF Holds
  <2>5. CASE f.type = "Data" /\ HandleData(f)
    BY <2>3, <2>4, <2>5, AnswerIsResponse DEF HandleData, AckFor
  <2>6. CASE f.type = "Heartbeat" /\ HandleHeartbeat(f)
    BY <2>3, <2>4, <2>6, AnswerIsResponse DEF HandleHeartbeat
  <2>7. CASE ReceiverExit(TakeHead(sock, ReceiverEnd), "exited")
    <3>1. TakeHead(sock, ReceiverEnd) \in SockState
      BY <1>2, <2>1, TakeHeadType
    <3> QED
      BY <1>7, <2>4, <2>7, <3>1 DEF ReceiverExit
  <2> QED
    BY <1>8, <2>5, <2>6, <2>7 DEF ReceiverRead
<1>9. CASE ReceiverEOF
  BY <1>2, <1>4, <1>5, <1>9 DEF ReceiverEOF, Released, CloseFd
<1>10. CASE ReceiverReply
  <2>1. ReceiverEnd \in Ends /\ reply \in ResponseFrame
    BY <1>2, <1>3, <1>10, NoFrameIsNone DEF ReceiverReply, TypeInv, ReceiverTypeOK
  <2>2. Peer(ReceiverEnd) \in Ends
    BY <2>1, PeerIsEnd
  <2>3. Holds(Put(sock, ReceiverEnd, reply), Unread)
    BY <1>2, <1>4, <2>1, <2>2, PutHolds, UnreadBasics
  <2> QED
    BY <1>2, <1>7, <1>10, <2>3 DEF ReceiverReply, ReceiverExit
<1>11. CASE ReceiverCrash \/ ReceiverRecvFailed
  BY <1>2, <1>7, <1>11 DEF ReceiverCrash, ReceiverRecvFailed, ReceiverExit
<1>12. ReceiverStart \/ ReceiverAccept => UNCHANGED <<sock, reply>>
  BY DEF ReceiverStart, ReceiverAccept
<1> QED
  BY <1>1, <1>6, <1>8, <1>9, <1>10, <1>11, <1>12 DEF ReceiverNext, ReceiverRun

-----------------------------------------------------------------------------
(* The sender.  Its matched responses and the one it waits for only grow.  *)

LEMMA KeysGrow ==
  ASSUME Keys \subseteq Keys', partial' = NoFrame, NEW s, Holds(s, Whole)
  PROVE  /\ Holds(s, Unread')
         /\ ResponseFrame \subseteq ResponseFrame'
<1>1. /\ RequestFrame \subseteq RequestFrame'
      /\ ResponseFrame \subseteq ResponseFrame'
  BY DEF RequestFrame, ResponseFrame, AnswerKey
<1>2. \A e \in Ends : Carried(e) \subseteq Carried(e)'
  BY <1>1 DEF Carried
<1>3. \A F, G : F \subseteq G => \A q \in Seq(F) : q \in Seq(G)
  <2> TAKE F, G
  <2> HAVE F \subseteq G
  <2> TAKE q \in Seq(F)
  <2> QED
    OBVIOUS
<1>4. \A e \in Ends : Unread'[e] = Seq(Carried(e)')
  <2>1. NoFrame' = NoFrame
    BY DEF NoFrame
  <2> QED
    BY <2>1 DEF Unread
<1>5. \A e \in Ends : s[e].buf \in Seq(Carried(e))
  BY DEF Holds, Whole
<1> QED
  BY <1>1, <1>2, <1>3, <1>4, <1>5 DEF Holds

LEMMA WholeStream ==
  ASSUME StreamInv, partial = NoFrame
  PROVE  Holds(sock, Whole)
BY DEF StreamInv, Holds, Unread, Whole

(* Leaving a point of the sender's main: the connection goes on at a frame *)
(* boundary, or is closed.                                                 *)
LEMMA LeaveStream ==
  ASSUME TypeInv, StreamInv, sender_pc \in {"send", "wait"},
         NEW s \in SockState,
         \A e \in Ends : e # SenderEnd => s[e].buf \in Seq(Carried(e)),
         NEW r,
         \/ Fail(r, s) \/ Reconnect(s) \/ ConnectionLost(s)
         \/ (NoResponse(s) \/ Answered(s)) /\ Holds(s, Whole)
  PROVE  Holds(sock', Whole)
<1>1. Holds(CloseFd(s, {SenderEnd}), Whole)
  <2>1. \A F : <<>> \in Seq(F)
    OBVIOUS
  <2>2. \A d \in Ends : IF d \in {SenderEnd} THEN <<>> \in Whole[d]
                                             ELSE s[d].buf \in Whole[d]
    BY <2>1 DEF Whole
  <2> QED
    BY <2>2, CloseHolds DEF CloseFd
<1>2. sock' = CloseFd(s, {SenderEnd}) \/ (sock' = s /\ Holds(s, Whole))
  BY Zenon DEF Fail, Reconnect, ConnectionLost, NoResponse, RetriesLeft, Answered
<1> QED
  BY <1>1, <1>2

(* Every way to leave but one keeps what the sender may be sent.           *)
LEMMA LeaveKeys ==
  ASSUME NEW s, NEW r, Fail(r, s) \/ ConnectionLost(s) \/ NoResponse(s),
         phase \in Phases, UNCHANGED completed_responses
  PROVE  Keys' = Keys
<1>1. heartbeat_sequence' = heartbeat_sequence
  BY DEF Fail, Reconnect, ConnectionLost, NoResponse, RetriesLeft
<1>2. phase' = phase \/ (phase # "data" /\ phase' = "reconnected")
  BY DEF Fail, Reconnect, ConnectionLost, NoResponse, RetriesLeft
<1> QED
  BY <1>1, <1>2 DEF Keys, Expected

LEMMA LeaveError ==
  ASSUME NEW s, NoProtocolError,
         \/ ConnectionLost(s) \/ NoResponse(s) \/ Answered(s)
         \/ Fail("partial response", s)
  PROVE  NoProtocolError'
BY DEF Fail, Reconnect, ConnectionLost, NoResponse, RetriesLeft, Answered, NoProtocolError

(* What the sender reads is a response to a request it has made.           *)
LEMMA ReadStream ==
  ASSUME TypeInv, StreamInv, CanRead
  PROVE  /\ Response \in ResponseFrame
         /\ Holds(TakeHead(sock, SenderEnd), Whole)
         /\ TakeHead(sock, SenderEnd) \in SockState
<1>1. SenderEnd \in Ends /\ sock[SenderEnd].buf # <<>> /\ sock \in SockState
  BY SenderEndIsEnd DEF TypeInv, CanRead
<1>2. Carried(SenderEnd) = ResponseFrame
  BY DEF Carried, SenderEnd
<1>3. \A e \in Ends : e # SenderEnd => sock[e].buf \in Seq(Carried(e))
  BY DEF StreamInv, Holds, Unread
<1>4. /\ Response \in ResponseFrame
      /\ Tail(sock[SenderEnd].buf) \in Seq(ResponseFrame)
  <2>1. CASE partial = NoFrame
    <3>1. sock[SenderEnd].buf \in Seq(ResponseFrame)
      BY <1>1, <1>2, <2>1 DEF StreamInv, Holds, Unread
    <3> QED
      BY <1>1, <2>1, <3>1 DEF Response
  <2>2. CASE partial # NoFrame
    BY <1>1, <2>2 DEF StreamInv, Holds, Unread, Torn, Response
  <2> QED
    BY <2>1, <2>2
<1>5. Holds(TakeHead(sock, SenderEnd), Whole)
  <2>1. \A d \in Ends : d # SenderEnd => sock[d].buf \in Whole[d]
    BY <1>3 DEF Whole
  <2>2. Tail(sock[SenderEnd].buf) \in Whole[SenderEnd]
    BY <1>1, <1>2, <1>4 DEF Whole
  <2> QED
    BY <1>1, <2>1, <2>2, TakeHeadHolds
<1> QED
  BY <1>1, <1>4, <1>5, TakeHeadType

LEMMA SenderStream ==
  ASSUME TypeInv, StreamInv, SenderStep
  PROVE  StreamInv'
<1>1. SenderNext /\ UNCHANGED <<delayed, reply>>
  BY DEF SenderStep, proxyVars, receiverVars
<1>2. /\ sock \in SockState /\ phase \in Phases
      /\ sender_pc \in {"send", "wait"} => SenderEnd \in Ends
  BY SenderEndIsEnd DEF TypeInv, ControlOK
<1>3. /\ delayed \in ResponseFrame \cup {NoFrame}
      /\ reply \in ResponseFrame \cup {NoFrame}
      /\ NoProtocolError /\ NoFrame' = NoFrame
      /\ partial # NoFrame => sender_pc = "wait"
  BY DEF StreamInv, NoFrame
<1>4. ASSUME Holds(sock', Whole), Keys \subseteq Keys', partial' = NoFrame, NoProtocolError'
      PROVE  StreamInv'
  <2>1. Holds(sock', Unread') /\ ResponseFrame \subseteq ResponseFrame'
    BY <1>4, KeysGrow
  <2> QED
    BY <1>1, <1>3, <1>4, <2>1 DEF StreamInv
<1>5. \A e \in Ends : e # SenderEnd => sock[e].buf \in Seq(Carried(e))
  BY DEF StreamInv, Holds, Unread
<1> DEFINE rest == TakeHead(sock, SenderEnd)
<1>6. CanRead => /\ Response \in ResponseFrame /\ Holds(rest, Whole)
                 /\ rest \in SockState
                 /\ \A e \in Ends : e # SenderEnd => rest[e].buf \in Seq(Carried(e))
  BY ReadStream DEF Holds, Whole
<1>7. CASE SenderConnect
  <2>1. /\ partial = NoFrame /\ partial' = NoFrame /\ Keys' = Keys /\ NoProtocolError'
        /\ Establish("snd", "front", fd + 1)
    BY <1>3, <1>7 DEF SenderConnect, Keys, Expected, NoProtocolError
  <2>2. fd + 1 \in Conns
    BY <1>7, SenderAssumption
       DEF SenderConnect, TypeInv, ControlOK, ConnectionBudget, Conns, Phases
  <2>3. \A e \in {<<"snd", fd + 1>>, <<"front", fd + 1>>} : <<>> \in Whole[e]
    <3>1. <<"snd", fd + 1>> \in Ends /\ <<"front", fd + 1>> \in Ends
      BY <2>2 DEF Ends, Sides
    <3>2. \A F : <<>> \in Seq(F)
      OBVIOUS
    <3> QED
      BY <3>1, <3>2 DEF Whole
  <2>4. Holds(sock', Whole)
    BY <1>2, <2>1, <2>3, WholeStream, EstablishHolds
  <2> QED
    BY <1>4, <2>1, <2>4
<1>8. CASE SenderConnectRefused
  <2>1. /\ partial = NoFrame /\ partial' = NoFrame /\ Keys' = Keys
        /\ sock' = sock
    BY <1>3, <1>8 DEF SenderConnectRefused, Keys, Expected
  <2>2. NoProtocolError'
    BY <1>3, <1>8 DEF SenderConnectRefused, NoProtocolError
  <2> QED
    BY <1>4, <2>1, <2>2, WholeStream
<1>9. CASE SenderSend
  <2>1. /\ sender_pc = "send" /\ partial = NoFrame /\ partial' = NoFrame
        /\ UNCHANGED completed_responses /\ SenderEnd \in Ends
    BY <1>2, <1>3, <1>9 DEF SenderSend
  <2>2. Holds(sock, Whole)
    BY <2>1, WholeStream
  <2>3. CASE sock' = Put(sock, SenderEnd, Request)
             /\ UNCHANGED <<phase, heartbeat_sequence, sender_error>>
    <3>1. Peer(SenderEnd) \in Ends /\ Carried(Peer(SenderEnd)) = RequestFrame
      BY <2>1, PeerIsEnd DEF Carried, Peer, PeerSide, SenderEnd
    <3>2. Request \in RequestFrame
      BY RequestIsAsked
    <3>3. \A q \in Whole[Peer(SenderEnd)] : Append(q, Request) \in Whole[Peer(SenderEnd)]
      <4>1. Whole[Peer(SenderEnd)] = Seq(RequestFrame)
        BY <3>1 DEF Whole
      <4> QED
        BY <3>2, <4>1
    <3>4. Holds(sock', Whole)
      BY <1>2, <2>1, <2>2, <2>3, <3>3, PutHolds
    <3>5. Keys' = Keys /\ NoProtocolError'
      BY <1>3, <2>1, <2>3 DEF Keys, Expected, NoProtocolError
    <3> QED
      BY <1>4, <2>1, <3>4, <3>5
  <2>4. CASE ConnectionLost(sock)
    <3>1. Holds(sock', Whole)
      BY <1>2, <1>5, <2>1, <2>4, LeaveStream
    <3>2. Keys' = Keys /\ NoProtocolError'
      BY <1>2, <1>3, <2>1, <2>4, LeaveKeys, LeaveError
    <3> QED
      BY <1>4, <2>1, <3>1, <3>2
  <2>5. CASE sock' = CloseFd(sock, {SenderEnd})
             /\ UNCHANGED <<phase, heartbeat_sequence, sender_error>>
    <3>1. Holds(sock', Whole)
      <4>1. \A F : <<>> \in Seq(F)
        OBVIOUS
      <4>2. \A d \in Ends : IF d \in {SenderEnd} THEN <<>> \in Whole[d]
                                                 ELSE sock[d].buf \in Whole[d]
        BY <2>2, <4>1 DEF Whole, Holds
      <4> QED
        BY <1>2, <2>5, <4>2, CloseHolds DEF CloseFd
    <3>2. Keys' = Keys /\ NoProtocolError'
      BY <1>3, <2>1, <2>5 DEF Keys, Expected, NoProtocolError
    <3> QED
      BY <1>4, <2>1, <3>1, <3>2
  <2> QED
    BY <1>9, <2>3, <2>4, <2>5 DEF SenderSend
<1>10. CASE SenderReadPart
  <2>1. /\ CanRead /\ partial = NoFrame /\ partial' = Response
        /\ sock' = LeaveRest(sock, SenderEnd) /\ sender_pc = "wait"
        /\ UNCHANGED <<sender_pc, fd, phase, heartbeat_sequence,
                       completed_responses, sender_error>>
    BY <1>10 DEF SenderReadPart, CanRead
  <2>2. /\ Keys' = Keys /\ NoProtocolError' /\ SenderEnd' = SenderEnd
        /\ ResponseFrame' = ResponseFrame /\ RequestFrame' = RequestFrame
        /\ Torn' = Torn
    BY <1>3, <2>1
       DEF Keys, Expected, NoProtocolError, SenderEnd, ResponseFrame, RequestFrame,
           AnswerKey, Torn
  <2>3. /\ Response \in ResponseFrame /\ Response # NoFrame
        /\ SenderEnd \in Ends /\ sock[SenderEnd].buf # <<>>
    BY <1>2, <1>6, <2>1, FramesAreFrames DEF CanRead
  <2>4. sock[SenderEnd].buf \in Seq(ResponseFrame)
    BY <2>1, <2>3 DEF StreamInv, Holds, Unread, Carried, SenderEnd
  <2>5. /\ \A d \in Ends : d # SenderEnd => sock'[d] = sock[d]
        /\ sock'[SenderEnd].buf = <<Fragment>> \o Tail(sock[SenderEnd].buf)
    <3>1. sock[SenderEnd] \in Socket
      BY <1>2, <2>3, SocketOfFrame DEF SockState, SockOf
    <3> QED
      BY <1>2, <2>1, <2>3, <3>1 DEF LeaveRest, SockState, SockOf, Socket
  <2>6. sock'[SenderEnd].buf \in Torn
    <3> DEFINE t == Tail(sock[SenderEnd].buf)
    <3>1. t \in Seq(ResponseFrame) /\ t \in Seq(Frame)
      BY <2>3, <2>4, FramesAreFrames
    <3> HIDE DEF t
    <3>2. /\ <<Fragment>> \o t \in Seq(Frame) /\ <<Fragment>> \o t # <<>>
          /\ Tail(<<Fragment>> \o t) = t
      BY <3>1, FragmentIsFrame
    <3>3. <<Fragment>> \o t \in Torn
      BY <3>1, <3>2 DEF Torn
    <3> QED
      BY <2>5, <3>3 DEF t
  <2>7. Holds(sock', Unread')
    <3>1. \A e \in Ends : Carried(e)' = Carried(e)
      BY <2>2 DEF Carried
    <3>2. \A e \in Ends : Unread'[e] = IF e = SenderEnd THEN Torn ELSE Seq(Carried(e))
      BY <1>3, <2>1, <2>2, <2>3, <3>1 DEF Unread
    <3>3. \A e \in Ends : e # SenderEnd => sock'[e].buf = sock[e].buf
      BY <2>5
    <3>4. ASSUME NEW e \in Ends
          PROVE  sock'[e].buf \in Unread'[e]
      <4>1. CASE e = SenderEnd
        BY <2>6, <3>2, <4>1
      <4>2. CASE e # SenderEnd
        BY <1>5, <3>2, <3>3, <4>2
      <4> QED
        BY <4>1, <4>2
    <3> QED
      BY <3>4 DEF Holds
  <2> QED
    BY <1>1, <1>3, <2>1, <2>2, <2>3, <2>7 DEF StreamInv
<1>11. CASE SenderReadResponse
  <2> DEFINE key == <<Response.type, Response.seq>>
  <2>1. /\ CanRead /\ sender_pc = "wait" /\ partial' = NoFrame
    BY <1>11 DEF SenderReadResponse, CanRead
  <2>2. IsResponse(Response) /\ key \in Keys
    BY <1>6, <2>1 DEF ResponseFrame, IsResponse, Decodes
  <2>3. CASE key = Expected
    <3>1. completed_responses' = completed_responses \cup {Expected} /\ Answered(rest)
      BY <1>11, <2>2, <2>3 DEF SenderReadResponse
    <3>2. Holds(sock', Whole)
      BY <1>6, <2>1, <3>1, LeaveStream
    <3>3. Keys \subseteq Keys' /\ NoProtocolError'
      BY <1>3, <3>1, LeaveError DEF Keys
    <3> QED
      BY <1>4, <2>1, <3>2, <3>3
  <2>4. CASE key # Expected
    <3>1. key \in completed_responses
      BY <2>2, <2>4 DEF Keys
    <3>2. /\ sock' = rest
          /\ UNCHANGED <<phase, heartbeat_sequence, completed_responses, sender_error>>
      BY <1>11, <2>2, <2>4, <3>1 DEF SenderReadResponse, Stale
    <3>3. Keys' = Keys /\ NoProtocolError'
      BY <1>3, <3>2 DEF Keys, Expected, NoProtocolError
    <3> QED
      BY <1>4, <1>6, <2>1, <3>2, <3>3
  <2> QED
    BY <2>3, <2>4
<1>12. CASE SenderReadLate
  <2>1. /\ CanRead /\ sender_pc = "wait" /\ partial' = NoFrame
        /\ UNCHANGED completed_responses
    BY <1>12 DEF SenderReadLate, CanRead
  <2>2. Decodes(Response)
    BY <1>6, <2>1 DEF ResponseFrame, Decodes
  <2>3. NoResponse(rest)
    BY <1>12, <2>2 DEF SenderReadLate
  <2>4. Holds(sock', Whole)
    BY <1>6, <2>1, <2>3, LeaveStream
  <2>5. Keys' = Keys /\ NoProtocolError'
    BY <1>2, <1>3, <2>1, <2>3, LeaveKeys, LeaveError
  <2> QED
    BY <1>4, <2>1, <2>4, <2>5
<1>13. CASE SenderTimeout
  <2>1. sender_pc = "wait" /\ partial' = NoFrame /\ UNCHANGED completed_responses
    BY <1>13 DEF SenderTimeout
  <2>2. CASE partial = NoFrame
    <3>1. NoResponse(sock) /\ Holds(sock, Whole)
      BY <1>13, <2>2, WholeStream DEF SenderTimeout
    <3>2. Holds(sock', Whole)
      BY <1>2, <1>5, <2>1, <3>1, LeaveStream
    <3>3. Keys' = Keys /\ NoProtocolError'
      BY <1>2, <1>3, <2>1, <3>1, LeaveKeys, LeaveError
    <3> QED
      BY <1>4, <2>1, <3>2, <3>3
  <2>3. CASE partial # NoFrame
    <3> DEFINE s == Shutdown(sock, {SenderEnd})
    <3>1. Fail("partial response", s)
      BY <1>13, <2>3 DEF SenderTimeout
    <3>2. s \in SockState /\ \A e \in Ends : e # SenderEnd => s[e].buf \in Seq(Carried(e))
      BY <1>2, <1>5, ShutdownType, ShutdownHolds
    <3>3. Holds(sock', Whole)
      BY <2>1, <3>1, <3>2, LeaveStream
    <3>4. Keys' = Keys /\ NoProtocolError'
      BY <1>2, <1>3, <2>1, <3>1, LeaveKeys, LeaveError
    <3> QED
      BY <1>4, <2>1, <3>3, <3>4
  <2> QED
    BY <2>2, <2>3
<1>14. CASE SenderConnectionLost
  <2>1. /\ sender_pc = "wait" /\ partial' = NoFrame /\ UNCHANGED completed_responses
        /\ ConnectionLost(sock)
    BY <1>14 DEF SenderConnectionLost
  <2>2. Holds(sock', Whole)
    BY <1>2, <1>5, <2>1, LeaveStream
  <2>3. Keys' = Keys /\ NoProtocolError'
    BY <1>2, <1>3, <2>1, LeaveKeys, LeaveError
  <2> QED
    BY <1>4, <2>1, <2>2, <2>3
<1> QED
  BY <1>1, <1>7, <1>8, <1>9, <1>10, <1>11, <1>12, <1>13, <1>14 DEF SenderNext

LEMMA StreamInit ==
  ASSUME Init
  PROVE  StreamInv
<1>1. partial = NoFrame /\ delayed = NoFrame /\ reply = NoFrame /\ NoProtocolError
  BY DEF Init, SenderInit, ProxyInit, ReceiverInit, NoProtocolError
<1>2. \A e \in Ends : sock[e].buf = <<>>
  BY DEF Init, NetInit, Closed
<1>3. \A F : <<>> \in Seq(F)
  OBVIOUS
<1>4. Holds(sock, Unread)
  BY <1>1, <1>2, <1>3 DEF Holds, Unread
<1> QED
  BY <1>1, <1>4 DEF StreamInv

LEMMA StreamInvariant == Spec => []StreamInv
<1>1. Init => StreamInv
  BY StreamInit
<1>2. TypeInv /\ StreamInv /\ [Next]_vars => StreamInv'
  <2> SUFFICES ASSUME TypeInv, StreamInv, [Next]_vars
               PROVE  StreamInv'
    OBVIOUS
  <2>1. CASE SenderStep
    BY <2>1, SenderStream
  <2>2. CASE ProxyStep
    BY <2>2, ProxyStream
  <2>3. CASE ReceiverStep
    BY <2>3, ReceiverStream
  <2>4. CASE UNCHANGED vars
    <3>1. SenderStays /\ UNCHANGED <<sock, delayed, reply>>
      BY <2>4 DEF vars, netVars, proxyVars, receiverVars, SenderStays
    <3> QED
      BY <3>1, StreamStays DEF StreamInv, NoProtocolError
  <2> QED
    BY <2>1, <2>2, <2>3, <2>4 DEF Next
<1> QED
  BY <1>1, <1>2, TypeInvariant, PTL DEF Spec

(* Retries, late and duplicate responses and reconnects never make the     *)
(* sender give up on a response it did not ask for or on a bad frame.      *)
THEOREM NoUnexpectedResponse == Spec => []NoProtocolError
<1>1. StreamInv => NoProtocolError
  BY DEF StreamInv
<1> QED
  BY <1>1, StreamInvariant, PTL

(* A request only goes out on a stream that is at a frame boundary.        *)
THEOREM SendsAtFrameBoundary == Spec => []AtFrameBoundary
<1>1. TypeInv /\ StreamInv => AtFrameBoundary
  <2> SUFFICES ASSUME TypeInv, StreamInv, sender_pc = "send"
               PROVE  /\ partial = NoFrame
                      /\ \A i \in DOMAIN sock[SenderEnd].buf :
                           sock[SenderEnd].buf[i].type # "Fragment"
    BY DEF AtFrameBoundary
  <2>1. SenderEnd \in Ends /\ partial = NoFrame
    BY SenderEndIsEnd DEF TypeInv, StreamInv
  <2>2. sock[SenderEnd].buf \in Seq(ResponseFrame)
    BY <2>1 DEF StreamInv, Holds, Unread, Carried, SenderEnd
  <2>3. \A f \in ResponseFrame : f.type # "Fragment"
    BY DEF ResponseFrame
  <2> QED
    BY <2>1, <2>2, <2>3
<1> QED
  BY <1>1, TypeInvariant, StreamInvariant, PTL

-----------------------------------------------------------------------------
(* The session.  What the sender has matched lies behind the request it    *)
(* works on, and a receiver that runs was started.                         *)

SessionInv ==
  /\ receiver_pc \in {"accept", "recv", "reply"} => starts >= 1
  /\ \A k \in completed_responses :
       k[1] = "HeartbeatAck" => phase # "data" /\ k[2] \in 2 .. heartbeat_sequence

(* How far the sender is only changes when a request is answered.          *)
LEMMA ProgressStays ==
  ASSUME SenderNext, phase \in Phases,
         ~(SenderReadResponse /\ IsResponse(Response)
           /\ <<Response.type, Response.seq>> = Expected)
  PROVE  /\ UNCHANGED <<completed_responses, heartbeat_sequence>>
         /\ phase' = phase \/ (phase = "heartbeat" /\ phase' = "reconnected")
         /\ sender_pc \in {"connect", "send", "wait"}
         /\ sender_pc' # "done"
<1>1. sender_pc \in {"connect", "send", "wait"}
  BY DEF SenderNext, SenderConnect, SenderConnectRefused, SenderSend, SenderReadPart,
     SenderReadResponse, SenderReadLate, SenderTimeout, SenderConnectionLost, CanRead
<1>2. UNCHANGED completed_responses
  BY DEF SenderNext, SenderConnect, SenderConnectRefused, SenderSend, SenderReadPart,
     SenderReadResponse, SenderReadLate, SenderTimeout, SenderConnectionLost
<1>3. \A s, r : Fail(r, s) \/ ConnectionLost(s) \/ NoResponse(s) =>
        /\ heartbeat_sequence' = heartbeat_sequence
        /\ phase' = phase \/ (phase = "heartbeat" /\ phase' = "reconnected")
        /\ sender_pc' # "done"
  BY DEF Fail, Reconnect, ConnectionLost, NoResponse, RetriesLeft
<1>4. CASE SenderReadResponse
  <2>1. \/ \E s, r : Fail(r, s)
        \/ UNCHANGED <<phase, heartbeat_sequence, sender_pc>>
    BY <1>4, Zenon DEF SenderReadResponse
  <2> QED
    BY <1>1, <1>2, <1>3, <2>1
<1>5. CASE ~SenderReadResponse
  BY <1>1, <1>2, <1>3, <1>5
     DEF SenderNext, SenderConnect, SenderConnectRefused, SenderSend, SenderReadPart,
         SenderReadLate, SenderTimeout, SenderConnectionLost
<1> QED
  BY <1>4, <1>5

LEMMA SessionInvStep ==
  ASSUME TypeInv, SessionInv, [Next]_vars
  PROVE  SessionInv'
<1>1. /\ heartbeat_sequence \in Nat /\ heartbeat_sequence >= 2
      /\ phase \in Phases /\ starts \in Nat
  BY SenderAssumption, ReceiverAssumption DEF TypeInv, ControlOK, ReceiverTypeOK
<1>2. CASE SenderStep
  <2>1. SenderNext /\ UNCHANGED <<receiver_pc, starts>>
    BY <1>2 DEF SenderStep, receiverVars
  <2>2. CASE SenderReadResponse /\ IsResponse(Response)
             /\ <<Response.type, Response.seq>> = Expected
    <3>1. /\ completed_responses' = completed_responses \cup {Expected}
          /\ \E s : Answered(s)
      BY <2>2 DEF SenderReadResponse
    <3>2. CASE phase = "data"
      BY <2>1, <3>1, <3>2 DEF SessionInv, Expected, Answered, LastHeartbeat
    <3>3. CASE phase # "data"
      <4>1. /\ phase' # "data"
            /\ heartbeat_sequence' \in {heartbeat_sequence, heartbeat_sequence + 1}
        BY <3>1, <3>3 DEF Answered
      <4>2. 2 .. heartbeat_sequence \subseteq 2 .. heartbeat_sequence'
            /\ heartbeat_sequence \in 2 .. heartbeat_sequence'
        BY <1>1, <4>1
      <4> QED
        BY <2>1, <3>1, <3>3, <4>1, <4>2 DEF SessionInv, Expected
    <3> QED
      BY <3>2, <3>3
  <2>3. CASE ~(SenderReadResponse /\ IsResponse(Response)
               /\ <<Response.type, Response.seq>> = Expected)
    BY <1>1, <2>1, <2>3, ProgressStays DEF SessionInv
  <2> QED
    BY <2>2, <2>3
<1>3. CASE ProxyStep \/ UNCHANGED vars
  BY <1>3 DEF ProxyStep, vars, senderVars, receiverVars, SessionInv
<1>4. CASE ReceiverStep
  <2>1. ReceiverNext /\ UNCHANGED <<completed_responses, phase, heartbeat_sequence>>
    BY <1>4 DEF ReceiverStep, senderVars
  <2>2. (receiver_pc \in {"accept", "recv", "reply"} => starts >= 1)'
    <3>1. CASE ReceiverStart
      BY <1>1, <3>1 DEF ReceiverStart
    <3>2. CASE ~ReceiverStart
      <4>1. /\ UNCHANGED starts
            /\ receiver_pc' \in {"accept", "recv", "reply"} =>
                 receiver_pc \in {"accept", "recv", "reply"}
        BY <2>1, <3>2 DEF ReceiverNext, ReceiverRun, ReceiverCrash, ReceiverAccept,
           ReceiverRead, ReceiverEOF, ReceiverRecvFailed, ReceiverReply, ReceiverExit,
           HandleData, HandleHeartbeat
      <4> QED
        BY <4>1 DEF SessionInv
    <3> QED
      BY <3>1, <3>2
  <2> QED
    BY <2>1, <2>2 DEF SessionInv
<1> QED
  BY <1>2, <1>3, <1>4 DEF Next

LEMMA SessionInvariant == Spec => []SessionInv
<1>1. Init => SessionInv
  BY DEF Init, SenderInit, ReceiverInit, SessionInv
<1>2. TypeInv /\ SessionInv /\ [Next]_vars => SessionInv'
  BY SessionInvStep
<1> QED
  BY <1>1, <1>2, TypeInvariant, PTL DEF Spec

LEMMA OnceInvariant == Spec => []OnceInv
<1>1. Init => OnceInv
  BY DEF Init, ReceiverInit, OnceInv, ProcessedOnce
<1>2. TypeInv /\ OnceInv /\ [Next]_vars => OnceInv'
  BY OnceInvStep
<1> QED
  BY <1>1, <1>2, TypeInvariant, PTL DEF Spec

(* The initial states of the testbed are those of the session.             *)
LEMMA SessionStarts ==
  ASSUME Init
  PROVE  Session!SessionInit
<1>1. delivered = <<>> /\ heard = {} /\ sender_pc = "connect" /\ phase = "data"
  BY DEF Init, SenderInit, ReceiverInit
<1>2. [i \in DOMAIN delivered |-> delivered[i].process] = <<>>
  BY <1>1
<1> QED
  BY <1>1, <1>2 DEF Session!SessionInit, SessionAnswered, SessionStatus

(* A matched response answers the request it is for; every other step of   *)
(* the sender is invisible to the session, or gives it up.                 *)
LEMMA SenderInSession ==
  ASSUME TypeInv, SoundInv, SenderStep
  PROVE  Session!SessionNext \/ UNCHANGED Session!sessionVars
<1>1. SenderNext /\ UNCHANGED <<delivered, heard>>
  BY DEF SenderStep, receiverVars
<1>2. /\ heartbeat_sequence \in 2 .. HeartbeatCount + 1 /\ HeartbeatCount \in Nat \ {0}
      /\ phase \in Phases
  BY SenderAssumption DEF TypeInv, ControlOK
<1>3. [i \in DOMAIN delivered |-> delivered[i].process]'
        = [i \in DOMAIN delivered |-> delivered[i].process]
  BY <1>1
<1>4. CASE SenderReadResponse /\ IsResponse(Response)
           /\ <<Response.type, Response.seq>> = Expected
  <2>1. sender_pc = "wait" /\ CanRead /\ \E s : Answered(s)
    BY <1>4 DEF SenderReadResponse, CanRead
  <2>2. Honest(Packet(Expected[1], Expected[2]))
    <3>1. Response \in SoundFrame
      BY <1>1, <2>1, SenderFlow, SoundBasics, RequestIsSound DEF SoundInv
    <3>2. Honest(Packet(Response.type, Response.seq))
      BY <3>1, SoundKey
    <3>3. Response.type = Expected[1] /\ Response.seq = Expected[2]
      BY <1>4
    <3> QED
      BY <3>2, <3>3
  <2>3. SessionStatus = "running" /\ SessionAnswered \in Nat
        /\ SessionAnswered < HeartbeatCount + 1
    BY <1>2, <2>1 DEF SessionStatus, SessionAnswered
  <2>4. IF SessionAnswered = 0
          THEN [i \in DOMAIN delivered |-> delivered[i].process] # <<>>
          ELSE SessionAnswered + 1 \in heard
    <3>1. CASE phase = "data"
      <4>1. \E i \in DOMAIN delivered : delivered[i].frame.seq = DataSequence
        BY <2>2, <3>1 DEF Expected, Packet, Honest
      <4>2. DOMAIN [i \in DOMAIN delivered |-> delivered[i].process] = DOMAIN delivered
        OBVIOUS
      <4>3. DOMAIN <<>> = {}
        OBVIOUS
      <4>4. [i \in DOMAIN delivered |-> delivered[i].process] # <<>>
        BY <4>1, <4>2, <4>3, Zenon
      <4>5. SessionAnswered = 0
        BY <2>1, <3>1 DEF SessionAnswered
      <4> QED
        BY <4>4, <4>5
    <3>2. CASE phase # "data"
      <4>1. heartbeat_sequence \in heard
        BY <2>2, <3>2 DEF Expected, Packet, Honest
      <4>2. SessionAnswered = heartbeat_sequence - 1 /\ SessionAnswered # 0
            /\ SessionAnswered + 1 = heartbeat_sequence
        BY <1>2, <2>1, <3>2 DEF SessionAnswered
      <4> QED
        BY <4>1, <4>2
    <3> QED
      BY <3>1, <3>2
  <2>5. /\ SessionAnswered' = SessionAnswered + 1
        /\ SessionStatus' = IF SessionAnswered + 1 = HeartbeatCount + 1
                              THEN "succeeded" ELSE "running"
    <3>1. CASE LastHeartbeat
      <4>1. sender_pc' = "done" /\ SessionAnswered = HeartbeatCount
        BY <1>2, <2>1, <3>1 DEF Answered, LastHeartbeat, SessionAnswered
      <4> QED
        BY <1>2, <4>1 DEF SessionAnswered, SessionStatus
    <3>2. CASE ~LastHeartbeat
      <4>1. /\ sender_pc' = "send" /\ phase' = "heartbeat"
            /\ heartbeat_sequence' = IF phase = "data" THEN 2 ELSE heartbeat_sequence + 1
            /\ phase = "data" \/ heartbeat_sequence # HeartbeatCount + 1
        BY <2>1, <3>2 DEF Answered, LastHeartbeat
      <4>2. SessionAnswered' = heartbeat_sequence' - 1 /\ SessionStatus' = "running"
        BY <4>1 DEF SessionAnswered, SessionStatus
      <4>3. CASE phase = "data"
        BY <1>2, <2>1, <4>1, <4>2, <4>3 DEF SessionAnswered
      <4>4. CASE phase # "data"
        BY <1>2, <2>1, <4>1, <4>2, <4>4 DEF SessionAnswered
      <4> QED
        BY <4>3, <4>4
    <3> QED
      BY <3>1, <3>2
  <2>6. Session!Answer
    BY <1>1, <1>3, <2>3, <2>4, <2>5 DEF Session!Answer
  <2> QED
    BY <2>6 DEF Session!SessionNext
<1>5. CASE ~(SenderReadResponse /\ IsResponse(Response)
             /\ <<Response.type, Response.seq>> = Expected)
  <2>1. /\ sender_pc \in {"connect", "send", "wait"} /\ sender_pc' # "done"
        /\ UNCHANGED heartbeat_sequence
        /\ phase' = phase \/ (phase = "heartbeat" /\ phase' = "reconnected")
    BY <1>1, <1>2, <1>5, ProgressStays
  <2>2. SessionAnswered' = SessionAnswered /\ SessionStatus = "running"
    BY <2>1 DEF SessionAnswered, SessionStatus
  <2>3. SessionStatus' \in {"running", "failed"}
    BY <2>1 DEF SessionStatus
  <2> QED
    BY <1>1, <1>3, <2>2, <2>3
       DEF Session!SessionNext, Session!Abandon, Session!sessionVars
<1> QED
  BY <1>4, <1>5

(* A heartbeat that reaches a receiver is of the request the sender works  *)
(* on or of one before it.                                                 *)
LEMMA HeardInSession ==
  ASSUME TypeInv, SessionInv, NEW f \in RequestFrame, f.type = "Heartbeat"
  PROVE  phase # "data" /\ f.seq \in 2 .. heartbeat_sequence
<1>1. <<"HeartbeatAck", f.seq>> \in Keys
  BY DEF RequestFrame, AnswerKey
<1>2. heartbeat_sequence \in Nat /\ heartbeat_sequence >= 2
  BY SenderAssumption DEF TypeInv, ControlOK
<1>3. CASE <<"HeartbeatAck", f.seq>> = Expected
  BY <1>2, <1>3 DEF Expected
<1>4. CASE <<"HeartbeatAck", f.seq>> \in completed_responses
  BY <1>4 DEF SessionInv
<1> QED
  BY <1>1, <1>3, <1>4 DEF Keys

(* Handing DATA to the application executes the work in a process that has *)
(* not done it, and taking in a heartbeat serves it.                       *)
LEMMA ReceiverInSession ==
  ASSUME TypeInv, SoundInv, StreamInv, OnceInv, SessionInv, ReceiverStep
  PROVE  Session!SessionNext \/ UNCHANGED Session!sessionVars
<1> DEFINE f == Head(sock[ReceiverEnd].buf)
           executed == [i \in DOMAIN delivered |-> delivered[i].process]
<1>1. /\ ReceiverNext
      /\ SessionAnswered' = SessionAnswered /\ SessionStatus' = SessionStatus
  BY DEF ReceiverStep, senderVars, SessionAnswered, SessionStatus
<1>2. /\ delivered \in Seq(Delivery) /\ starts \in 0 .. MaxStarts /\ MaxStarts \in Nat
      /\ \A i \in DOMAIN delivered : delivered[i] \in Delivery
  BY ReceiverAssumption DEF TypeInv, ReceiverTypeOK
<1>3. CASE UNCHANGED <<delivered, heard>>
  <2>1. UNCHANGED executed
    BY <1>3
  <2> QED
    BY <1>1, <1>3, <2>1 DEF Session!sessionVars
<1>4. ReceiverRead => f \in SoundFrame /\ f \in RequestFrame
  <2> SUFFICES ASSUME ReceiverRead PROVE f \in SoundFrame /\ f \in RequestFrame
    OBVIOUS
  <2>1. receiver_pc = "recv" /\ sock[ReceiverEnd].buf # <<>> /\ ReceiverEnd \in Ends
    BY DEF ReceiverRead, TypeInv, ReceiverTypeOK, ReceiverEnd, Ends, Sides
  <2>2. f \in SoundFrame
    BY <1>1, <2>1, ReceiverFlow DEF SoundInv
  <2>3. sock[ReceiverEnd].buf \in Seq(RequestFrame)
    BY <2>1, UnreadBasics DEF StreamInv, Holds, Carried, ReceiverEnd
  <2> QED
    BY <2>1, <2>2, <2>3
<1>5. CASE ReceiverRead /\ Decodes(f) /\ f.type = "Data" /\ HandleData(f)
           /\ f.seq \notin processed_sequences
  <2>1. /\ UNCHANGED heard
        /\ delivered' = Append(delivered, [process |-> starts, frame |-> f])
    BY <1>5 DEF HandleData, Remembered, AckFor
  <2>2. f.seq = DataSequence
    BY <1>4, <1>5 DEF SoundFrame, Sound
  <2>3. \A i \in DOMAIN delivered : delivered[i].process < starts
    <3> SUFFICES ASSUME NEW i \in DOMAIN delivered
                 PROVE  delivered[i].process < starts
      OBVIOUS
    <3>1. delivered[i].frame.seq = f.seq
      BY <2>2 DEF SoundInv, DeliveredIntact, Packet
    <3>2. delivered[i].process # starts /\ delivered[i].process <= starts
      BY <1>5, <3>1 DEF OnceInv
    <3>3. delivered[i].process \in Nat /\ starts \in Nat
      BY <1>2 DEF Delivery
    <3> QED
      BY <3>2, <3>3
  <2>4. starts \in 1 .. MaxStarts
    BY <1>2, <1>5 DEF SessionInv, ReceiverRead
  <2>5. executed' = Append(executed, starts)
    <3> DEFINE d == [process |-> starts, frame |-> f]
    <3>1. d.process = starts /\ delivered' = Append(delivered, d)
      BY <2>1
    <3> HIDE DEF d
    <3>2. /\ Len(delivered) \in Nat /\ DOMAIN delivered = 1 .. Len(delivered)
          /\ DOMAIN delivered' = 1 .. Len(delivered) + 1
          /\ \A i \in 1 .. Len(delivered) : delivered'[i] = delivered[i]
          /\ delivered'[Len(delivered) + 1].process = starts
      BY <1>2, <3>1
    <3>3. /\ executed' = [i \in 1 .. Len(delivered) + 1 |->
                            IF i = Len(delivered) + 1 THEN starts
                                                      ELSE delivered[i].process]
          /\ executed = [i \in 1 .. Len(delivered) |-> delivered[i].process]
      BY <3>2
    <3>4. executed \in Seq(Nat) /\ Len(executed) = Len(delivered)
      <4>1. \A i \in 1 .. Len(delivered) : delivered[i].process \in Nat
        BY <1>2, <3>2 DEF Delivery
      <4> QED
        BY <3>2, <3>3, <4>1
    <3>5. Append(executed, starts) = [i \in 1 .. Len(delivered) + 1 |->
                            IF i = Len(delivered) + 1 THEN starts ELSE executed[i]]
      BY <3>4
    <3> QED
      BY <3>2, <3>3, <3>5
  <2>6. \A i \in DOMAIN executed : executed[i] < starts
    BY <2>3
  <2>7. Session!Execute
    BY <1>1, <2>1, <2>4, <2>5, <2>6 DEF Session!Execute
  <2> QED
    BY <2>7 DEF Session!SessionNext
<1>6. CASE ReceiverRead /\ f.type = "Heartbeat" /\ HandleHeartbeat(f)
  <2>1. heard' = heard \cup {f.seq} /\ UNCHANGED delivered
    BY <1>6 DEF HandleHeartbeat
  <2>2. phase # "data" /\ f.seq \in 2 .. heartbeat_sequence
    BY <1>4, <1>6, HeardInSession
  <2>3. heartbeat_sequence \in 2 .. HeartbeatCount + 1 /\ HeartbeatCount \in Nat
    BY SenderAssumption DEF TypeInv, ControlOK
  <2>4. SessionAnswered \in {heartbeat_sequence - 1, HeartbeatCount + 1}
    BY <2>2 DEF SessionAnswered
  <2>5. SessionAnswered \in 1 .. HeartbeatCount + 1 /\ f.seq \in 2 .. SessionAnswered + 1
    <3>1. CASE SessionAnswered = heartbeat_sequence - 1
      BY <2>2, <2>3, <3>1
    <3>2. CASE SessionAnswered = HeartbeatCount + 1
      BY <2>2, <2>3, <3>2
    <3> QED
      BY <2>4, <3>1, <3>2
  <2>6. UNCHANGED executed
    BY <2>1
  <2>7. Session!Serve
    BY <1>1, <2>1, <2>5, <2>6 DEF Session!Serve
  <2> QED
    BY <2>7 DEF Session!SessionNext
<1>7. \/ UNCHANGED <<delivered, heard>>
      \/ ReceiverRead /\ Decodes(f) /\ f.type = "Data" /\ HandleData(f)
           /\ f.seq \notin processed_sequences
      \/ ReceiverRead /\ f.type = "Heartbeat" /\ HandleHeartbeat(f)
  <2>1. CASE ReceiverRead
    <3>1. CASE Decodes(f) /\ f.type = "Data" /\ HandleData(f)
      BY <2>1, <3>1 DEF HandleData
    <3>2. CASE ReceiverExit(TakeHead(sock, ReceiverEnd), "exited")
      BY <3>2 DEF ReceiverExit
    <3> QED
      BY <2>1, <3>1, <3>2 DEF ReceiverRead
  <2>2. CASE ~ReceiverRead
    BY <1>1, <2>2 DEF ReceiverNext, ReceiverRun, ReceiverStart, ReceiverCrash,
       ReceiverAccept, ReceiverEOF, ReceiverRecvFailed, ReceiverReply, ReceiverExit
  <2> QED
    BY <2>1, <2>2
<1> QED
  BY <1>3, <1>5, <1>6, <1>7

(* The testbed implements the session of RequestSession, for every number  *)
(* of retries, heartbeats, reconnect attempts and receiver processes:      *)
(* crashes, resets, faults and retries are invisible to it.                *)
THEOREM SessionImplemented == Spec => ImplementsSession
<1>1. Init => Session!SessionInit
  BY SessionStarts
<1>2. TypeInv /\ SoundInv /\ StreamInv /\ OnceInv /\ SessionInv /\ [Next]_vars
        => [Session!SessionNext]_Session!sessionVars
  <2> SUFFICES ASSUME TypeInv, SoundInv, StreamInv, OnceInv, SessionInv, [Next]_vars
               PROVE  Session!SessionNext \/ UNCHANGED Session!sessionVars
    OBVIOUS
  <2>1. CASE SenderStep
    BY <2>1, SenderInSession
  <2>2. CASE ReceiverStep
    BY <2>2, ReceiverInSession
  <2>3. CASE ProxyStep \/ UNCHANGED vars
    <3>1. UNCHANGED <<delivered, heard, sender_pc, phase, heartbeat_sequence>>
      BY <2>3 DEF ProxyStep, vars, senderVars, receiverVars
    <3>2. [i \in DOMAIN delivered |-> delivered[i].process]'
            = [i \in DOMAIN delivered |-> delivered[i].process]
      BY <3>1
    <3> QED
      BY <3>1, <3>2 DEF Session!sessionVars, SessionAnswered, SessionStatus
  <2> QED
    BY <2>1, <2>2, <2>3 DEF Next
<1> QED
  BY <1>1, <1>2, TypeInvariant, SoundInvariant, StreamInvariant, OnceInvariant,
     SessionInvariant, PTL DEF Spec, ImplementsSession, Session!SessionSpec

=============================================================================
