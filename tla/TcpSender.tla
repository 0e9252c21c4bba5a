----------------------------- MODULE TcpSender ------------------------------
(***************************************************************************)
(* tcp/sender.cpp: one DATA packet with bounded retries, then              *)
(* HeartbeatCount heartbeats, each allowed one reconnect.                  *)
(*                                                                         *)
(* The program is sequential; its state is the point it has reached        *)
(* (sender_pc) and which request it is working on (phase).  A deadline may *)
(* pass at any moment: the scheduler bounds nothing, and recv_exact looks  *)
(* at the clock before it looks at the socket.                             *)
(***************************************************************************)
EXTENDS TcpNet

CONSTANTS
  MaxRetries,            \* kMaxRetries
  HeartbeatCount,        \* kHeartbeatCount
  MaxReconnectAttempts   \* kMaxReconnectAttempts

(* One connection for DATA and at most one more for each heartbeat.        *)
ASSUME SenderAssumption ==
  /\ MaxRetries \in Nat
  /\ HeartbeatCount \in Nat \ {0}
  /\ MaxReconnectAttempts \in Nat \ {0}
  /\ MaxConn = HeartbeatCount + 1

VARIABLES
  sender_pc,            \* where main() is, see SenderPc
  phase,                \* the request of that point, see Phases
  fd,                   \* the current connection, 0 before the first
  connect_attempt,      \* attempt of connect_with_retry
  attempt,              \* attempt of the DATA loop
  heartbeat_sequence,   \* sequence of the current heartbeat
  completed_responses,  \* (type, sequence) pairs already matched
  partial,              \* the frame wait_for_response has begun to read
  sender_error          \* what the exception that ended main() says

senderVars == <<sender_pc, phase, fd, connect_attempt, attempt,
                heartbeat_sequence, completed_responses, partial,
                sender_error>>

SenderPc == {"connect", "send", "wait", "done", "failed", "killed"}

(* "reconnected" is the second half of a heartbeat, lines 370 to 393.      *)
Phases == {"data", "heartbeat", "reconnected"}

SenderErrors == {"none", "connect failed", "connection lost",
                 "retry limit", "heartbeat failed after reconnect",
                 "partial response", "invalid frame",
                 "unexpected response"}

DataSequence == 1

SenderTypeOK ==
  /\ sender_pc \in SenderPc
  /\ phase \in Phases
  /\ fd \in 0 .. MaxConn
  /\ connect_attempt \in 1 .. MaxReconnectAttempts
  /\ attempt \in 1 .. MaxRetries + 1
  /\ heartbeat_sequence \in 2 .. HeartbeatCount + 1
  /\ completed_responses \subseteq {"Ack", "HeartbeatAck"} \X Nat
  /\ partial \in Frame \cup {NoFrame}
  /\ sender_error \in SenderErrors

SenderInit ==
  /\ sender_pc = "connect"
  /\ phase = "data"
  /\ fd = 0
  /\ connect_attempt = 1
  /\ attempt = 1
  /\ heartbeat_sequence = 2
  /\ completed_responses = {}
  /\ partial = NoFrame
  /\ sender_error = "none"

SenderEnd == <<"snd", fd>>
SenderEnded == sender_pc \in {"done", "failed", "killed"}

(* The packet of the current request, and the response that answers it.    *)
Request ==
  IF phase = "data" THEN Packet("Data", DataSequence)
                    ELSE Packet("Heartbeat", heartbeat_sequence)

Expected ==
  IF phase = "data" THEN <<"Ack", DataSequence>>
                    ELSE <<"HeartbeatAck", heartbeat_sequence>>

-----------------------------------------------------------------------------
(* Ways to leave a point of main(); s is the socket state left behind.     *)

(* An exception reaches main()'s handler: exit code 1, and the kernel      *)
(* closes the descriptor.                                                  *)
Fail(reason, s) ==
  /\ sender_pc' = "failed"
  /\ sender_error' = reason
  /\ sock' = CloseFd(s, {SenderEnd})
  /\ UNCHANGED <<phase, connect_attempt, attempt, heartbeat_sequence>>

(* reconnect_required: close the connection and connect again.             *)
Reconnect(s) ==
  /\ sender_pc' = "connect"
  /\ phase' = "reconnected"
  /\ connect_attempt' = 1
  /\ sock' = CloseFd(s, {SenderEnd})
  /\ UNCHANGED <<attempt, heartbeat_sequence, sender_error>>

(* ConnectionLost is caught around the first half of a heartbeat only.     *)
ConnectionLost(s) ==
  IF phase = "heartbeat" THEN Reconnect(s) ELSE Fail("connection lost", s)

(* Faulty variants, here and below, are never part of the specification:   *)
(* they stand for mistakes that the properties are there to catch.         *)

(* The loop ends one heartbeat early.                                      *)
LastHeartbeat_OneEarly ==
  phase # "data" /\ heartbeat_sequence = HeartbeatCount

(* The heartbeat loop has counted to kHeartbeatCount.                      *)
LastHeartbeat == phase # "data" /\ heartbeat_sequence = HeartbeatCount + 1

(* wait_for_response returned true: the next request, or close and exit.   *)
Answered(s) ==
  IF LastHeartbeat
    THEN /\ sender_pc' = "done"
         /\ sock' = CloseFd(s, {SenderEnd})
         /\ UNCHANGED <<phase, connect_attempt, attempt, heartbeat_sequence,
                        sender_error>>
    ELSE /\ sender_pc' = "send"
         /\ phase' = "heartbeat"
         /\ heartbeat_sequence' = IF phase = "data" THEN 2
                                  ELSE heartbeat_sequence + 1
         /\ sock' = s
         /\ UNCHANGED <<connect_attempt, attempt, sender_error>>

(* One attempt too many.                                                   *)
RetriesLeft_OneMore == attempt <= MaxRetries + 1

RetriesLeft == attempt <= MaxRetries

(* A request without an answer is given up for the next one.               *)
NoResponse_TakenForAnswer(s) == Answered(s)

(* wait_for_response returned false.                                       *)
NoResponse(s) ==
  \/ /\ phase = "data" /\ RetriesLeft
     /\ sender_pc' = "send"
     /\ attempt' = attempt + 1
     /\ sock' = s
     /\ UNCHANGED <<phase, connect_attempt, heartbeat_sequence, sender_error>>
  \/ phase = "data" /\ ~RetriesLeft /\ Fail("retry limit", s)
  \/ phase = "heartbeat" /\ Reconnect(s)
  \/ phase = "reconnected" /\ Fail("heartbeat failed after reconnect", s)

-----------------------------------------------------------------------------
(* connect_with_retry: a connection established with the listener's kernel *)
(* counts, whether or not a process ever accepts it.                       *)
SenderConnect ==
  /\ sender_pc = "connect"
  /\ listening["front"]
  /\ fd' = fd + 1
  /\ Establish("snd", "front", fd + 1)
  /\ sender_pc' = "send"
  /\ UNCHANGED <<phase, connect_attempt, attempt, heartbeat_sequence,
                 completed_responses, partial, sender_error, listening>>

(* The attempts of connect_with_retry are not counted.                     *)
SenderConnectRefused_RetriesForever ==
  /\ sender_pc = "connect"
  /\ ~listening["front"]
  /\ UNCHANGED <<senderVars, netVars>>

SenderConnectRefused ==
  /\ sender_pc = "connect"
  /\ ~listening["front"]
  /\ IF connect_attempt = MaxReconnectAttempts
       THEN /\ sender_pc' = "failed"
            /\ sender_error' = "connect failed"
            /\ UNCHANGED connect_attempt
       ELSE /\ connect_attempt' = connect_attempt + 1
            /\ UNCHANGED <<sender_pc, sender_error>>
  /\ UNCHANGED <<phase, fd, attempt, heartbeat_sequence,
                 completed_responses, partial, sock, backlog, listening>>

(* send_packet of the current request.                                     *)
SenderSend ==
  /\ sender_pc = "send"
  /\ \/ /\ CanSend(sock, SenderEnd)
        /\ sender_pc' = "wait"
        /\ sock' = Put(sock, SenderEnd, Request)
        /\ UNCHANGED <<phase, connect_attempt, attempt, heartbeat_sequence,
                       sender_error>>
     \/ /\ RaisesReset(sock, SenderEnd)
        /\ ConnectionLost(sock)
     \/ /\ RaisesSigpipe(sock, SenderEnd)
        /\ sender_pc' = "killed"
        /\ sock' = CloseFd(sock, {SenderEnd})
        /\ UNCHANGED <<phase, connect_attempt, attempt, heartbeat_sequence,
                       sender_error>>
  /\ UNCHANGED <<fd, completed_responses, partial, backlog, listening>>

-----------------------------------------------------------------------------
(* wait_for_response.  The poll before each recv reports an error first,   *)
(* so nothing is read from a connection that is already reset.             *)
CanRead ==
  /\ sender_pc = "wait"
  /\ ~PollErr(SenderEnd)
  /\ sock[SenderEnd].buf # <<>>

(* The frame that is read: its first bytes may have been taken before.     *)
Response == IF partial = NoFrame THEN Head(sock[SenderEnd].buf) ELSE partial

(* recv_exact got some of the frame's bytes, the rest is not there yet.    *)
SenderReadPart ==
  /\ CanRead
  /\ partial = NoFrame
  /\ Response.type # "Fragment"
  /\ partial' = Response
  /\ sock' = LeaveRest(sock, SenderEnd)
  /\ UNCHANGED <<sender_pc, phase, fd, connect_attempt, attempt,
                 heartbeat_sequence, completed_responses, sender_error,
                 backlog, listening>>

(* Completed responses are not remembered.                                 *)
Stale_Forgotten(key) == FALSE

(* A response that was matched before is ignored when it comes again.      *)
Stale(key) == key \in completed_responses

IsResponse(f) == Decodes(f) /\ f.type \in {"Ack", "HeartbeatAck"}

(* A whole frame before the deadline: decode, check, match.                *)
SenderReadResponse ==
  LET key  == <<Response.type, Response.seq>>
      rest == TakeHead(sock, SenderEnd)
  IN  /\ CanRead
      /\ IF IsResponse(Response) /\ key = Expected
           THEN /\ completed_responses' = completed_responses \cup {key}
                /\ Answered(rest)
         ELSE IF IsResponse(Response) /\ Stale(key)
           THEN /\ sock' = rest
                /\ UNCHANGED <<sender_pc, phase, connect_attempt, attempt,
                               heartbeat_sequence, completed_responses,
                               sender_error>>
         ELSE /\ Fail(IF IsResponse(Response) THEN "unexpected response"
                                              ELSE "invalid frame", rest)
              /\ UNCHANGED completed_responses
      /\ partial' = NoFrame
      /\ UNCHANGED <<fd, backlog, listening>>

(* A whole frame, but the deadline passed while it was read: consumed and  *)
(* not looked at.                                                          *)
SenderReadLate ==
  /\ CanRead
  /\ IF Decodes(Response)
       THEN NoResponse(TakeHead(sock, SenderEnd))
       ELSE Fail("invalid frame", TakeHead(sock, SenderEnd))
  /\ partial' = NoFrame
  /\ UNCHANGED <<fd, completed_responses, backlog, listening>>

(* The deadline inside a frame is treated like one at a frame boundary.    *)
SenderTimeout_ReusesStream ==
  /\ sender_pc = "wait"
  /\ NoResponse(sock)
  /\ partial' = NoFrame
  /\ UNCHANGED <<fd, completed_responses, backlog, listening>>

(* ResponseTimeout.  Inside a frame the connection is discarded.           *)
SenderTimeout ==
  /\ sender_pc = "wait"
  /\ IF partial = NoFrame
       THEN NoResponse(sock)
       ELSE Fail("partial response", Shutdown(sock, {SenderEnd}))
  /\ partial' = NoFrame
  /\ UNCHANGED <<fd, completed_responses, backlog, listening>>

(* EOF, a reset, or an error reported by poll.                             *)
SenderConnectionLost ==
  /\ sender_pc = "wait"
  /\ PollErr(SenderEnd) \/ AtEOF(SenderEnd)
  /\ ConnectionLost(sock)
  /\ partial' = NoFrame
  /\ UNCHANGED <<fd, completed_responses, backlog, listening>>

SenderNext ==
  \/ SenderConnect
  \/ SenderConnectRefused
  \/ SenderSend
  \/ SenderReadPart
  \/ SenderReadResponse
  \/ SenderReadLate
  \/ SenderTimeout
  \/ SenderConnectionLost

=============================================================================
