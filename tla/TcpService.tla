----------------------------- MODULE TcpService -----------------------------
(***************************************************************************)
(* tcp/receiver.cpp as a service: the receiver and clients of any kind,    *)
(* connected at the same time, that send without waiting, repeat DATA of   *)
(* another connection, send what is no request and leave when they like.   *)
(*                                                                         *)
(* A client stands for the fault injector, for a test client as in         *)
(* reliability_verification, or for any other program: it is not part of   *)
(* the repository's sources under test and has the ends of side "back".    *)
(* Bytes of a frame that never becomes whole are left out: module Framing  *)
(* shows that the receiver finds nothing there but the end of the stream.  *)
(***************************************************************************)
EXTENDS TcpReceiver

CONSTANTS
  Requests,       \* frames the clients send, requests or not
  MaxRequests     \* bound: frames on one connection

ASSUME ServiceAssumption ==
  /\ Requests \subseteq Frame
  /\ MaxRequests \in Nat

VARIABLES
  client,         \* client[c]: "new", "open", "shut" (write side) or "gone"
  requests,       \* history: what was sent on connection c
  answers,        \* history: what was read on connection c
  offenders       \* history: connections whose client may end the receiver

clientVars  == <<client, requests, answers, offenders>>
serviceVars == <<netVars, receiverVars, clientVars>>

ClientEnd(c) == <<"back", c>>
ServerEnd(c) == <<"rcv", c>>

ServiceInit ==
  /\ NetInit
  /\ ReceiverInit
  /\ client = [c \in Conns |-> "new"]
  /\ requests = [c \in Conns |-> <<>>]
  /\ answers = [c \in Conns |-> <<>>]
  /\ offenders = {}

IsRequest(f) == Decodes(f) /\ f.type \in {"Data", "Heartbeat"}

(* Requests of c that the receiver has not answered yet.                   *)
Outstanding(c) ==
  Len(sock[ServerEnd(c)].buf)
    + IF receiver_pc = "reply" /\ client_fd = c THEN 1 ELSE 0

-----------------------------------------------------------------------------
ClientConnect(c) ==
  /\ client[c] = "new"
  /\ listening["rcv"]
  /\ Establish("back", "rcv", c)
  /\ client' = [client EXCEPT ![c] = "open"]
  /\ UNCHANGED <<requests, answers, offenders, listening>>

ClientSend(c) ==
  /\ client[c] = "open"
  /\ Len(requests[c]) < MaxRequests
  /\ CanSend(sock, ClientEnd(c))
  /\ \E f \in Requests :
       /\ sock' = Put(sock, ClientEnd(c), f)
       /\ requests' = [requests EXCEPT ![c] = Append(@, f)]
       /\ offenders' = IF IsRequest(f) THEN offenders ELSE offenders \cup {c}
  /\ UNCHANGED <<client, answers, backlog, listening>>

ClientRead(c) ==
  /\ client[c] \in {"open", "shut"}
  /\ sock[ClientEnd(c)].buf # <<>>
  /\ answers' = [answers EXCEPT ![c] = Append(@, Head(sock[ClientEnd(c)].buf))]
  /\ sock' = TakeHead(sock, ClientEnd(c))
  /\ UNCHANGED <<client, requests, offenders, backlog, listening>>

(* shutdown(SHUT_WR): the receiver gets the end of the stream, the client  *)
(* still reads.                                                            *)
ClientShut(c) ==
  /\ client[c] = "open"
  /\ client' = [client EXCEPT ![c] = "shut"]
  /\ sock' = IF sock[ServerEnd(c)].open
               THEN [sock EXCEPT ![ServerEnd(c)].fin = TRUE] ELSE sock
  /\ UNCHANGED <<requests, answers, offenders, backlog, listening>>

(* A client that leaves with an answer unread resets the connection, and   *)
(* so does one that leaves two requests unanswered, when the first answer  *)
(* comes back to it.                                                       *)
Offends(c) ==
  LET unread == sock[ClientEnd(c)].buf # <<>>
  IN  \/ unread /\ (client[c] = "open" \/ Outstanding(c) >= 1)
      \/ Outstanding(c) >= 2

ClientClose(c) ==
  /\ client[c] \in {"open", "shut"}
  /\ client' = [client EXCEPT ![c] = "gone"]
  /\ offenders' = IF Offends(c) THEN offenders \cup {c} ELSE offenders
  /\ sock' = CloseFd(sock, {ClientEnd(c)})
  /\ UNCHANGED <<requests, answers, backlog, listening>>

ClientStep ==
  /\ \E c \in Conns :
       \/ ClientConnect(c)
       \/ ClientSend(c)
       \/ ClientRead(c)
       \/ ClientShut(c)
       \/ ClientClose(c)
  /\ UNCHANGED receiverVars

ServiceNext == (ReceiverNext /\ UNCHANGED clientVars) \/ ClientStep

ServiceSpec == ServiceInit /\ [][ServiceNext]_serviceVars

(* The receiver runs when it can.  Its recv has no deadline: it serves the *)
(* next client only if every client stops sending at some time.            *)
ServiceFairness ==
  /\ WF_serviceVars(ReceiverRun /\ UNCHANGED clientVars)
  /\ \A c \in Conns :
       WF_serviceVars(ClientShut(c) /\ UNCHANGED receiverVars)

FairServiceSpec == ServiceSpec /\ ServiceFairness

-----------------------------------------------------------------------------
ServiceTypeOK ==
  /\ NetTypeOK
  /\ ReceiverTypeOK
  /\ client \in [Conns -> {"new", "open", "shut", "gone"}]
  /\ requests \in [Conns -> Seq(Requests)]
  /\ answers \in [Conns -> Seq(Frame)]
  /\ offenders \subseteq Conns

(* One receiver process hands a DATA sequence to the application once,     *)
(* over all its connections ("duplicate suppression after a reconnect").   *)
OnceForAllClients ==
  \A i, j \in DOMAIN delivered :
    /\ delivered[i].process = delivered[j].process
    /\ delivered[i].frame.seq = delivered[j].frame.seq
    => i = j

AnswerTo(f) == Packet(IF f.type = "Data" THEN "Ack" ELSE "HeartbeatAck", f.seq)

(* Requests that the receiver has taken from connection c.                 *)
Taken(c) == Len(requests[c]) - Len(sock[ServerEnd(c)].buf)

(* Every request is answered, duplicates of DATA too, with its own answer, *)
(* on its own connection and in the order of the requests: what a client   *)
(* has read, what is on its way to it and what is about to be sent are the *)
(* answers to the requests taken so far.                                   *)
AnswersInOrder ==
  \A c \in Conns :
    client[c] \in {"open", "shut"} /\ sock[ServerEnd(c)].open =>
      answers[c] \o sock[ClientEnd(c)].buf
          \o (IF receiver_pc = "reply" /\ client_fd = c THEN <<reply>> ELSE <<>>)
        = [i \in 1 .. Taken(c) |-> AnswerTo(requests[c][i])]

(* The end of a connection is local to it: the receiver and its listener   *)
(* end only while serving a client that sent something else than requests  *)
(* or left answers behind, never because of what another client does, and  *)
(* never because of a client that leaves between its requests (module      *)
(* Framing: inside one, the receiver finds the same end of the stream).    *)
EndsOnlyProvoked ==
  [][receiver_pc' # receiver_pc /\ receiver_pc' \in {"exited", "killed"}
       => client_fd \in offenders]_serviceVars

(* No client is forgotten: one that is connected is served, or the         *)
(* receiver has ended.                                                     *)
ServedInTurn ==
  \A c \in Conns :
    (\E i \in DOMAIN backlog["rcv"] : backlog["rcv"][i] = c)
      ~> (client_fd = c \/ receiver_pc \in {"down", "exited", "killed"})

(* No request of a client that stays is left without a word: it is         *)
(* answered, or the client sees its connection end, also when the receiver *)
(* is killed, started again, or ended by another client.                   *)
EveryRequestAnswered ==
  \A c \in Conns, n \in 1 .. MaxRequests :
    Len(requests[c]) >= n
      ~> \/ Len(answers[c]) + Len(sock[ClientEnd(c)].buf) >= n
         \/ sock[ClientEnd(c)].rst \/ sock[ClientEnd(c)].fin
         \/ client[c] = "gone"

=============================================================================
