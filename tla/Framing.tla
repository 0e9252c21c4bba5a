------------------------------ MODULE Framing -------------------------------
(***************************************************************************)
(* Packets over a TCP byte stream: send_all gives the kernel some bytes at *)
(* a time, recv_exact takes some bytes at a time until it has a header and *)
(* then the payload that the header announces.  The four copies of these   *)
(* functions, of sender, receiver and fault injector, differ in how long   *)
(* they wait, not in what they read.                                       *)
(***************************************************************************)
EXTENDS Codec

CONSTANTS
  Packets,       \* packets that are sent
  MaxPackets     \* bound: packets on a connection

ASSUME FramingAssumption ==
  /\ \A p \in Packets : p \in Packet /\ Len(p.payload) <= kMaxPayloadSize
  /\ MaxPackets \in Nat

VARIABLES
  writer,        \* "open" or "closed"
  outgoing,      \* bytes send_all has not yet given to the kernel
  stream,        \* bytes in the kernel
  reader,        \* "reading", or how receive_packet threw: "refused", "eof"
  header,        \* buffers of recv_exact
  payload,
  sent,          \* history: packets given to send_packet
  received       \* history: packets returned by receive_packet

framingVars ==
  <<writer, outgoing, stream, reader, header, payload, sent, received>>

FramingInit ==
  /\ writer = "open"
  /\ reader = "reading"
  /\ outgoing = <<>> /\ stream = <<>>
  /\ header = <<>> /\ payload = <<>>
  /\ sent = <<>> /\ received = <<>>

(* The first n elements of s, and the others.                              *)
First(s, n) == SubSeq(s, 1, n)
After(s, n) == SubSeq(s, n + 1, Len(s))

-----------------------------------------------------------------------------
(* send_corrupted_packet: the first byte of the payload is inverted.       *)
Inverted(bytes) ==
  [bytes EXCEPT ![kHeaderSize + 1] = Xor(@, 0 .. 7)]

(* send_packet of an intact or a damaged packet: only one with a payload   *)
(* can be damaged.                                                         *)
SendPacket ==
  /\ writer = "open"
  /\ outgoing = <<>>
  /\ Len(sent) < MaxPackets
  /\ \E p \in Packets, intact \in BOOLEAN :
       /\ intact \/ Len(encode_packet(p)) > kHeaderSize
       /\ outgoing' = IF intact THEN encode_packet(p)
                                ELSE Inverted(encode_packet(p))
       /\ sent' = Append(sent, [message |-> p, intact |-> intact])
  /\ UNCHANGED <<writer, stream, reader, header, payload, received>>

(* The kernel takes some of the bytes; with the second form send_all       *)
(* starts again with the whole buffer after a partial send.                *)
Remaining_WholeBuffer(bytes, n) ==
  IF n = Len(bytes) THEN <<>> ELSE bytes

Remaining(bytes, n) == After(bytes, n)

SendSome ==
  /\ \E n \in 1 .. Len(outgoing) :
       /\ stream' = stream \o First(outgoing, n)
       /\ outgoing' = Remaining(outgoing, n)
  /\ UNCHANGED <<writer, reader, header, payload, sent, received>>

(* The writing process closes the connection or ends, also in the middle   *)
(* of a packet.                                                            *)
WriterClose ==
  /\ writer = "open"
  /\ writer' = "closed"
  /\ outgoing' = <<>>
  /\ UNCHANGED <<stream, reader, header, payload, sent, received>>

-----------------------------------------------------------------------------
(* How many bytes recv_exact still wants, of the header, then of the       *)
(* payload.                                                                *)
HeaderWanted  == kHeaderSize - Len(header)

PayloadWanted ==
  IF HeaderWanted = 0 /\ HasLength(header)
    THEN get_payload_length(header) - Len(payload) ELSE 0

ReadHeader ==
  /\ reader = "reading"
  /\ \E n \in 1 .. HeaderWanted :
       /\ n <= Len(stream)
       /\ header' = header \o First(stream, n)
       /\ stream' = After(stream, n)
  /\ UNCHANGED <<writer, outgoing, reader, payload, sent, received>>

ReadPayload ==
  /\ reader = "reading"
  /\ \E n \in 1 .. PayloadWanted :
       /\ n <= Len(stream)
       /\ payload' = payload \o First(stream, n)
       /\ stream' = After(stream, n)
  /\ UNCHANGED <<writer, outgoing, reader, header, sent, received>>

(* The loop of recv_exact does not run for 0 bytes; in a faulty form it    *)
(* always does.                                                            *)
PayloadComplete_AfterSomeByte == PayloadWanted = 0 /\ payload # <<>>

PayloadComplete == PayloadWanted = 0

Complete == HeaderWanted = 0 /\ HasLength(header) /\ PayloadComplete

(* Faulty form: the buffer of the last payload is used again.              *)
NewBuffer_Reused == payload

NewBuffer == <<>>

(* receive_packet returns; the next call has buffers of its own.           *)
ReturnPacket ==
  /\ reader = "reading"
  /\ Complete
  /\ Accepts(header, payload)
  /\ received' = Append(received, decode_packet(header, payload))
  /\ header' = <<>>
  /\ payload' = NewBuffer
  /\ UNCHANGED <<writer, outgoing, stream, reader, sent>>

(* get_payload_length or decode_packet throws.                             *)
Refuse ==
  /\ reader = "reading"
  /\ HeaderWanted = 0
  /\ \/ ~HasLength(header)
     \/ Complete /\ ~Accepts(header, payload)
  /\ reader' = "refused"
  /\ UNCHANGED <<writer, outgoing, stream, header, payload, sent, received>>

(* recv returns 0 while bytes are wanted: PeerDisconnected, wherever in a  *)
(* packet it happens; in a faulty form only between packets.               *)
EndsHere_BetweenPackets == header = <<>>

EndsHere == HeaderWanted + PayloadWanted > 0

ReadEOF ==
  /\ reader = "reading"
  /\ EndsHere
  /\ stream = <<>>
  /\ writer = "closed"
  /\ reader' = "eof"
  /\ UNCHANGED <<writer, outgoing, stream, header, payload, sent, received>>

Write == SendPacket \/ SendSome \/ WriterClose
Read  == ReadHeader \/ ReadPayload \/ ReturnPacket \/ Refuse \/ ReadEOF

FramingNext == Write \/ Read

(* A process in send_all or recv_exact goes on when the kernel lets it.    *)
FramingSpec ==
  /\ FramingInit
  /\ [][FramingNext]_framingVars
  /\ WF_framingVars(SendSome)
  /\ WF_framingVars(Read)

-----------------------------------------------------------------------------
(* The bytes of the packets from the i-th on.                              *)
WireOf(s) == IF s.intact THEN Encoding(s.message) ELSE Inverted(Encoding(s.message))

Wire ==
  LET after[i \in 1 .. MaxPackets + 1] ==
        IF i > Len(sent) THEN <<>> ELSE WireOf(sent[i]) \o after[i + 1]
  IN  after[Len(received) + 1]

(* The reader never loses its place: what it holds, what the kernel holds  *)
(* and what the writer holds are together exactly the packets that were    *)
(* not yet received, a byte never lost, read twice or taken for part of    *)
(* another packet (the last packet cut off when the writer closed).        *)
InStep ==
  LET bytes == header \o payload \o stream \o outgoing
  IN  IF writer = "open" THEN bytes = Wire
      ELSE Len(bytes) <= Len(Wire) /\ bytes = First(Wire, Len(bytes))

(* The stream is a channel of packets.                                     *)
Channel == INSTANCE PacketChannel WITH Message <- Packets

ImplementsChannel == Channel!ChannelSpec

AllIntact == \A i \in DOMAIN sent : sent[i].intact

(* A packet that was written arrives without another being sent: the       *)
(* reader never waits for bytes that no packet has, also when the payload  *)
(* is empty.                                                               *)
PacketsArrive ==
  \A n \in 1 .. MaxPackets :
    (writer = "open" /\ outgoing = <<>> /\ Len(sent) = n /\ AllIntact)
      ~> Len(received) >= n

(* A writer that closes, also inside a header or a payload, ends the       *)
(* reader: it does not wait for ever for the rest.                         *)
ReaderEnds == writer = "closed" ~> reader # "reading"

=============================================================================
