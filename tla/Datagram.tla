------------------------------ MODULE Datagram ------------------------------
(***************************************************************************)
(* One datagram from the program that encoded it to receive_packet of the  *)
(* UDP programs: bytes may change, be cut off or be added on the way.  The *)
(* encoder may be another program of the protocol, without the size check  *)
(* of encode_packet.                                                       *)
(***************************************************************************)
EXTENDS Codec, FiniteSets

CONSTANTS
  Packets,       \* packets that are encoded
  SomeBytes,     \* values a damaged byte may take
  Reach,         \* positions that are damaged, lengths that are left
  MaxDamage      \* bound: changes to one datagram

ASSUME DatagramAssumption ==
  /\ \A p \in Packets : p \in Packet /\ Len(p.payload) < 4096
  /\ SomeBytes \subseteq Byte
  /\ Reach \subseteq Nat \ {0}

VARIABLES
  packet,        \* what was encoded
  datagram,      \* what arrives
  damage         \* positions whose byte has changed, 0 for a changed length

datagramVars == <<packet, datagram, damage>>

DatagramInit ==
  /\ packet \in Packets
  /\ datagram = Encoding(packet)
  /\ damage = {}

ChangeByte ==
  /\ Cardinality(damage) < MaxDamage
  /\ \E i \in Reach \ damage, b \in SomeBytes :
       /\ i \in DOMAIN datagram
       /\ b # datagram[i]
       /\ datagram' = [datagram EXCEPT ![i] = b]
       /\ damage' = damage \cup {i}
  /\ UNCHANGED packet

ChangeLength ==
  /\ Cardinality(damage) < MaxDamage
  /\ 0 \notin damage
  /\ \/ \E n \in Reach \cap DOMAIN datagram :
          datagram' = SubSeq(datagram, 1, n - 1)
     \/ \E b \in SomeBytes : datagram' = Append(datagram, b)
  /\ damage' = damage \cup {0}
  /\ UNCHANGED packet

DatagramNext == ChangeByte \/ ChangeLength

DatagramSpec == DatagramInit /\ [][DatagramNext]_datagramVars

-----------------------------------------------------------------------------
(* receive_packet.  recvfrom fills the buffer and drops what it cannot hold.*)
kReceiveBufferSize == kHeaderSize + kMaxPayloadSize

Buffer(d) ==
  IF Len(d) > kReceiveBufferSize THEN SubSeq(d, 1, kReceiveBufferSize) ELSE d

HeaderOf(d)  == SubSeq(Buffer(d), 1, kHeaderSize)
PayloadOf(d) ==
  SubSeq(Buffer(d), kHeaderSize + 1, kHeaderSize + get_payload_length(HeaderOf(d)))

(* Bytes after the payload are let through.                                *)
ExpectedSize_AtLeast(d) ==
  Len(Buffer(d)) >= kHeaderSize + get_payload_length(HeaderOf(d))

ExpectedSize(d) ==
  Len(Buffer(d)) = kHeaderSize + get_payload_length(HeaderOf(d))

Takes(d) ==
  /\ Len(Buffer(d)) >= kHeaderSize
  /\ HasLength(HeaderOf(d))
  /\ ExpectedSize(d)
  /\ Accepts(HeaderOf(d), PayloadOf(d))

receive_packet(d) == decode_packet(HeaderOf(d), PayloadOf(d))

-----------------------------------------------------------------------------
DatagramTypeOK ==
  /\ packet \in Packets
  /\ datagram \in Seq(Byte)
  /\ damage \subseteq Nat

(* What is sent and not damaged is received as it was, up to the largest   *)
(* payload that encode_packet accepts and not one byte more.               *)
RoundTrip ==
  damage = {} =>
    /\ Takes(datagram) <=> encode_packet(packet) # <<>>
    /\ Takes(datagram) => receive_packet(datagram) = packet

(* Whatever was done to it, a datagram that is taken for a packet carries  *)
(* the bytes of that packet: the encoding has no second form.              *)
TakesOnlyEncodings ==
  Takes(datagram) => Buffer(datagram) = encode_packet(receive_packet(datagram))

(* One changed byte anywhere, bytes cut off or a byte added: the datagram  *)
(* is refused.  The exception is a byte that the buffer cannot hold, which *)
(* recvfrom has already dropped.  Of a packet that is too large and was    *)
(* encoded without the size check, the length bytes have to arrive as they *)
(* were: with a smaller length the rest of the payload is dropped, and the *)
(* checksum covers other bytes than the sender's.                          *)
LengthBytes == 9 .. 12

DamageIsFound ==
  /\ Cardinality(damage) = 1
  /\ Len(packet.payload) > kMaxPayloadSize => damage \cap LengthBytes = {}
  => (Takes(datagram) <=> /\ Len(datagram) > kReceiveBufferSize
                          /\ Len(packet.payload) = kMaxPayloadSize)

(* What phase-4.md says of a datagram whose size is not the one its header *)
(* gives: an error.                                                        *)
SizeMismatchIsAnError ==
  Takes(datagram) =>
    Len(datagram) = kHeaderSize + Len(receive_packet(datagram).payload)

=============================================================================
