------------------------------- MODULE Codec -------------------------------
(***************************************************************************)
(* protocol/codec.cpp and packet.hpp, byte for byte: a packet, the bytes   *)
(* that carry it, and which bytes are taken for a packet.  Numbers of 16   *)
(* and 32 bits are words, as in Crc32.                                     *)
(***************************************************************************)
EXTENDS Crc32

CONSTANT kMaxPayloadSize       \* 1024 in packet.hpp

ASSUME CodecAssumption == kMaxPayloadSize \in 0 .. 1024

kMagic      == {15, 13, 11, 9, 6, 4, 2, 0}      \* 0xAA55
kVersion    == {0}                              \* 1
kHeaderSize == 16

(* decode_packet casts the type byte and does not look at it.              *)
Packet == [type : Byte, sequence : Word, payload : Seq(Byte)]

-----------------------------------------------------------------------------
(* Numbers.                                                                *)

BitValue == <<1, 2, 4, 8, 16, 32, 64, 128, 256, 512, 1024, 2048>>

(* static_cast<uint32_t> of a size.  No buffer of the programs is larger   *)
(* than header and payload, so that 12 bits hold every size.               *)
WordOf(n) == {b \in 0 .. 11 : (n \div BitValue[b + 1]) % 2 = 1}

(* htons and htonl: the most significant byte first.                       *)
BigEndian(w, n) == [i \in 1 .. n |-> {b \in 0 .. 7 : b + 8 * (n - i) \in w}]

append_u16(w) == BigEndian(w, 2)
append_u32(w) == BigEndian(w, 4)

(* The n bytes after the first k, most significant first, and a variant    *)
(* without ntohl.                                                          *)
FromBigEndian(data, k, n) ==
  {b \in 0 .. 8 * n - 1 : b % 8 \in data[k + n - b \div 8]}

read_u16(data, k) == FromBigEndian(data, k, 2)

read_u32_HostOrder(data, k) ==
  {b \in 0 .. 31 : b % 8 \in data[k + 1 + b \div 8]}

read_u32(data, k) == FromBigEndian(data, k, 4)

-----------------------------------------------------------------------------
(* The type is left out of the checksum.                                   *)
make_crc_input_WithoutType(type, sequence, length, payload) ==
  append_u16(kMagic) \o <<kVersion>>
    \o append_u32(sequence) \o append_u32(length) \o payload

make_crc_input(type, sequence, length, payload) ==
  append_u16(kMagic) \o <<kVersion, type>>
    \o append_u32(sequence) \o append_u32(length) \o payload

Header(p) ==
  LET length == WordOf(Len(p.payload))
  IN  append_u16(kMagic) \o <<kVersion, p.type>>
        \o append_u32(p.sequence) \o append_u32(length)
        \o append_u32(crc32(make_crc_input(p.type, p.sequence, length, p.payload)))

Encoding(p) == Header(p) \o p.payload

(* encode_packet throws when the payload is too large: it has no bytes.    *)
encode_packet(p) ==
  IF Len(p.payload) > kMaxPayloadSize THEN <<>> ELSE Encoding(p)

(* The checks that get_payload_length and decode_packet share.             *)
WellFormed(header) ==
  /\ Len(header) = kHeaderSize
  /\ read_u16(header, 0) = kMagic
  /\ header[3] = kVersion

(* The payloads that are small enough, and a variant one byte short.       *)
LengthsUpTo_Exclusive(n) == {WordOf(k) : k \in 0 .. n - 1}

LengthsUpTo(n) == {WordOf(k) : k \in 0 .. n}

TooLarge(length) == length \notin LengthsUpTo(kMaxPayloadSize)

(* get_payload_length returns a length, the word, or throws.               *)
LengthWord(header) == read_u32(header, 8)
HasLength(header)  == WellFormed(header) /\ ~TooLarge(LengthWord(header))

(* The same length as a number of bytes.                                   *)
get_payload_length(header) ==
  CHOOSE n \in 0 .. kMaxPayloadSize : WordOf(n) = LengthWord(header)

(* decode_packet returns a packet, or throws.                              *)
Accepts(header, payload) ==
  /\ WellFormed(header)
  /\ LengthWord(header) = WordOf(Len(payload))
  /\ ~TooLarge(LengthWord(header))
  /\ read_u32(header, 12) =
       crc32(make_crc_input(header[4], read_u32(header, 4),
                            LengthWord(header), payload))

decode_packet(header, payload) ==
  [type |-> header[4], sequence |-> read_u32(header, 4), payload |-> payload]

=============================================================================
