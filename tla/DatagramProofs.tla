--------------------------- MODULE DatagramProofs ---------------------------
(***************************************************************************)
(* Datagram for every limit, every packet and every damage.                *)
(***************************************************************************)
EXTENDS Datagram, CodecProofs, FiniteSetTheorems

-----------------------------------------------------------------------------
(* The buffer of recvfrom.                                                 *)
LEMMA BufferFacts ==
  ASSUME NEW d \in Seq(Byte)
  PROVE  /\ Buffer(d) \in Seq(Byte)
         /\ Len(d) <= kReceiveBufferSize => Buffer(d) = d
         /\ Len(Buffer(d)) <= Len(d)
         /\ Len(d) >= 16 =>
              /\ Len(Buffer(d)) >= 16
              /\ HeaderOf(d) \in Seq(Byte)
              /\ HeaderOf(d) = SubSeq(d, 1, 16)
<1>1. kReceiveBufferSize \in Nat /\ kReceiveBufferSize >= 16 /\ Len(d) \in Nat
  BY CodecAssumption DEF kReceiveBufferSize, kHeaderSize
<1>2. CASE Len(d) > kReceiveBufferSize
  <2>1. Buffer(d) = SubSeq(d, 1, kReceiveBufferSize)
    BY <1>2 DEF Buffer
  <2>2. Buffer(d) \in Seq(Byte) /\ Len(Buffer(d)) = kReceiveBufferSize
    <3>1. \A i \in 1 .. kReceiveBufferSize : d[i] \in Byte
      BY <1>1, <1>2, ElementOfSeq
    <3> QED
      BY <1>1, <2>1, <3>1, SubSeqProperties
  <2>3. HeaderOf(d) = SubSeq(d, 1, 16)
    <3>1. SubSeq(SubSeq(d, 1, kReceiveBufferSize), 1, 16) = SubSeq(d, 1 + 1 - 1, 1 + 16 - 1)
      <4>1. /\ 1 \in 1 .. Len(d) /\ kReceiveBufferSize \in 1 .. Len(d)
            /\ 1 \in 1 .. kReceiveBufferSize - 1 + 1
            /\ 16 \in 1 .. kReceiveBufferSize - 1 + 1
        BY <1>1, <1>2
      <4> QED
        BY <4>1, SubSeqOfSubSeq
    <3>2. SubSeq(d, 1 + 1 - 1, 1 + 16 - 1) = SubSeq(d, 1, 16)
      OBVIOUS
    <3>3. HeaderOf(d) = SubSeq(SubSeq(d, 1, kReceiveBufferSize), 1, 16)
      BY <2>1 DEF HeaderOf, kHeaderSize
    <3> QED
      BY <3>1, <3>2, <3>3, Zenon
  <2>4. HeaderOf(d) \in Seq(Byte)
    <3>1. \A i \in 1 .. 16 : d[i] \in Byte
      BY <1>1, <1>2, ElementOfSeq
    <3> QED
      BY <2>3, <3>1, SubSeqProperties
  <2> QED
    BY <1>1, <1>2, <2>2, <2>3, <2>4
<1>3. CASE Len(d) <= kReceiveBufferSize
  <2>1. Buffer(d) = d
    BY <1>1, <1>3 DEF Buffer
  <2>2. HeaderOf(d) = SubSeq(d, 1, 16)
    BY <2>1 DEF HeaderOf, kHeaderSize
  <2>3. ASSUME Len(d) >= 16 PROVE HeaderOf(d) \in Seq(Byte)
    <3>1. \A i \in 1 .. 16 : d[i] \in Byte
      BY <1>1, <2>3, ElementOfSeq
    <3> QED
      BY <2>2, <3>1, SubSeqProperties
  <2> QED
    BY <1>1, <2>1, <2>2, <2>3
<1> QED
  BY <1>1, <1>2, <1>3

LEMMA BufferHeader ==
  \A d \in Seq(Byte) : Len(d) >= 16 => HeaderOf(d) = SubSeq(d, 1, 16)
BY BufferFacts

(* What receive_packet makes of an encoding before it looks at the bytes.  *)
LEMMA EncodingParts ==
  ASSUME NEW p \in Packet, Len(p.payload) < 4096
  PROVE  /\ HeaderOf(Encoding(p)) = Header(p)
         /\ ~TooLarge(LengthWord(Header(p))) <=> Len(p.payload) <= kMaxPayloadSize
         /\ Len(p.payload) <= kMaxPayloadSize =>
              /\ Len(Buffer(Encoding(p))) = 16 + Len(p.payload)
              /\ get_payload_length(Header(p)) = Len(p.payload)
              /\ PayloadOf(Encoding(p)) = p.payload
<1> DEFINE n == Len(p.payload)
<1>1. /\ n \in Nat /\ Encoding(p) \in Seq(Byte) /\ Len(Encoding(p)) = 16 + n
      /\ SubSeq(Encoding(p), 1, 16) = Header(p) /\ SubSeq(Encoding(p), 16 + 1, 16 + n) = p.payload
  BY EncodingSplits DEF Splits
<1>2. HeaderOf(Encoding(p)) = Header(p)
  <2>1. Len(Encoding(p)) >= 16
    BY <1>1
  <2>2. HeaderOf(Encoding(p)) = SubSeq(Encoding(p), 1, 16)
    BY <1>1, <2>1, BufferHeader
  <2> QED
    BY <1>1, <2>2
<1>3. LengthWord(Header(p)) = WordOf(n)
  BY HeaderRead
<1>4. ~TooLarge(LengthWord(Header(p))) <=> n <= kMaxPayloadSize
  <2>1. n \in Nat /\ n < 4096
    BY <1>1
  <2> HIDE DEF n
  <2>2. ~TooLarge(WordOf(n)) <=> n <= kMaxPayloadSize
    BY <2>1, LengthIsNumber
  <2> QED
    BY <1>3, <2>2
<1>5. ASSUME n <= kMaxPayloadSize
      PROVE  /\ Len(Buffer(Encoding(p))) = 16 + n
             /\ get_payload_length(Header(p)) = n
             /\ PayloadOf(Encoding(p)) = p.payload
  <2>1. Len(Encoding(p)) <= kReceiveBufferSize
    BY <1>1, <1>5, CodecAssumption DEF kReceiveBufferSize, kHeaderSize
  <2>2. Buffer(Encoding(p)) = Encoding(p)
    BY <1>1, <2>1, BufferFacts
  <2>3. get_payload_length(Header(p)) =
          CHOOSE k \in 0 .. kMaxPayloadSize : WordOf(k) = WordOf(n)
    BY <1>3 DEF get_payload_length
  <2>4. get_payload_length(Header(p)) = n
    BY <1>1, <1>5, <2>3, LengthIsNumber
  <2>5. PayloadOf(Encoding(p)) = SubSeq(Encoding(p), 16 + 1, 16 + n)
    BY <1>2, <2>2, <2>4 DEF PayloadOf, kHeaderSize
  <2> QED
    BY <1>1, <2>2, <2>4, <2>5
<1> QED
  BY <1>2, <1>4, <1>5

(* A packet that fits goes through whole.                                  *)
LEMMA EncodingTaken ==
  ASSUME NEW p \in Packet, Len(p.payload) <= kMaxPayloadSize
  PROVE  Takes(Encoding(p)) /\ receive_packet(Encoding(p)) = p
<1>1. Len(p.payload) \in Nat /\ Len(p.payload) < 4096
  BY CodecAssumption DEF Packet
<1>2. /\ HeaderOf(Encoding(p)) = Header(p) /\ PayloadOf(Encoding(p)) = p.payload
      /\ Len(Buffer(Encoding(p))) = 16 + Len(p.payload)
      /\ get_payload_length(Header(p)) = Len(p.payload)
      /\ ~TooLarge(LengthWord(Header(p)))
  BY <1>1, EncodingParts
<1>3. Accepts(Header(p), p.payload) /\ HasLength(Header(p))
  BY HeaderTells
<1>4. Takes(Encoding(p))
  <2>1. Len(Buffer(Encoding(p))) >= 16
    BY <1>1, <1>2
  <2> QED
    BY <1>2, <1>3, <2>1 DEF Takes, ExpectedSize, kHeaderSize
<1>5. receive_packet(Encoding(p)) = p
  BY <1>2, HeaderTells DEF receive_packet
<1> QED
  BY <1>4, <1>5

(* A packet that does not fit has no encoding, and a program that encodes  *)
(* it all the same is refused.                                             *)
LEMMA EncodingRefused ==
  ASSUME NEW p \in Packet, Len(p.payload) > kMaxPayloadSize, Len(p.payload) < 4096
  PROVE  ~Takes(Encoding(p))
<1>1. ~(Len(p.payload) <= kMaxPayloadSize)
  BY CodecAssumption DEF Packet
<1>2. HeaderOf(Encoding(p)) = Header(p) /\ TooLarge(LengthWord(Header(p)))
  BY <1>1, EncodingParts
<1> QED
  BY <1>2 DEF Takes, HasLength

(* What is taken is the encoding of what it is taken for.                  *)
LEMMA TakesOnly ==
  ASSUME NEW d \in Seq(Byte), Takes(d)
  PROVE  /\ receive_packet(d) \in Packet
         /\ Buffer(d) = encode_packet(receive_packet(d))
<1> DEFINE x == Buffer(d)
           h == HeaderOf(d)
           n == get_payload_length(h)
           y == PayloadOf(d)
           q == receive_packet(d)
<1>1. /\ x \in Seq(Byte) /\ Len(x) >= 16 /\ Len(x) = 16 + n
      /\ WellFormed(h) /\ ~TooLarge(LengthWord(h)) /\ Accepts(h, y)
  BY BufferFacts DEF Takes, ExpectedSize, HasLength, kHeaderSize
<1>2. h = SubSeq(x, 1, 16) /\ y = SubSeq(x, 17, 16 + n)
  BY DEF HeaderOf, PayloadOf, kHeaderSize
<1>3. q = [type |-> h[4], sequence |-> read_u32(h, 4), payload |-> y]
  BY DEF receive_packet, decode_packet
<1>4. n \in 0 .. kMaxPayloadSize
  <2>1. \E k \in 0 .. kMaxPayloadSize : WordOf(k) = LengthWord(h)
    BY <1>1 DEF TooLarge, LengthsUpTo
  <2> QED
    BY <2>1 DEF get_payload_length
<1> HIDE DEF x, h, n, y, q
<1>5. n \in Nat /\ n <= kMaxPayloadSize
  BY <1>4, CodecAssumption
<1>6. \A i \in 1 .. 16 + n : x[i] \in Byte
  BY <1>1, <1>5, ElementOfSeq
<1>7. h \in Seq(Byte) /\ \A i \in 1 .. 16 : h[i] \in Byte
  <2>1. \A i \in 1 .. 16 : x[i] \in Byte
    BY <1>5, <1>6
  <2>2. h \in Seq(Byte) /\ Len(h) = 16
    BY <1>2, <2>1, SubSeqProperties
  <2> QED
    BY <2>2, ElementOfSeq
<1>8. y \in Seq(Byte) /\ Len(y) = n
  <2>1. \A i \in 17 .. 16 + n : x[i] \in Byte
    BY <1>5, <1>6
  <2>2. SubSeq(x, 17, 16 + n) \in Seq(Byte)
    BY <1>5, <2>1, SubSeqProperties
  <2>3. Len(SubSeq(x, 17, 16 + n)) = IF 17 <= 16 + n THEN 16 + n - 17 + 1 ELSE 0
    BY <1>5, <2>1, SubSeqProperties
  <2> QED
    BY <1>2, <1>5, <2>2, <2>3
<1>9. q \in Packet
  <2>1. read_u32(h, 4) \in Word
    <3>1. \A i \in 1 .. 4 : h[4 + i] \in Byte
      BY <1>7
    <3> QED
      BY <3>1, AppendRead
  <2> QED
    BY <1>3, <1>7, <1>8, <2>1 DEF Packet
<1>10. h = Header(q)
  <2>1. /\ q.type = h[4] /\ q.sequence = read_u32(h, 4)
        /\ q.payload = y
    BY <1>3
  <2>2. LengthWord(h) = WordOf(Len(q.payload))
    BY <1>1, <2>1 DEF Accepts
  <2>3. ChecksumOf(q) = read_u32(h, 12)
    BY <1>1, <2>1, <2>2 DEF Accepts, ChecksumOf, Checksum
  <2> QED
    BY <1>1, <1>7, <1>9, <2>1, <2>2, <2>3, HeaderWritten
<1>11. x = h \o y
  <2>1. /\ 1 \in 1 .. Len(x) + 1 /\ 16 \in 1 - 1 .. Len(x)
        /\ 16 + n \in 16 .. Len(x)
    BY <1>1, <1>5
  <2>2. SubSeq(x, 1, 16) \o SubSeq(x, 16 + 1, 16 + n) = SubSeq(x, 1, 16 + n)
    BY <1>1, <2>1, ConcatAdjacentSubSeq
  <2>3. SubSeq(x, 1, 16 + n) = x
    BY <1>1, SubSeqFull
  <2>4. 16 + 1 = 17
    OBVIOUS
  <2> QED
    BY <1>2, <2>2, <2>3, <2>4, Zenon
<1>12. encode_packet(q) = Header(q) \o y
  <2>1. q.payload = y
    BY <1>3
  <2>2. ~(Len(q.payload) > kMaxPayloadSize)
    BY <1>5, <1>8, <2>1, CodecAssumption
  <2> QED
    BY <2>1, <2>2 DEF encode_packet, Encoding
<1> QED
  BY <1>9, <1>10, <1>11, <1>12 DEF x, q

-----------------------------------------------------------------------------
(* Damage keeps the datagram a sequence of bytes, and an undamaged one is  *)
(* the encoding of its packet.                                             *)
DatagramInv == DatagramTypeOK /\ (damage = {} => datagram = Encoding(packet))

LEMMA EncodingType ==
  ASSUME NEW p \in Packets
  PROVE  p \in Packet /\ Encoding(p) \in Seq(Byte)
<1>1. p \in Packet
  BY DatagramAssumption
<1>2. Header(p) \in Seq(Byte) /\ p.payload \in Seq(Byte)
  BY <1>1, HeaderBytes DEF Packet
<1> QED
  BY <1>1, <1>2, ConcatProperties DEF Encoding

LEMMA DatagramInvStep ==
  ASSUME DatagramInv, [DatagramNext]_datagramVars
  PROVE  DatagramInv'
<1> USE DEF DatagramInv, DatagramTypeOK
<1>1. CASE ChangeByte
  <2>1. PICK i \in Reach \ damage, b \in SomeBytes :
          /\ i \in DOMAIN datagram
          /\ datagram' = [datagram EXCEPT ![i] = b]
          /\ damage' = damage \cup {i}
    BY <1>1 DEF ChangeByte
  <2>2. b \in Byte /\ i \in Nat
    BY DatagramAssumption
  <2>3. datagram' \in Seq(Byte)
    BY <2>1, <2>2, ExceptSeq
  <2> QED
    BY <1>1, <2>1, <2>2, <2>3 DEF ChangeByte
<1>2. CASE ChangeLength
  <2>1. 0 \in damage' /\ damage' \subseteq Nat /\ packet' = packet
    BY <1>2 DEF ChangeLength
  <2>2. ASSUME NEW n \in Reach \cap DOMAIN datagram,
               datagram' = SubSeq(datagram, 1, n - 1)
        PROVE  datagram' \in Seq(Byte)
    <3>1. n \in 1 .. Len(datagram) /\ n \in Nat
      BY <2>2, DatagramAssumption
    <3>2. \A k \in 1 .. n - 1 : datagram[k] \in Byte
      BY <3>1, ElementOfSeq
    <3>3. 1 \in Int /\ n - 1 \in Int
      BY <3>1
    <3>4. SubSeq(datagram, 1, n - 1) \in Seq(Byte)
      BY <3>2, <3>3, SubSeqProperties
    <3> QED
      BY <2>2, <3>4
  <2>3. ASSUME NEW b \in SomeBytes, datagram' = Append(datagram, b)
        PROVE  datagram' \in Seq(Byte)
    <3>1. b \in Byte
      BY DatagramAssumption
    <3> QED
      BY <2>3, <3>1, AppendProperties
  <2>4. datagram' \in Seq(Byte)
    BY <1>2, <2>2, <2>3 DEF ChangeLength
  <2> QED
    BY <2>1, <2>4
<1>3. CASE UNCHANGED datagramVars
  BY <1>3 DEF datagramVars
<1> QED
  BY <1>1, <1>2, <1>3 DEF DatagramNext

(* Sizes and bytes, whatever the damage.                                   *)
THEOREM DatagramInvariant == DatagramSpec => []DatagramInv
<1>1. DatagramInit => DatagramInv
  BY EncodingType DEF DatagramInit, DatagramInv, DatagramTypeOK
<1> QED
  BY <1>1, DatagramInvStep, PTL DEF DatagramSpec

(* encode_packet and receive_packet agree on which packets there are and   *)
(* on their contents: for every limit up to the 1024 bytes of packet.hpp   *)
(* and every packet, an undamaged datagram is received as it was sent.     *)
THEOREM RoundTrips == DatagramSpec => []RoundTrip
<1>1. DatagramInv => RoundTrip
  <2> SUFFICES ASSUME DatagramInv, damage = {}
               PROVE  /\ Takes(datagram) <=> encode_packet(packet) # <<>>
                      /\ Takes(datagram) => receive_packet(datagram) = packet
    BY DEF RoundTrip
  <2>1. packet \in Packet /\ datagram = Encoding(packet) /\ Len(packet.payload) < 4096
    BY DatagramAssumption DEF DatagramInv, DatagramTypeOK
  <2>2. CASE Len(packet.payload) <= kMaxPayloadSize
    <3>1. encode_packet(packet) = Encoding(packet)
      BY <2>1, <2>2, CodecAssumption DEF Packet, encode_packet
    <3>2. Len(packet.payload) \in Nat /\ Len(Encoding(packet)) = 16 + Len(packet.payload)
      BY <2>1, EncodingSplits DEF Splits
    <3>3. encode_packet(packet) # <<>>
      <4>1. Len(Encoding(packet)) # Len(<<>>)
        BY <3>2
      <4> QED
        BY <3>1, <4>1
    <3> QED
      BY <2>1, <2>2, <3>3, EncodingTaken
  <2>3. CASE Len(packet.payload) > kMaxPayloadSize
    <3>1. encode_packet(packet) = <<>>
      BY <2>3 DEF encode_packet
    <3> QED
      BY <2>1, <2>3, <3>1, EncodingRefused
  <2> QED
    BY <2>1, <2>2, <2>3, CodecAssumption DEF Packet
<1> QED
  BY <1>1, DatagramInvariant, PTL

(* No two forms: receive_packet takes only what encode_packet produces, so *)
(* that padding, a second length or a stray bit is never let through.      *)
THEOREM TakesOnlyWhatIsEncoded == DatagramSpec => []TakesOnlyEncodings
<1>1. DatagramInv => TakesOnlyEncodings
  BY TakesOnly DEF DatagramInv, DatagramTypeOK, TakesOnlyEncodings
<1> QED
  BY <1>1, DatagramInvariant, PTL

-----------------------------------------------------------------------------
(* What one change does to the bytes of an encoding.                       *)
Changed(d, s, i) ==
  /\ i \in 1 .. Len(s) /\ Len(d) = Len(s) /\ d[i] # s[i]
  /\ \A k \in 1 .. Len(s) : k # i => d[k] = s[k]

Cut(d, s)      == \E n \in 1 .. Len(s) : d = SubSeq(s, 1, n - 1)
Extended(d, s) == \E b \in Byte : d = Append(s, b)

DamageInv ==
  /\ DatagramInv
  /\ IsFiniteSet(damage)
  /\ \A i \in Nat : damage = {i} /\ i # 0 => Changed(datagram, Encoding(packet), i)
  /\ damage = {0} =>
       Cut(datagram, Encoding(packet)) \/ Extended(datagram, Encoding(packet))

LEMMA DamageInvStep ==
  ASSUME DamageInv, [DatagramNext]_datagramVars
  PROVE  DamageInv'
<1>1. DatagramInv /\ DatagramInv'
  BY DatagramInvStep DEF DamageInv
<1>2. /\ datagram \in Seq(Byte) /\ damage \subseteq Nat
      /\ damage = {} => datagram = Encoding(packet)
  BY <1>1 DEF DatagramInv, DatagramTypeOK
<1>3. CASE ChangeByte
  <2>1. PICK i \in Reach \ damage, b \in SomeBytes :
          /\ i \in DOMAIN datagram /\ b # datagram[i]
          /\ datagram' = [datagram EXCEPT ![i] = b]
          /\ damage' = damage \cup {i}
    BY <1>3 DEF ChangeByte
  <2>2. i \in Nat /\ i # 0 /\ i \in 1 .. Len(datagram) /\ packet' = packet
    BY <1>2, <1>3, <2>1, DatagramAssumption DEF ChangeByte
  <2>3. IsFiniteSet(damage')
    BY <2>1, FS_AddElement DEF DamageInv
  <2>4. damage' # {0}
    BY <2>1, <2>2
  <2>5. ASSUME NEW k \in Nat, damage' = {k}
        PROVE  Changed(datagram', Encoding(packet'), k)
    <3>1. k = i /\ damage = {}
      BY <2>1, <2>5
    <3>2. datagram = Encoding(packet)
      BY <1>2, <3>1
    <3>3. /\ DOMAIN datagram' = DOMAIN datagram /\ datagram'[i] = b
          /\ \A m \in DOMAIN datagram : m # i => datagram'[m] = datagram[m]
      BY <2>1
    <3>4. DOMAIN datagram = 1 .. Len(datagram)
      BY <1>2
    <3>5. Len(datagram') = Len(datagram)
      <4>1. datagram' \in Seq(Byte)
        BY <1>1 DEF DatagramInv, DatagramTypeOK
      <4> QED
        BY <1>2, <3>3, <4>1
    <3>6. Changed(datagram', datagram, i)
      BY <2>1, <2>2, <3>3, <3>4, <3>5 DEF Changed
    <3> QED
      BY <2>2, <3>1, <3>2, <3>6
  <2> QED
    BY <1>1, <2>3, <2>4, <2>5 DEF DamageInv
<1>4. CASE ChangeLength
  <2>1. 0 \notin damage /\ damage' = damage \cup {0} /\ packet' = packet
    BY <1>4 DEF ChangeLength
  <2>2. IsFiniteSet(damage')
    BY <2>1, FS_AddElement DEF DamageInv
  <2>3. ASSUME NEW k \in Nat, damage' = {k} PROVE k = 0
    BY <2>1, <2>3
  <2>4. ASSUME damage' = {0}
        PROVE  Cut(datagram', Encoding(packet)) \/ Extended(datagram', Encoding(packet))
    <3>1. datagram = Encoding(packet)
      BY <1>2, <2>1, <2>4
    <3>2. DOMAIN datagram = 1 .. Len(datagram)
      BY <1>2
    <3>3. Cut(datagram', datagram) \/ Extended(datagram', datagram)
      BY <1>4, <3>2, DatagramAssumption DEF ChangeLength, Cut, Extended
    <3> QED
      BY <3>1, <3>3
  <2> QED
    BY <1>1, <2>1, <2>2, <2>3, <2>4 DEF DamageInv
<1>5. CASE UNCHANGED datagramVars
  BY <1>1, <1>5 DEF datagramVars, DamageInv
<1> QED
  BY <1>3, <1>4, <1>5 DEF DatagramNext

LEMMA DamageInvariant == DatagramSpec => []DamageInv
<1>1. DatagramInit => DamageInv
  <2> SUFFICES ASSUME DatagramInit PROVE DamageInv
    OBVIOUS
  <2>1. DatagramInv
    BY EncodingType DEF DatagramInit, DatagramInv, DatagramTypeOK
  <2> QED
    BY <2>1, FS_EmptySet DEF DatagramInit, DamageInv
<1> QED
  BY <1>1, DamageInvStep, PTL DEF DatagramSpec

(* The length bytes, read from any header that has them.                   *)
LEMMA SameLengthWord ==
  ASSUME NEW h, NEW g, \A i \in 9 .. 12 : h[i] = g[i]
  PROVE  LengthWord(h) = LengthWord(g)
<1>1. ASSUME NEW b \in 0 .. 31 PROVE h[8 + 4 - b \div 8] = g[8 + 4 - b \div 8]
  <2>1. 8 + 4 - b \div 8 \in 9 .. 12
    OBVIOUS
  <2> QED
    BY <2>1
<1>2. /\ LengthWord(h) = {b \in 0 .. 31 : b % 8 \in h[8 + 4 - b \div 8]}
      /\ LengthWord(g) = {b \in 0 .. 31 : b % 8 \in g[8 + 4 - b \div 8]}
  BY DEF LengthWord, read_u32, FromBigEndian
<1> QED
  BY <1>1, <1>2

(* A datagram whose length bytes are those of the packet has the packet's  *)
(* size, as far as the buffer shows, or it is refused.                     *)
LEMMA TakenSize ==
  ASSUME NEW p \in Packet, Len(p.payload) < 4096,
         NEW d \in Seq(Byte), Takes(d),
         Len(d) >= 12, \A i \in 9 .. 12 : d[i] = Encoding(p)[i]
  PROVE  /\ Len(p.payload) <= kMaxPayloadSize
         /\ Len(Buffer(d)) = 16 + Len(p.payload)
<1> DEFINE n == Len(p.payload)
<1>1. n \in Nat /\ n < 4096
  BY DEF Packet
<1>2. Len(d) \in Nat /\ Len(d) >= 16
  <2>1. Len(Buffer(d)) >= 16 /\ Len(Buffer(d)) <= Len(d) /\ Buffer(d) \in Seq(Byte)
    BY BufferFacts DEF Takes, kHeaderSize
  <2> QED
    BY <2>1
<1>3. HeaderOf(d) = SubSeq(d, 1, 16)
  BY <1>2, BufferHeader
<1>4. \A i \in 9 .. 12 : HeaderOf(d)[i] = d[i]
  <2>1. \A i \in 1 .. 16 : d[i] \in Byte
    BY <1>2, ElementOfSeq
  <2>2. \A i \in 1 .. 16 : SubSeq(d, 1, 16)[i] = d[1 + i - 1]
    BY <1>2, <2>1, SubSeqProperties
  <2> QED
    BY <1>3, <2>2
<1>5. \A i \in 9 .. 12 : Encoding(p)[i] = Header(p)[i]
  BY HeaderFirst
<1>6. LengthWord(HeaderOf(d)) = WordOf(n)
  <2>1. LengthWord(HeaderOf(d)) = LengthWord(Header(p))
    BY <1>4, <1>5, SameLengthWord
  <2> QED
    BY <2>1, HeaderRead
<1>7. ~TooLarge(WordOf(n))
  BY <1>6 DEF Takes, HasLength
<1> HIDE DEF n
<1>8. n <= kMaxPayloadSize
  BY <1>1, <1>7, LengthIsNumber
<1>9. get_payload_length(HeaderOf(d)) = n
  <2>1. get_payload_length(HeaderOf(d)) =
          CHOOSE k \in 0 .. kMaxPayloadSize : WordOf(k) = WordOf(n)
    BY <1>6 DEF get_payload_length
  <2> QED
    BY <1>1, <1>8, <2>1, LengthIsNumber
<1> QED
  BY <1>8, <1>9 DEF Takes, ExpectedSize, kHeaderSize, n

(* One changed byte: no other packet has an encoding so close.             *)
LEMMA ChangedRefused ==
  ASSUME NEW p \in Packet, Len(p.payload) < 4096, NEW d \in Seq(Byte),
         NEW i, Changed(d, Encoding(p), i),
         Len(p.payload) > kMaxPayloadSize => i \notin LengthBytes
  PROVE  ~Takes(d)
<1> SUFFICES ASSUME Takes(d) PROVE FALSE
  OBVIOUS
<1> DEFINE n == Len(p.payload)
           E == Encoding(p)
<1>1. n \in Nat /\ E \in Seq(Byte) /\ Len(E) = 16 + n
  BY EncodingBytes
<1>2. /\ i \in 1 .. 16 + n /\ Len(d) = 16 + n /\ d[i] # E[i]
      /\ \A k \in 1 .. 16 + n : k # i => d[k] = E[k]
  BY <1>1 DEF Changed
<1>3. n <= kMaxPayloadSize
  <2> SUFFICES ASSUME n > kMaxPayloadSize PROVE FALSE
    BY <1>1, CodecAssumption
  <2>1. i \notin 9 .. 12
    BY DEF LengthBytes
  <2>2. \A k \in 9 .. 12 : d[k] = E[k]
    BY <1>1, <1>2, <2>1
  <2>3. Len(d) >= 12
    BY <1>1, <1>2
  <2>4. n <= kMaxPayloadSize
    BY <2>2, <2>3, TakenSize
  <2> QED
    BY <1>1, <2>4, CodecAssumption
<1>4. Buffer(d) = d
  <2>1. Len(d) <= kReceiveBufferSize
    BY <1>1, <1>2, <1>3, CodecAssumption DEF kReceiveBufferSize, kHeaderSize
  <2> QED
    BY <2>1, BufferFacts
<1> DEFINE q == receive_packet(d)
<1>5. d = encode_packet(q) /\ q \in Packet
  BY <1>4, TakesOnly
<1>6. encode_packet(q) = Encoding(q)
  <2>1. encode_packet(q) # <<>>
    <3>1. Len(d) # 0
      BY <1>1, <1>2
    <3> QED
      BY <1>5, <3>1
  <2> QED
    BY <2>1 DEF encode_packet
<1> HIDE DEF q
<1>7. Len(Encoding(q)) = 16 + Len(q.payload) /\ Len(q.payload) \in Nat
  BY <1>5, EncodingBytes
<1>8. Len(q.payload) = n
  BY <1>1, <1>2, <1>5, <1>6, <1>7
<1>9. i \in 1 .. 16 + Len(p.payload) /\ Encoding(p)[i] # Encoding(q)[i]
  BY <1>2, <1>5, <1>6
<1>10. \E k \in 1 .. 16 + Len(p.payload) :
         k # i /\ Encoding(p)[k] # Encoding(q)[k]
  BY <1>5, <1>8, <1>9, EncodingsFarApart
<1> QED
  BY <1>2, <1>5, <1>6, <1>10

(* Bytes cut off: the length bytes give a size that is not there.          *)
LEMMA CutRefused ==
  ASSUME NEW p \in Packet, Len(p.payload) < 4096, NEW d \in Seq(Byte),
         Cut(d, Encoding(p))
  PROVE  ~Takes(d) /\ Len(d) < 16 + Len(p.payload)
<1> DEFINE n == Len(p.payload)
           E == Encoding(p)
<1>1. n \in Nat /\ E \in Seq(Byte) /\ Len(E) = 16 + n
  BY EncodingBytes
<1>2. PICK m \in 1 .. 16 + n : d = SubSeq(E, 1, m - 1)
  BY <1>1 DEF Cut
<1> HIDE DEF n, E
<1>3. /\ m \in Nat /\ 1 \in Int /\ m - 1 \in Int
      /\ \A k \in 1 .. m - 1 : E[k] \in Byte
  BY <1>1, <1>2, ElementOfSeq
<1>4. Len(d) = m - 1
  <2>1. Len(SubSeq(E, 1, m - 1)) = IF 1 <= m - 1 THEN m - 1 - 1 + 1 ELSE 0
    BY <1>3, SubSeqProperties
  <2> QED
    BY <1>2, <1>3, <2>1
<1>5. \A k \in 1 .. m - 1 : d[k] = E[k]
  <2>1. \A k \in 1 .. (m - 1) - 1 + 1 : SubSeq(E, 1, m - 1)[k] = E[1 + k - 1]
    BY <1>3, SubSeqProperties
  <2> QED
    BY <1>2, <1>3, <2>1
<1>6. Len(d) < 16 + n
  BY <1>1, <1>2, <1>4
<1>7. ASSUME Takes(d) PROVE FALSE
  <2>1. /\ Len(Buffer(d)) >= 16 /\ Len(Buffer(d)) <= Len(d)
        /\ Buffer(d) \in Seq(Byte)
    BY <1>7, BufferFacts DEF Takes, kHeaderSize
  <2>2. Len(d) >= 12 /\ \A k \in 9 .. 12 : d[k] = E[k]
    BY <1>3, <1>4, <1>5, <2>1
  <2>3. Len(Buffer(d)) = 16 + n
    BY <1>7, <2>2, TakenSize DEF n, E
  <2> QED
    BY <1>1, <1>6, <2>1, <2>3
<1> QED
  BY <1>6, <1>7 DEF n

(* A byte more: it is seen if the buffer has room for it.                  *)
LEMMA ExtendedTaken ==
  ASSUME NEW p \in Packet, Len(p.payload) < 4096, NEW d \in Seq(Byte),
         Extended(d, Encoding(p))
  PROVE  /\ Len(d) = 17 + Len(p.payload)
         /\ Takes(d) <=> Len(p.payload) = kMaxPayloadSize
<1> DEFINE n == Len(p.payload)
           E == Encoding(p)
<1>1. n \in Nat /\ E \in Seq(Byte) /\ Len(E) = 16 + n
  BY EncodingBytes
<1>2. PICK b \in Byte : d = Append(E, b)
  BY DEF Extended
<1>3. kMaxPayloadSize \in Nat /\ kReceiveBufferSize = 16 + kMaxPayloadSize
  BY CodecAssumption DEF kReceiveBufferSize, kHeaderSize
<1> HIDE DEF n, E
<1>4. Len(d) = 17 + n /\ \A k \in 1 .. 16 + n : d[k] = E[k]
  BY <1>1, <1>2, AppendProperties
<1>5. ASSUME Takes(d) PROVE n = kMaxPayloadSize
  <2>1. Len(d) >= 12 /\ \A k \in 9 .. 12 : d[k] = E[k]
    BY <1>1, <1>4
  <2>2. Len(Buffer(d)) = 16 + n /\ n <= kMaxPayloadSize
    BY <1>5, <2>1, TakenSize DEF n, E
  <2>3. ~(Len(d) <= kReceiveBufferSize)
    BY <1>1, <1>4, <2>2, BufferFacts
  <2> QED
    BY <1>1, <1>3, <1>4, <2>2, <2>3
<1>6. ASSUME n = kMaxPayloadSize PROVE Takes(d)
  <2>1. Takes(E)
    BY <1>3, <1>6, EncodingTaken DEF n, E
  <2>2. Buffer(E) = E
    BY <1>1, <1>3, <1>6, BufferFacts
  <2>3. Buffer(d) = SubSeq(d, 1, 16 + n)
    BY <1>1, <1>3, <1>4, <1>6 DEF Buffer
  <2>4. SubSeq(d, 1, 16 + n) = E
    <3>1. /\ 1 \in Int /\ 16 + n \in Int
          /\ \A k \in 1 .. 16 + n : d[k] \in Byte
      BY <1>1, <1>4, ElementOfSeq
    <3>2. /\ SubSeq(d, 1, 16 + n) \in Seq(Byte)
          /\ Len(SubSeq(d, 1, 16 + n)) =
               IF 1 <= 16 + n THEN (16 + n) - 1 + 1 ELSE 0
          /\ \A k \in 1 .. (16 + n) - 1 + 1 :
               SubSeq(d, 1, 16 + n)[k] = d[1 + k - 1]
      BY <3>1, SubSeqProperties
    <3>3. Len(SubSeq(d, 1, 16 + n)) = 16 + n
      BY <1>1, <3>2
    <3>4. \A k \in 1 .. 16 + n : SubSeq(d, 1, 16 + n)[k] = E[k]
      BY <1>1, <1>4, <3>2
    <3> QED
      BY <1>1, <3>2, <3>3, <3>4, SeqEqual
  <2>5. Buffer(d) = Buffer(E)
    BY <2>2, <2>3, <2>4
  <2> QED
    BY <2>1, <2>5 DEF Takes, HeaderOf, PayloadOf, ExpectedSize
<1> QED
  BY <1>4, <1>5, <1>6 DEF n

(* One damaged place is found: whatever the limit and the packet, a byte   *)
(* that changes, bytes that are cut off and a byte more all lead to the    *)
(* refusal of the datagram, but for the byte behind a full buffer.  The    *)
(* checksum carries the first case: its register never forgets a change.   *)
THEOREM OneDamageIsFound == DatagramSpec => []DamageIsFound
<1>1. DamageInv => DamageIsFound
  <2> SUFFICES ASSUME DamageInv, Cardinality(damage) = 1,
                      Len(packet.payload) > kMaxPayloadSize =>
                        damage \cap LengthBytes = {}
               PROVE  Takes(datagram) <=>
                        /\ Len(datagram) > kReceiveBufferSize
                        /\ Len(packet.payload) = kMaxPayloadSize
    BY DEF DamageIsFound
  <2>1. /\ packet \in Packet /\ Len(packet.payload) < 4096
        /\ datagram \in Seq(Byte) /\ damage \subseteq Nat
    BY DatagramAssumption DEF DamageInv, DatagramInv, DatagramTypeOK
  <2>2. Len(packet.payload) \in Nat
    BY <2>1 DEF Packet
  <2>3. kMaxPayloadSize \in Nat /\ kReceiveBufferSize = 16 + kMaxPayloadSize
    BY CodecAssumption DEF kReceiveBufferSize, kHeaderSize
  <2>4. PICK i : damage = {i}
    BY FS_Singleton DEF DamageInv
  <2>5. i \in Nat
    BY <2>1, <2>4
  <2>6. CASE i # 0
    <3>1. Changed(datagram, Encoding(packet), i)
      BY <2>4, <2>5, <2>6 DEF DamageInv
    <3>2. ~Takes(datagram)
      BY <2>1, <2>4, <3>1, ChangedRefused
    <3>3. Len(datagram) = 16 + Len(packet.payload)
      BY <2>1, <3>1, EncodingBytes DEF Changed
    <3> QED
      BY <2>2, <2>3, <3>2, <3>3
  <2>7. CASE i = 0
    <3>1. CASE Cut(datagram, Encoding(packet))
      <4>1. ~Takes(datagram) /\ Len(datagram) < 16 + Len(packet.payload)
        BY <2>1, <3>1, CutRefused
      <4>2. Len(datagram) \in Nat
        BY <2>1
      <4> QED
        BY <2>2, <2>3, <4>1, <4>2
    <3>2. CASE Extended(datagram, Encoding(packet))
      <4>1. /\ Len(datagram) = 17 + Len(packet.payload)
            /\ Takes(datagram) <=> Len(packet.payload) = kMaxPayloadSize
        BY <2>1, <3>2, ExtendedTaken
      <4> QED
        BY <2>2, <2>3, <4>1
    <3> QED
      BY <2>4, <2>7, <3>1, <3>2 DEF DamageInv
  <2> QED
    BY <2>6, <2>7
<1> QED
  BY <1>1, DamageInvariant, PTL

=============================================================================
