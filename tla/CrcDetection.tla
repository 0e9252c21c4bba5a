---------------------------- MODULE CrcDetection ----------------------------
(***************************************************************************)
(* Why a damaged packet is found out: the sender computes the CRC of what  *)
(* it sends, the receiver the CRC of what it gets, which differs in the    *)
(* one byte that send_corrupted_packet changes.  Both run the loop of      *)
(* crc32(), here side by side over messages of any length.                 *)
(***************************************************************************)
EXTENDS Crc32

CONSTANT Alphabet        \* bytes that messages are made of

ASSUME AlphabetAssumption == Alphabet \subseteq Byte

VARIABLES
  position,       \* bytes read so far, i of the loop
  damaged,        \* the changed byte was among them
  sent_crc,       \* crc of the sender
  received_crc,   \* crc of the receiver
  message         \* the bytes that were sent

crcVars == <<position, damaged, sent_crc, received_crc, message>>

CrcInit ==
  /\ position = 0
  /\ damaged = FALSE
  /\ sent_crc = AllOnes
  /\ received_crc = AllOnes
  /\ message = <<>>

(* The loop of the sender takes byte n.                                    *)
Send(n) ==
  /\ position' = position + 1
  /\ message' = Append(message, n)
  /\ sent_crc' = ByteStep(n)[sent_crc]

(* A byte that arrives as it was sent.                                     *)
ReadByte ==
  /\ \E n \in Alphabet : Send(n) /\ received_crc' = ByteStep(n)[received_crc]
  /\ UNCHANGED damaged

(* The byte that was changed on the way.                                   *)
ReadDamagedByte ==
  /\ ~damaged
  /\ damaged' = TRUE
  /\ \E m, n \in Alphabet :
       /\ m # n
       /\ Send(m)
       /\ received_crc' = ByteStep(n)[received_crc]

CrcNext == ReadByte \/ ReadDamagedByte

CrcSpec == CrcInit /\ [][CrcNext]_crcVars

CrcTypeOK ==
  /\ position \in Nat
  /\ damaged \in BOOLEAN
  /\ sent_crc \in Word
  /\ received_crc \in Word
  /\ message \in Seq(Byte)

(* Whatever follows the changed byte, the two checksums never meet again:  *)
(* decode_packet rejects every packet with one changed byte.               *)
DamageShows == damaged <=> Complement(sent_crc) # Complement(received_crc)

-----------------------------------------------------------------------------
(* The definition: a message is the polynomial over GF(2) whose highest    *)
(* coefficient is the first bit to be sent, the lowest bit of its first    *)
(* byte.  The CRC is the remainder of message * x^32, with the first 32    *)
(* bits complemented, divided by the generator; its coefficients, from x^0 *)
(* down to bit 31 of the word, are complemented.                           *)
Generator == {0, 1, 2, 4, 5, 7, 8, 10, 11, 12, 16, 22, 23, 26, 32}

(* The exponents of the terms of data * x^32: of bit b of byte i.          *)
Terms(data) ==
  UNION {{32 + 8 * (Len(data) - i) + 7 - b : b \in data[i]} : i \in DOMAIN data}

Remainder(data) ==
  LET n == 8 * Len(data)
      rest[d \in 32 .. n + 32] ==
        IF d = n + 32 THEN Xor(Terms(data), n .. n + 31)
        ELSE LET r == rest[d + 1]
             IN  IF d \in r THEN Xor(r, {e + d - 32 : e \in Generator}) ELSE r
  IN  rest[32]

(* crc32() is CRC-32: the bits of the loop's result are the remainder's    *)
(* coefficients, turned round and complemented.                            *)
MatchesDivision ==
  /\ crc32(message) = AllOnes \ {31 - e : e \in Remainder(message)}
  /\ sent_crc = Register[message]

=============================================================================
