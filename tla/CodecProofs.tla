---------------------------- MODULE CodecProofs -----------------------------
(***************************************************************************)
(* CrcDetection for messages of any length over any alphabet of bytes, and *)
(* the lemmas about the CRC and the encoding of a packet that the proofs   *)
(* about datagrams and byte streams rest on.                               *)
(***************************************************************************)
EXTENDS Codec, CrcDetection, SequenceTheorems, WellFoundedInduction, TLAPS

-----------------------------------------------------------------------------
(* One step of the CRC loop keeps different registers different.           *)

LEMMA XorType ==
  ASSUME NEW v \in Word, NEW w \in Word
  PROVE  Xor(v, w) \in Word
BY DEF Xor, Word

(* Exclusive or with the same word keeps different words different.        *)
LEMMA XorInjective ==
  ASSUME NEW u, NEW v, NEW w, Xor(u, w) = Xor(v, w)
  PROVE  u = v
BY DEF Xor

(* And so does exclusive or of the same word with different ones.          *)
LEMMA XorInjectiveRight ==
  ASSUME NEW u, NEW v, NEW w, Xor(w, u) = Xor(w, v)
  PROVE  u = v
BY DEF Xor

LEMMA BitStepValue ==
  ASSUME NEW w \in Word
  PROVE  BitStep[w] = IF 0 \in w THEN Xor(ShiftRight(w), Polynomial)
                                 ELSE ShiftRight(w)
BY DEF BitStep

LEMMA ByteStepValue ==
  ASSUME NEW w \in Word, NEW n \in Byte
  PROVE  ByteStep(n)[w] = BitSteps4(BitSteps4(Xor(w, n)))
BY DEF ByteStep

LEMMA BitStepType ==
  ASSUME NEW w \in Word
  PROVE  BitStep[w] \in Word
<1>1. ShiftRight(w) \in Word /\ Polynomial \in Word
  BY DEF ShiftRight, Word, Width, Polynomial
<1> QED
  BY <1>1, XorType, BitStepValue

(* A turn of the inner loop loses nothing: the low bit that leaves the     *)
(* word decides whether bit 31 is set.                                     *)
LEMMA BitStepInjective ==
  ASSUME NEW v \in Word, NEW w \in Word, BitStep[v] = BitStep[w]
  PROVE  v = w
<1>1. 31 \in Polynomial
  BY DEF Polynomial
<1>2. ASSUME NEW u \in Word PROVE 31 \notin ShiftRight(u)
  BY <1>2 DEF ShiftRight, Word, Width
<1>3. ASSUME NEW u \in Word PROVE 31 \in Xor(ShiftRight(u), Polynomial)
  BY <1>1, <1>2 DEF Xor
<1>4. 0 \in v <=> 0 \in w
  BY <1>2, <1>3, BitStepValue
<1>5. ShiftRight(v) = ShiftRight(w)
  BY <1>4, XorInjective, BitStepValue
<1>6. ASSUME NEW u \in Word, NEW b \in 1 .. 31
      PROVE  b \in u <=> b - 1 \in ShiftRight(u)
  BY <1>6 DEF ShiftRight, Word, Width
<1>7. \A b \in 0 .. 31 : b \in v <=> b \in w
  <2> TAKE b \in 0 .. 31
  <2>1. CASE b = 0
    BY <2>1, <1>4
  <2>2. CASE b # 0
    BY <2>2, <1>5, <1>6
  <2> QED
    BY <2>1, <2>2
<1>8. v \subseteq 0 .. 31 /\ w \subseteq 0 .. 31
  <2>1. Width - 1 = 31
    BY DEF Width
  <2> QED
    BY <2>1 DEF Word
<1> QED
  BY <1>7, <1>8, Zenon

LEMMA BitSteps4Facts ==
  ASSUME NEW v \in Word, NEW w \in Word
  PROVE  /\ BitSteps4(v) \in Word
         /\ BitSteps4(v) = BitSteps4(w) => v = w
<1>1. ASSUME NEW u \in Word
      PROVE  /\ BitStep[u] \in Word
             /\ BitStep[BitStep[u]] \in Word
             /\ BitStep[BitStep[BitStep[u]]] \in Word
             /\ BitStep[BitStep[BitStep[BitStep[u]]]] \in Word
  BY <1>1, BitStepType
<1> QED
  BY <1>1, BitStepInjective DEF BitSteps4

LEMMA BytesAreWords == Byte \subseteq Word
BY DEF Byte, Word, Width

LEMMA ByteStepFacts ==
  ASSUME NEW v \in Word, NEW w \in Word, NEW m \in Byte, NEW n \in Byte
  PROVE  /\ ByteStep(m)[v] \in Word
         /\ ByteStep(n)[v] = ByteStep(n)[w] => v = w
         /\ ByteStep(m)[v] = ByteStep(n)[v] => m = n
<1>1. /\ Xor(v, m) \in Word /\ Xor(v, n) \in Word
      /\ Xor(w, n) \in Word
  BY BytesAreWords, XorType
<1>2. /\ BitSteps4(Xor(v, m)) \in Word
      /\ BitSteps4(Xor(v, n)) \in Word
      /\ BitSteps4(Xor(w, n)) \in Word
  BY <1>1, BitSteps4Facts
<1>3. ByteStep(m)[v] \in Word
  BY <1>2, BitSteps4Facts, ByteStepValue
<1>4. ASSUME ByteStep(n)[v] = ByteStep(n)[w] PROVE v = w
  <2>1. Xor(v, n) = Xor(w, n)
    BY <1>1, <1>2, <1>4, BitSteps4Facts, ByteStepValue
  <2> QED
    BY <2>1, XorInjective
<1>5. ASSUME ByteStep(m)[v] = ByteStep(n)[v] PROVE m = n
  <2>1. Xor(v, m) = Xor(v, n)
    BY <1>1, <1>2, <1>5, BitSteps4Facts, ByteStepValue
  <2> QED
    BY <2>1, XorInjectiveRight
<1> QED
  BY <1>3, <1>4, <1>5

-----------------------------------------------------------------------------
(* The registers differ from the changed byte on, whatever comes after.    *)

CrcInv ==
  /\ CrcTypeOK
  /\ damaged <=> sent_crc # received_crc

LEMMA CrcInvStep ==
  ASSUME CrcInv, [CrcNext]_crcVars
  PROVE  CrcInv'
<1>0. /\ sent_crc \in Word /\ received_crc \in Word /\ position \in Nat
      /\ message \in Seq(Byte)
  BY DEF CrcInv, CrcTypeOK
<1>1. CASE ReadByte
  <2>1. PICK n \in Byte : /\ Send(n)
                          /\ received_crc' = ByteStep(n)[received_crc]
    BY <1>1, AlphabetAssumption DEF ReadByte
  <2>0. sent_crc' = ByteStep(n)[sent_crc] /\ position' = position + 1
    BY <2>1 DEF Send
  <2>2. sent_crc' \in Word /\ received_crc' \in Word
    BY <1>0, <2>0, <2>1, ByteStepFacts
  <2>3. sent_crc' = received_crc' <=> sent_crc = received_crc
    BY <1>0, <2>0, <2>1, ByteStepFacts
  <2>4. position' \in Nat /\ damaged' = damaged
    BY <1>0, <1>1, <2>0 DEF ReadByte
  <2>5. message' \in Seq(Byte)
    BY <1>0, <2>1 DEF Send
  <2> QED
    BY <2>2, <2>3, <2>4, <2>5 DEF CrcInv, CrcTypeOK
<1>2. CASE ReadDamagedByte
  <2>1. PICK m \in Byte, n \in Byte :
          /\ m # n
          /\ Send(m)
          /\ received_crc' = ByteStep(n)[received_crc]
    BY <1>2, AlphabetAssumption DEF ReadDamagedByte
  <2>0. sent_crc' = ByteStep(m)[sent_crc] /\ position' = position + 1
    BY <2>1 DEF Send
  <2>2. sent_crc = received_crc
    BY <1>2 DEF ReadDamagedByte, CrcInv
  <2>3. /\ sent_crc' \in Word /\ received_crc' \in Word
        /\ sent_crc' # received_crc'
    BY <1>0, <2>0, <2>1, <2>2, ByteStepFacts
  <2>4. position' \in Nat /\ damaged' = TRUE
    BY <1>0, <1>2, <2>0 DEF ReadDamagedByte
  <2>5. message' \in Seq(Byte)
    BY <1>0, <2>1 DEF Send
  <2> QED
    BY <2>3, <2>4, <2>5 DEF CrcInv, CrcTypeOK
<1>3. CASE UNCHANGED crcVars
  BY <1>3 DEF crcVars, CrcInv, CrcTypeOK
<1> QED
  BY <1>1, <1>2, <1>3 DEF CrcNext

LEMMA CrcInvariant == CrcSpec => []CrcInv
<1>1. CrcInit => CrcInv
  <2> SUFFICES ASSUME CrcInit PROVE CrcInv
    OBVIOUS
  <2>1. AllOnes \in Word
    BY DEF AllOnes, Word
  <2>2. /\ position \in Nat /\ sent_crc \in Word /\ received_crc \in Word
        /\ message \in Seq(Byte)
    BY <2>1 DEF CrcInit
  <2>3. damaged = FALSE /\ sent_crc = received_crc
    BY Zenon DEF CrcInit
  <2> QED
    BY <2>2, <2>3, Zenon DEF CrcInv, CrcTypeOK
<1>2. CrcInv /\ [CrcNext]_crcVars => CrcInv'
  BY CrcInvStep
<1> QED
  BY <1>1, <1>2, PTL DEF CrcSpec

(* One changed byte changes the checksum of a message of any length, so    *)
(* the comparison in decode_packet cannot miss it.                         *)
THEOREM DetectsDamage == CrcSpec => []DamageShows
<1>1. CrcInv => DamageShows
  BY DEF CrcInv, CrcTypeOK, DamageShows, Complement, AllOnes, Word
<1> QED
  BY <1>1, CrcInvariant, PTL

-----------------------------------------------------------------------------
(* Induction, from the least number of a set: the library's theorem about  *)
(* predicates has an operator for a parameter.                             *)
LEMMA NumbersOf ==
  ASSUME NEW S, 0 \in S, \A n \in Nat : n \in S => n + 1 \in S
  PROVE  Nat \subseteq S
<1> DEFINE R == OpToRel(<, Nat)
           T == Nat \ S
<1> SUFFICES ASSUME T # {} PROVE FALSE
  OBVIOUS
<1>1. IsWellFoundedOn(R, Nat)
  BY NatLessThanWellFounded
<1>2. \A x, y \in Nat : y < x => <<y, x>> \in R
  BY DEF OpToRel
<1>3. T \subseteq Nat
  OBVIOUS
<1> HIDE DEF R, T
<1>4. PICK x \in T : \A y \in T : ~ (<<y, x>> \in R)
  BY <1>1, <1>3, WFMin
<1>5. x \in Nat /\ x # 0 /\ x - 1 \in Nat /\ x - 1 \in T
  <2>1. x \in Nat /\ x # 0
    BY <1>3, <1>4 DEF T
  <2>2. x - 1 \in Nat /\ (x - 1) + 1 = x
    BY <2>1
  <2>3. x - 1 \notin S
    BY <1>4, <2>1, <2>2 DEF T
  <2> QED
    BY <2>1, <2>2, <2>3 DEF T
<1>6. x - 1 < x
  BY <1>5
<1> QED
  BY <1>2, <1>4, <1>5, <1>6

-----------------------------------------------------------------------------
(* The loop of crc32() over all the bytes.                                 *)

(* g holds the register after each byte.                                   *)
Loop(data, n, g) ==
  g = [i \in 0 .. n |->
         IF i = 0 THEN AllOnes ELSE ByteStep(data[i])[g[i - 1]]]

LEMMA LoopRuns ==
  ASSUME NEW data, NEW n \in Nat
  PROVE  \E g : Loop(data, n, g)
<1> DEFINE S == {k \in Nat : \E g : Loop(data, k, g)}
<1>1. 0 \in S
  <2>1. Loop(data, 0, [i \in 0 .. 0 |-> AllOnes])
    BY DEF Loop
  <2> QED
    BY <2>1
<1>2. ASSUME NEW k \in Nat, k \in S
      PROVE  k + 1 \in S
  <2>1. PICK g : Loop(data, k, g)
    BY <1>2
  <2> DEFINE h == [i \in 0 .. k + 1 |->
                     IF i = k + 1 THEN ByteStep(data[k + 1])[g[k]] ELSE g[i]]
  <2>2. \A i \in 0 .. k : h[i] = g[i]
    OBVIOUS
  <2>3. ASSUME NEW i \in 0 .. k + 1
        PROVE  h[i] = IF i = 0 THEN AllOnes ELSE ByteStep(data[i])[h[i - 1]]
    <3>1. CASE i = k + 1
      <4>1. k \in 0 .. k /\ i # 0 /\ i - 1 = k
        BY <3>1
      <4>2. h[k] = g[k]
        BY <2>2, <4>1
      <4> QED
        BY <3>1, <4>1, <4>2
    <3>2. CASE i # k + 1
      <4>1. i \in 0 .. k
        BY <3>2
      <4>2. g[i] = IF i = 0 THEN AllOnes ELSE ByteStep(data[i])[g[i - 1]]
        BY <2>1, <4>1 DEF Loop
      <4>3. i # 0 => i - 1 \in 0 .. k
        BY <4>1
      <4> QED
        BY <2>2, <4>1, <4>2, <4>3
    <3> QED
      BY <3>1, <3>2
  <2>4. h = [i \in 0 .. k + 1 |-> h[i]]
    OBVIOUS
  <2> HIDE DEF h
  <2>5. Loop(data, k + 1, h)
    BY <2>3, <2>4 DEF Loop
  <2> QED
    BY <2>5
<1> HIDE DEF S
<1>3. n \in S
  BY <1>1, <1>2, NumbersOf
<1> QED
  BY <1>3 DEF S

(* What the recursion of Register means, step by step.                     *)
LEMMA RegisterRuns ==
  ASSUME NEW data \in Seq(Byte)
  PROVE  \E g \in [0 .. Len(data) -> Word] :
           /\ g[0] = AllOnes
           /\ \A i \in 1 .. Len(data) : g[i] = ByteStep(data[i])[g[i - 1]]
           /\ Register[data] = g[Len(data)]
<1> DEFINE n == Len(data)
           crc == CHOOSE g : g = [i \in 0 .. n |->
                    IF i = 0 THEN AllOnes ELSE ByteStep(data[i])[g[i - 1]]]
<1>1. n \in Nat
  OBVIOUS
<1>2. Register[data] = crc[n]
  BY DEF Register
<1>3. crc = [i \in 0 .. n |->
               IF i = 0 THEN AllOnes ELSE ByteStep(data[i])[crc[i - 1]]]
  <2>1. \E g : g = [i \in 0 .. n |->
                      IF i = 0 THEN AllOnes ELSE ByteStep(data[i])[g[i - 1]]]
    BY <1>1, LoopRuns DEF Loop
  <2> QED
    BY <2>1
<1>4. n = Len(data)
  OBVIOUS
<1> HIDE DEF crc, n
<1>5. crc[0] = AllOnes
  BY <1>1, <1>3
<1>6. ASSUME NEW i \in 1 .. n
      PROVE  crc[i] = ByteStep(data[i])[crc[i - 1]] /\ data[i] \in Byte
  <2>1. i \in 0 .. n /\ i # 0
    BY <1>1
  <2> QED
    BY <1>3, <1>4, <2>1, ElementOfSeq
<1>7. \A i \in 0 .. n : crc[i] \in Word
  <2> DEFINE S == {k \in Nat : k <= n => crc[k] \in Word}
  <2>1. 0 \in S
    BY <1>5 DEF AllOnes, Word
  <2>2. ASSUME NEW k \in Nat, k \in S PROVE k + 1 \in S
    <3> SUFFICES ASSUME k + 1 <= n PROVE crc[k + 1] \in Word
      OBVIOUS
    <3>1. k + 1 \in 1 .. n /\ (k + 1) - 1 = k /\ k <= n
      BY <1>1
    <3>2. crc[k] \in Word
      BY <2>2, <3>1
    <3>3. crc[k + 1] = ByteStep(data[k + 1])[crc[k]] /\ data[k + 1] \in Byte
      BY <1>6, <3>1
    <3> QED
      BY <3>2, <3>3, ByteStepFacts
  <2> HIDE DEF S
  <2>3. Nat \subseteq S
    BY <2>1, <2>2, NumbersOf
  <2> QED
    BY <1>1, <2>3 DEF S
<1>8. crc \in [0 .. n -> Word]
  BY <1>3, <1>7
<1> QED
  BY <1>2, <1>4, <1>5, <1>6, <1>8

LEMMA RegisterType ==
  ASSUME NEW data \in Seq(Byte)
  PROVE  Register[data] \in Word
<1>1. PICK g \in [0 .. Len(data) -> Word] : Register[data] = g[Len(data)]
  BY RegisterRuns
<1>2. Len(data) \in 0 .. Len(data)
  OBVIOUS
<1> QED
  BY <1>1, <1>2

LEMMA ComplementInjective ==
  ASSUME NEW v \in Word, NEW w \in Word, Complement(v) = Complement(w)
  PROVE  v = w
BY DEF Complement, Word, AllOnes

(* Messages of one length that differ in one byte have different CRCs.     *)
LEMMA OneByteShows ==
  ASSUME NEW data \in Seq(Byte), NEW damaged_data \in Seq(Byte),
         Len(data) = Len(damaged_data),
         NEW j \in 1 .. Len(data), data[j] # damaged_data[j],
         \A i \in 1 .. Len(data) : i # j => data[i] = damaged_data[i]
  PROVE  crc32(data) # crc32(damaged_data)
<1> DEFINE n == Len(data)
<1>1. PICK g \in [0 .. n -> Word] :
        /\ g[0] = AllOnes
        /\ \A i \in 1 .. n : g[i] = ByteStep(data[i])[g[i - 1]]
        /\ Register[data] = g[n]
  BY RegisterRuns
<1>2. PICK h \in [0 .. Len(damaged_data) -> Word] :
        /\ h[0] = AllOnes
        /\ \A i \in 1 .. Len(damaged_data) :
             h[i] = ByteStep(damaged_data[i])[h[i - 1]]
        /\ Register[damaged_data] = h[Len(damaged_data)]
  BY RegisterRuns
<1>3. n \in Nat /\ j \in 1 .. n /\ Len(damaged_data) = n
  OBVIOUS
<1>4. \A i \in 1 .. n : data[i] \in Byte /\ damaged_data[i] \in Byte
  BY ElementOfSeq
<1>5. \A i \in 1 .. n : i # j => data[i] = damaged_data[i]
  OBVIOUS
<1> HIDE DEF n
<1> DEFINE S == {k \in Nat : k <= n => (g[k] = h[k] <=> k < j)}
<1>6. 0 \in S
  BY <1>1, <1>2, <1>3
<1>7. ASSUME NEW k \in Nat, k \in S PROVE k + 1 \in S
  <2> SUFFICES ASSUME k + 1 <= n PROVE g[k + 1] = h[k + 1] <=> k + 1 < j
    OBVIOUS
  <2>1. k + 1 \in 1 .. n /\ (k + 1) - 1 = k /\ k \in 0 .. n /\ k <= n
    BY <1>3
  <2>2. g[k] = h[k] <=> k < j
    BY <1>7, <2>1
  <2>3. /\ g[k + 1] = ByteStep(data[k + 1])[g[k]]
        /\ h[k + 1] = ByteStep(damaged_data[k + 1])[h[k]]
    BY <1>1, <1>2, <1>3, <2>1
  <2>4. /\ g[k] \in Word /\ h[k] \in Word
        /\ data[k + 1] \in Byte /\ damaged_data[k + 1] \in Byte
    BY <1>4, <1>3, <2>1
  <2>5. CASE k + 1 # j
    <3>1. data[k + 1] = damaged_data[k + 1]
      BY <1>5, <2>1, <2>5
    <3>2. g[k + 1] = h[k + 1] <=> g[k] = h[k]
      BY <2>3, <2>4, <3>1, ByteStepFacts
    <3>3. k < j <=> k + 1 < j
      BY <1>3, <2>5
    <3> QED
      BY <2>2, <3>2, <3>3
  <2>6. CASE k + 1 = j
    <3>1. g[k] = h[k]
      BY <1>3, <2>2, <2>6
    <3>2. g[k + 1] # h[k + 1]
      BY <2>3, <2>4, <2>6, <3>1, ByteStepFacts
    <3> QED
      BY <1>3, <2>6, <3>2
  <2> QED
    BY <2>5, <2>6
<1> HIDE DEF S
<1>8. n \in S
  BY <1>3, <1>6, <1>7, NumbersOf
<1>9. g[n] # h[n]
  BY <1>3, <1>8 DEF S
<1>10. Register[data] # Register[damaged_data]
  BY <1>1, <1>2, <1>3, <1>9
<1> QED
  BY <1>10, RegisterType, ComplementInjective DEF crc32

-----------------------------------------------------------------------------
(* The division.  One step of it, beside one turn of the inner loop.       *)

(* The bits of a word, the lowest first, as the exponents below d.         *)
Turned(d, w) == {d - 1 - b : b \in w}

DivisionStep(r, d) ==
  IF d \in r THEN Xor(r, {e + d - 32 : e \in Generator}) ELSE r

(* The polynomial of the code is the generator without x^32, turned round. *)
LEMMA TurnedGenerator ==
  ASSUME NEW d \in Int
  PROVE  {e + (d - 1) - 32 : e \in Generator}
           = {d - 1} \cup Turned(d - 1, Polynomial)
<1>1. \A b \in Polynomial : b \in Int /\ 31 - b \in Generator \ {32}
  BY DEF Polynomial, Generator
<1>2. \A e \in Generator : e \in Int /\ (e # 32 => 31 - e \in Polynomial)
  BY DEF Polynomial, Generator
<1>3. 32 \in Generator
  BY DEF Generator
<1>4. ASSUME NEW e \in Generator
      PROVE  e + (d - 1) - 32 \in {d - 1} \cup Turned(d - 1, Polynomial)
  <2>1. CASE e = 32
    BY <2>1
  <2>2. CASE e # 32
    <3>1. 31 - e \in Polynomial /\ e \in Int
      BY <1>2, <2>2
    <3>2. (d - 1) - 1 - (31 - e) = e + (d - 1) - 32
      BY <3>1
    <3> QED
      BY <3>1, <3>2 DEF Turned
  <2> QED
    BY <2>1, <2>2
<1>5. ASSUME NEW b \in Polynomial
      PROVE  (d - 1) - 1 - b \in {e + (d - 1) - 32 : e \in Generator}
  <2>1. 31 - b \in Generator /\ b \in Int
    BY <1>1
  <2>2. (31 - b) + (d - 1) - 32 = (d - 1) - 1 - b
    BY <2>1
  <2> QED
    BY <2>1, <2>2
<1>6. d - 1 = 32 + (d - 1) - 32
  OBVIOUS
<1> HIDE DEF Generator, Polynomial
<1> QED
  BY <1>3, <1>4, <1>5, <1>6 DEF Turned

LEMMA TurnedXor ==
  ASSUME NEW d \in Int, NEW v \in Word, NEW w \in Word
  PROVE  Turned(d, Xor(v, w)) = Xor(Turned(d, v), Turned(d, w))
<1>1. \A b \in v \cup w : b \in Int
  BY DEF Word, Width
<1> QED
  BY <1>1 DEF Turned, Xor

LEMMA TurnedShift ==
  ASSUME NEW d \in Int, NEW w \in Word
  PROVE  Turned(d - 1, ShiftRight(w)) = Turned(d, w) \ {d - 1}
<1>1. \A b \in w : b \in Int
  BY DEF Word, Width
<1>2. ASSUME NEW b \in w, b # 0
      PROVE  /\ (d - 1) - 1 - (b - 1) = d - 1 - b
             /\ d - 1 - b # d - 1
  BY <1>1, <1>2
<1>3. ASSUME NEW x \in Turned(d - 1, ShiftRight(w))
      PROVE  x \in Turned(d, w) \ {d - 1}
  <2>1. PICK b \in w : b # 0 /\ x = (d - 1) - 1 - (b - 1)
    BY <1>3 DEF Turned, ShiftRight
  <2> QED
    BY <1>2, <2>1 DEF Turned
<1>4. ASSUME NEW x \in Turned(d, w) \ {d - 1}
      PROVE  x \in Turned(d - 1, ShiftRight(w))
  <2>1. PICK b \in w : x = d - 1 - b
    BY <1>4 DEF Turned
  <2>2. b # 0
    BY <1>4, <2>1
  <2>3. b - 1 \in ShiftRight(w)
    BY <2>1, <2>2 DEF ShiftRight
  <2> QED
    BY <1>2, <2>1, <2>2, <2>3 DEF Turned
<1> QED
  BY <1>3, <1>4

(* A turn of the loop and a step of the division stay side by side while   *)
(* the terms L that are not yet reached lie below.                         *)
LEMMA TurnDivides ==
  ASSUME NEW d \in Int, NEW w \in Word, NEW L, d - 1 \notin L
  PROVE  DivisionStep(Xor(Turned(d, w), L), d - 1)
           = Xor(Turned(d - 1, BitStep[w]), L)
<1>0. d - 1 \in Int
  OBVIOUS
<1>1. \A b \in w : b \in Int
  BY DEF Word, Width
<1>2. d - 1 \in Turned(d, w) <=> 0 \in w
  BY <1>1 DEF Turned
<1>3. ShiftRight(w) \in Word /\ Polynomial \in Word
  BY DEF ShiftRight, Word, Width, Polynomial
<1>4. Turned(d - 1, ShiftRight(w)) = Turned(d, w) \ {d - 1}
  BY TurnedShift
<1>5. CASE 0 \in w
  <2>1. BitStep[w] = Xor(ShiftRight(w), Polynomial)
    BY <1>5, BitStepValue
  <2>2. Turned(d - 1, BitStep[w])
          = Xor(Turned(d, w) \ {d - 1}, Turned(d - 1, Polynomial))
    <3>1. Turned(d - 1, Xor(ShiftRight(w), Polynomial))
            = Xor(Turned(d - 1, ShiftRight(w)), Turned(d - 1, Polynomial))
      BY <1>0, <1>3, TurnedXor
    <3> QED
      BY <1>4, <2>1, <3>1
  <2>3. d - 1 \in Xor(Turned(d, w), L)
    BY <1>2, <1>5 DEF Xor
  <2>4. DivisionStep(Xor(Turned(d, w), L), d - 1)
          = Xor(Xor(Turned(d, w), L), {d - 1} \cup Turned(d - 1, Polynomial))
    BY <2>3, TurnedGenerator DEF DivisionStep
  <2>5. d - 1 \notin Turned(d - 1, Polynomial)
    BY DEF Turned, Polynomial
  <2>6. ASSUME NEW T, NEW P, NEW z, z \in T, z \notin L, z \notin P
        PROVE  Xor(Xor(T, L), {z} \cup P) = Xor(Xor(T \ {z}, P), L)
    BY <2>6 DEF Xor
  <2> QED
    BY <1>2, <1>5, <2>2, <2>4, <2>5, <2>6
<1>6. CASE 0 \notin w
  <2>1. BitStep[w] = ShiftRight(w)
    BY <1>6, BitStepValue
  <2>2. d - 1 \notin Xor(Turned(d, w), L) /\ d - 1 \notin Turned(d, w)
    BY <1>2, <1>6 DEF Xor
  <2>3. Turned(d, w) \ {d - 1} = Turned(d, w)
    BY <2>2
  <2> QED
    BY <1>4, <2>1, <2>2, <2>3 DEF DivisionStep
<1> QED
  BY <1>5, <1>6

(* g runs through the division from d down to c, above the terms L.        *)
Divides(g, L, c, d) ==
  \A k \in c .. d - 1 : k \notin L /\ g[k] = DivisionStep(g[k + 1], k)

LEMMA FourTurnsDivide ==
  ASSUME NEW d \in Int, NEW w \in Word, NEW L, NEW g,
         g[d] = Xor(Turned(d, w), L),
         NEW c, c = d - 4, Divides(g, L, c, d)
  PROVE  g[c] = Xor(Turned(c, BitSteps4(w)), L)
<1> DEFINE w1 == BitStep[w]
           w2 == BitStep[w1]
           w3 == BitStep[w2]
           w4 == BitStep[w3]
<1>1. ASSUME NEW k \in d - 3 .. d, NEW v \in Word, g[k] = Xor(Turned(k, v), L)
      PROVE  g[k - 1] = Xor(Turned(k - 1, BitStep[v]), L)
  <2>1. k - 1 \in d - 4 .. d - 1 /\ (k - 1) + 1 = k /\ k \in Int
    BY <1>1
  <2>2. k - 1 \notin L /\ g[k - 1] = DivisionStep(g[k], k - 1)
    BY <2>1 DEF Divides
  <2> QED
    BY <1>1, <2>1, <2>2, TurnDivides
<1>2. w1 \in Word /\ w2 \in Word /\ w3 \in Word
  BY BitStepType
<1>3. w4 = BitSteps4(w)
  BY DEF BitSteps4
<1> HIDE DEF w1, w2, w3, w4
<1>4. g[d - 1] = Xor(Turned(d - 1, w1), L)
  BY <1>1 DEF w1
<1>5. g[d - 2] = Xor(Turned(d - 2, w2), L)
  <2>1. d - 1 \in d - 3 .. d /\ (d - 1) - 1 = d - 2
    OBVIOUS
  <2> QED
    BY <1>1, <1>2, <1>4, <2>1 DEF w2
<1>6. g[d - 3] = Xor(Turned(d - 3, w3), L)
  <2>1. d - 2 \in d - 3 .. d /\ (d - 2) - 1 = d - 3
    OBVIOUS
  <2> QED
    BY <1>1, <1>2, <1>5, <2>1 DEF w3
<1>7. g[d - 4] = Xor(Turned(d - 4, w4), L)
  <2>1. d - 3 \in d - 3 .. d /\ (d - 3) - 1 = d - 4
    OBVIOUS
  <2> QED
    BY <1>1, <1>2, <1>6, <2>1 DEF w4
<1> QED
  BY <1>3, <1>7

(* A turn of the outer loop, with the terms of the byte it reads, is eight *)
(* steps of the division.                                                  *)
LEMMA ByteDivides ==
  ASSUME NEW d \in Int, NEW w \in Word, NEW n \in Byte, NEW L, NEW g,
         g[d] = Xor(Turned(d, w), Turned(d, n) \cup L),
         NEW c, c = d - 8, Divides(g, L, c, d)
  PROVE  g[c] = Xor(Turned(c, ByteStep(n)[w]), L)
<1> DEFINE v == Xor(w, n)
<1>1. n \in Word /\ v \in Word
  BY BytesAreWords, XorType
<1>2. BitSteps4(v) \in Word
  BY <1>1, BitSteps4Facts
<1>3. Turned(d, n) \cap L = {}
  <2>1. \A b \in n : d - 1 - b \in c .. d - 1
    BY DEF Byte
  <2> QED
    BY <2>1 DEF Turned, Divides
<1>4. ASSUME NEW T, NEW N, N \cap L = {}
      PROVE  Xor(T, N \cup L) = Xor(Xor(T, N), L)
  BY <1>4 DEF Xor
<1>5. g[d] = Xor(Turned(d, v), L)
  BY <1>1, <1>3, <1>4, TurnedXor
<1> HIDE DEF v
<1> DEFINE m == d - 4
<1>6. g[m] = Xor(Turned(m, BitSteps4(v)), L)
  <2>1. Divides(g, L, m, d)
    BY DEF Divides
  <2> QED
    BY <1>1, <1>5, <2>1, FourTurnsDivide
<1>7. g[c] = Xor(Turned(c, BitSteps4(BitSteps4(v))), L)
  <2>1. Divides(g, L, c, m)
    BY DEF Divides
  <2>2. m \in Int /\ c = m - 4
    OBVIOUS
  <2> HIDE DEF m
  <2> QED
    BY <1>2, <1>6, <2>1, <2>2, FourTurnsDivide
<1> QED
  BY <1>7, ByteStepValue DEF v

-----------------------------------------------------------------------------
(* The whole division.                                                     *)

(* rest of Remainder, on its first k + 1 arguments from m down.            *)
Division(first, m, k, g) ==
  g = [d \in m - k .. m |->
         IF d = m THEN first ELSE DivisionStep(g[d + 1], d)]

LEMMA DivisionRuns ==
  ASSUME NEW first, NEW m \in Nat, NEW n \in Nat
  PROVE  \E g : Division(first, m, n, g)
<1> DEFINE S == {k \in Nat : \E g : Division(first, m, k, g)}
<1>1. 0 \in S
  <2> DEFINE h == [d \in m - 0 .. m |-> first]
  <2>1. \A d \in m - 0 .. m : d = m
    OBVIOUS
  <2>2. h = [d \in m - 0 .. m |->
               IF d = m THEN first ELSE DivisionStep(h[d + 1], d)]
    BY <2>1
  <2> HIDE DEF h
  <2>3. Division(first, m, 0, h)
    BY <2>2 DEF Division
  <2> QED
    BY <2>3
<1>2. ASSUME NEW k \in Nat, k \in S PROVE k + 1 \in S
  <2>1. PICK g : Division(first, m, k, g)
    BY <1>2
  <2> DEFINE j == m - (k + 1)
             h == [d \in j .. m |->
                     IF d = j THEN DivisionStep(g[j + 1], j) ELSE g[d]]
  <2>2. j \in Int /\ m - k = j + 1 /\ j + 1 <= m /\ j # m
    OBVIOUS
  <2> HIDE DEF j
  <2>3. \A d \in j + 1 .. m : h[d] = g[d]
    BY <2>2
  <2>4. h[j] = DivisionStep(g[j + 1], j)
    BY <2>2
  <2>5. h = [d \in j .. m |-> h[d]]
    OBVIOUS
  <2> HIDE DEF h
  <2>6. ASSUME NEW d \in j .. m
        PROVE  h[d] = IF d = m THEN first ELSE DivisionStep(h[d + 1], d)
    <3>1. CASE d = j
      <4>1. j + 1 \in j + 1 .. m
        BY <2>2
      <4> QED
        BY <2>2, <2>3, <2>4, <3>1, <4>1
    <3>2. CASE d # j
      <4>1. d \in j + 1 .. m
        BY <2>2, <3>2
      <4>2. d # m => d + 1 \in j + 1 .. m
        BY <2>2, <4>1
      <4>3. g[d] = IF d = m THEN first ELSE DivisionStep(g[d + 1], d)
        BY <2>1, <2>2, <4>1 DEF Division
      <4> QED
        BY <2>3, <4>1, <4>2, <4>3
    <3> QED
      BY <3>1, <3>2
  <2>7. h = [d \in m - (k + 1) .. m |->
               IF d = m THEN first ELSE DivisionStep(h[d + 1], d)]
    BY <2>5, <2>6 DEF j
  <2>8. Division(first, m, k + 1, h)
    BY <2>7 DEF Division
  <2> QED
    BY <2>8
<1> HIDE DEF S
<1>3. n \in S
  BY <1>1, <1>2, NumbersOf
<1> QED
  BY <1>3 DEF S

(* What the recursion of Remainder means, step by step.                    *)
LEMMA RemainderRuns ==
  ASSUME NEW data \in Seq(Byte), NEW n, n = 8 * Len(data)
  PROVE  \E g : /\ g[n + 32] = Xor(Terms(data), n .. n + 31)
                /\ \A d \in 32 .. n + 31 : g[d] = DivisionStep(g[d + 1], d)
                /\ Remainder(data) = g[32]
<1> DEFINE first == Xor(Terms(data), n .. n + 31)
           rest == CHOOSE g : g = [d \in 32 .. n + 32 |->
                     IF d = n + 32 THEN first
                     ELSE IF d \in g[d + 1]
                            THEN Xor(g[d + 1], {e + d - 32 : e \in Generator})
                            ELSE g[d + 1]]
<1>1. n \in Nat
  OBVIOUS
<1>2. Remainder(data) = rest[32]
  BY DEF Remainder
<1> HIDE DEF first
<1>3. rest = [d \in 32 .. n + 32 |->
                IF d = n + 32 THEN first ELSE DivisionStep(rest[d + 1], d)]
  <2>1. \E g : Division(first, n + 32, n, g)
    <3>1. n + 32 \in Nat
      BY <1>1
    <3> QED
      BY <1>1, <3>1, DivisionRuns
  <2>2. (n + 32) - n = 32
    BY <1>1
  <2>3. \E g : g = [d \in 32 .. n + 32 |->
                     IF d = n + 32 THEN first ELSE DivisionStep(g[d + 1], d)]
    BY <2>1, <2>2 DEF Division
  <2> QED
    BY <2>3 DEF DivisionStep
<1> HIDE DEF rest
<1>4. rest[n + 32] = first
  BY <1>1, <1>3
<1>5. \A d \in 32 .. n + 31 : rest[d] = DivisionStep(rest[d + 1], d)
  BY <1>1, <1>3
<1> QED
  BY <1>2, <1>4, <1>5 DEF first

LEMMA TermsAre ==
  ASSUME NEW data \in Seq(Byte), NEW e
  PROVE  e \in Terms(data) <=>
           \E i \in 1 .. Len(data) :
             \E b \in data[i] : e = 32 + 8 * (Len(data) - i) + 7 - b
<1>1. DOMAIN data = 1 .. Len(data)
  OBVIOUS
<1> QED
  BY <1>1 DEF Terms

LEMMA BitsOfBytes ==
  ASSUME NEW data \in Seq(Byte), NEW i \in 1 .. Len(data)
  PROVE  data[i] \in Byte /\ \A b \in data[i] : b \in 0 .. 7
<1>1. data[i] \in Byte
  BY ElementOfSeq
<1> QED
  BY <1>1 DEF Byte

LEMMA TermsBetween ==
  ASSUME NEW data \in Seq(Byte), NEW n, n = 8 * Len(data)
  PROVE  \A e \in Terms(data) : e \in 32 .. n + 31
<1> SUFFICES ASSUME NEW e \in Terms(data) PROVE e \in 32 .. n + 31
  OBVIOUS
<1>1. PICK i \in 1 .. Len(data) :
        \E b \in data[i] : e = 32 + 8 * (Len(data) - i) + 7 - b
  BY TermsAre
<1>2. PICK b \in 0 .. 7 : e = 32 + 8 * (Len(data) - i) + 7 - b
  BY <1>1, BitsOfBytes
<1>3. PICK l \in Nat : l = Len(data)
  OBVIOUS
<1>4. i \in 1 .. l /\ n = 8 * l /\ e = 32 + 8 * (l - i) + 7 - b
  BY <1>2, <1>3
<1> QED
  BY <1>2, <1>3, <1>4

(* The terms below d are those of the next byte and those eight below.     *)
LEMMA TermsSplit ==
  ASSUME NEW data \in Seq(Byte), NEW i \in Nat, i < Len(data),
         NEW d, d = 32 + 8 * (Len(data) - i)
  PROVE  {e \in Terms(data) : e < d}
           = Turned(d, data[i + 1]) \cup {e \in Terms(data) : e < d - 8}
<1>1. PICK l \in Nat : l = Len(data)
  OBVIOUS
<1>2. i < l /\ d = 32 + 8 * (l - i) /\ d \in Int /\ i + 1 \in 1 .. l
  BY <1>1
<1>3. ASSUME NEW e \in Terms(data), e < d
      PROVE  e \in Turned(d, data[i + 1]) \/ e < d - 8
  <2>1. PICK j \in 1 .. Len(data) :
          \E b \in data[j] : e = 32 + 8 * (Len(data) - j) + 7 - b
    BY TermsAre
  <2>2. PICK b \in data[j] : b \in 0 .. 7 /\ e = 32 + 8 * (l - j) + 7 - b
    BY <1>1, <2>1, BitsOfBytes
  <2>3. j \in Nat
    OBVIOUS
  <2>4. j = i + 1 \/ e < d - 8
    BY <1>2, <1>3, <2>2, <2>3
  <2>5. CASE j = i + 1
    <3>1. e = d - 1 - b
      BY <1>2, <2>2, <2>5
    <3> QED
      BY <2>5, <3>1 DEF Turned
  <2> QED
    BY <2>4, <2>5
<1>4. ASSUME NEW e \in Turned(d, data[i + 1])
      PROVE  e \in Terms(data) /\ e < d
  <2>1. PICK b \in data[i + 1] : e = d - 1 - b
    BY <1>4 DEF Turned
  <2>2. i + 1 \in 1 .. Len(data) /\ b \in 0 .. 7
    BY <1>1, <1>2, BitsOfBytes
  <2>3. e = 32 + 8 * (l - (i + 1)) + 7 - b /\ e < d
    BY <1>2, <2>1, <2>2
  <2> QED
    BY <1>1, <2>1, <2>2, <2>3, TermsAre
<1>5. \A e \in Terms(data) : e \in Int /\ (e < d - 8 => e < d)
  BY <1>2, TermsBetween
<1> QED
  BY <1>3, <1>4, <1>5

LEMMA TurnedAllOnes ==
  ASSUME NEW n \in Nat
  PROVE  Turned(n + 32, AllOnes) = n .. n + 31
<1>1. AllOnes = 0 .. 31
  BY DEF AllOnes, Width
<1>2. \A e : e \in Turned(n + 32, AllOnes) <=> \E b \in 0 .. 31 : e = n + 32 - 1 - b
  BY <1>1 DEF Turned
<1>3. ASSUME NEW e \in n .. n + 31 PROVE e \in Turned(n + 32, AllOnes)
  <2>1. n + 31 - e \in 0 .. 31 /\ e = n + 32 - 1 - (n + 31 - e)
    OBVIOUS
  <2> QED
    BY <1>2, <2>1
<1>4. ASSUME NEW e \in Turned(n + 32, AllOnes) PROVE e \in n .. n + 31
  <2>1. PICK b \in 0 .. 31 : e = n + 32 - 1 - b
    BY <1>2
  <2> QED
    BY <2>1
<1> QED
  BY <1>3, <1>4

(* The loop and the division, byte by byte.                                *)
LEMMA DivisionIsLoop ==
  ASSUME NEW data \in Seq(Byte)
  PROVE  Remainder(data) = Turned(32, Register[data])
<1>1. PICK l \in Nat : l = Len(data)
  OBVIOUS
<1> DEFINE n == 8 * l
           At(i) == n + 32 - 8 * i
           Below(d) == {e \in Terms(data) : e < d}
<1>2. PICK c \in [0 .. l -> Word] :
        /\ c[0] = AllOnes
        /\ \A i \in 1 .. l : c[i] = ByteStep(data[i])[c[i - 1]]
        /\ Register[data] = c[l]
  BY <1>1, RegisterRuns
<1>3. PICK g : /\ g[n + 32] = Xor(Terms(data), n .. n + 31)
               /\ \A d \in 32 .. n + 31 : g[d] = DivisionStep(g[d + 1], d)
               /\ Remainder(data) = g[32]
  BY <1>1, RemainderRuns
<1> DEFINE S == {i \in Nat : i <= l =>
                   g[At(i)] = Xor(Turned(At(i), c[i]), Below(At(i)))}
<1>4. \A e \in Terms(data) : e \in 32 .. n + 31
  BY <1>1, TermsBetween
<1>5. 0 \in S
  <2>1. At(0) = n + 32 /\ n \in Nat
    OBVIOUS
  <2>2. Below(n + 32) = Terms(data)
    BY <1>4, <2>1
  <2>3. Turned(n + 32, AllOnes) = n .. n + 31
    BY <2>1, TurnedAllOnes
  <2>4. \A u, v : Xor(u, v) = Xor(v, u)
    BY DEF Xor
  <2>5. g[n + 32] = Xor(Turned(n + 32, c[0]), Below(n + 32))
    <3> HIDE DEF n, Below
    <3>1. g[n + 32] = Xor(Terms(data), n .. n + 31) /\ c[0] = AllOnes
      BY <1>2, <1>3
    <3>2. Xor(Terms(data), n .. n + 31) = Xor(n .. n + 31, Terms(data))
      BY <2>4
    <3> QED
      BY <2>2, <2>3, <3>1, <3>2
  <2> QED
    BY <2>1, <2>5
<1>6. ASSUME NEW i \in Nat, i \in S PROVE i + 1 \in S
  <2> SUFFICES ASSUME i + 1 <= l
               PROVE  g[At(i + 1)]
                        = Xor(Turned(At(i + 1), c[i + 1]), Below(At(i + 1)))
    OBVIOUS
  <2> DEFINE d == At(i)
  <2>1. /\ d \in Int /\ At(i + 1) = d - 8 /\ d - 8 >= 32 /\ d <= n + 32
        /\ d = 32 + 8 * (l - i) /\ i < l /\ n \in Nat
        /\ i + 1 \in 1 .. l /\ (i + 1) - 1 = i /\ i \in 0 .. l
    OBVIOUS
  <2>2. g[d] = Xor(Turned(d, c[i]), Below(d))
    BY <1>6, <2>1
  <2> HIDE DEF d, n, At, S
  <2>3. Below(d) = Turned(d, data[i + 1]) \cup Below(d - 8)
    <3>1. d = 32 + 8 * (Len(data) - i) /\ i < Len(data)
      BY <1>1, <2>1
    <3>2. i \in Nat
      OBVIOUS
    <3> HIDE DEF Below
    <3>3. /\ Below(d) = {e \in Terms(data) : e < d}
          /\ Below(d - 8) = {e \in Terms(data) : e < d - 8}
      BY DEF Below
    <3>4. {e \in Terms(data) : e < d}
            = Turned(d, data[i + 1]) \cup {e \in Terms(data) : e < d - 8}
      BY <3>1, <3>2, TermsSplit
    <3> QED
      BY <3>3, <3>4
  <2>4. c[i] \in Word /\ data[i + 1] \in Byte
    BY <1>1, <1>2, <2>1, BitsOfBytes
  <2>5. \A k \in d - 8 .. d - 1 : k \notin Below(d - 8)
    BY <2>1
  <2>6. \A k \in d - 8 .. d - 1 : k \in 32 .. n + 31
    BY <2>1
  <2>7. \A k \in d - 8 .. d - 1 :
          k \notin Below(d - 8) /\ g[k] = DivisionStep(g[k + 1], k)
    BY <1>3, <2>5, <2>6
  <2> HIDE DEF Below
  <2>8. g[d - 8] = Xor(Turned(d - 8, ByteStep(data[i + 1])[c[i]]), Below(d - 8))
    <3>1. g[d] = Xor(Turned(d, c[i]), Turned(d, data[i + 1]) \cup Below(d - 8))
      BY <2>2, <2>3
    <3>2. d \in Int
      BY <2>1
    <3>3. Divides(g, Below(d - 8), d - 8, d)
      BY <2>7 DEF Divides
    <3> QED
      BY <2>4, <3>1, <3>2, <3>3, ByteDivides
  <2>9. c[i + 1] = ByteStep(data[i + 1])[c[i]]
    BY <1>2, <2>1
  <2> QED
    BY <2>1, <2>8, <2>9
<1>7. l \in S
  <2> HIDE DEF S
  <2> QED
    BY <1>5, <1>6, NumbersOf
<1>8. At(l) = 32
  OBVIOUS
<1>9. Below(32) = {}
  BY <1>4
<1>10. \A u : Xor(u, {}) = u
  BY DEF Xor
<1>11. g[32] = Xor(Turned(32, c[l]), {})
  <2>1. l <= l
    OBVIOUS
  <2>2. g[At(l)] = Xor(Turned(At(l), c[l]), Below(At(l)))
    BY <1>7, <2>1
  <2> HIDE DEF At, Below
  <2> QED
    BY <1>8, <1>9, <2>2
<1> HIDE DEF n
<1> QED
  BY <1>2, <1>3, <1>10, <1>11

LEMMA CrcIsDivision ==
  ASSUME NEW data \in Seq(Byte)
  PROVE  crc32(data) = AllOnes \ {31 - e : e \in Remainder(data)}
<1> DEFINE w == Register[data]
<1>0. w \in Word
  BY RegisterType
<1>2. Remainder(data) = Turned(32, w)
  BY DivisionIsLoop
<1> HIDE DEF w
<1>1. \A b \in w : b \in Int
  BY <1>0 DEF Word, Width
<1>3. \A b \in w : 31 - (32 - 1 - b) = b
  BY <1>1
<1>4. {31 - e : e \in Turned(32, w)} = w
  BY <1>3 DEF Turned
<1> QED
  BY <1>2, <1>4 DEF crc32, Complement, w

(* The loop over a message that grows by a byte.                           *)
LEMMA RegisterAppend ==
  ASSUME NEW data \in Seq(Byte), NEW n \in Byte
  PROVE  Register[Append(data, n)] = ByteStep(n)[Register[data]]
<1> DEFINE longer == Append(data, n)
<1>1. PICK l \in Nat : l = Len(data)
  OBVIOUS
<1>2. /\ longer \in Seq(Byte) /\ Len(longer) = l + 1 /\ longer[l + 1] = n
      /\ \A i \in 1 .. l : longer[i] = data[i]
  BY <1>1
<1> HIDE DEF longer
<1>3. PICK c \in [0 .. l -> Word] :
        /\ c[0] = AllOnes
        /\ \A i \in 1 .. l : c[i] = ByteStep(data[i])[c[i - 1]]
        /\ Register[data] = c[l]
  BY <1>1, RegisterRuns
<1>4. PICK h \in [0 .. l + 1 -> Word] :
        /\ h[0] = AllOnes
        /\ \A i \in 1 .. l + 1 : h[i] = ByteStep(longer[i])[h[i - 1]]
        /\ Register[longer] = h[l + 1]
  <2>1. PICK h \in [0 .. Len(longer) -> Word] :
          /\ h[0] = AllOnes
          /\ \A i \in 1 .. Len(longer) : h[i] = ByteStep(longer[i])[h[i - 1]]
          /\ Register[longer] = h[Len(longer)]
    BY <1>2, RegisterRuns, Zenon
  <2> QED
    BY <1>2, <2>1, Zenon
<1> DEFINE S == {i \in Nat : i <= l => h[i] = c[i]}
<1>5. 0 \in S
  BY <1>3, <1>4
<1>6. ASSUME NEW i \in Nat, i \in S PROVE i + 1 \in S
  <2> SUFFICES ASSUME i + 1 <= l PROVE h[i + 1] = c[i + 1]
    OBVIOUS
  <2>1. /\ i + 1 \in 1 .. l /\ i + 1 \in 1 .. l + 1 /\ (i + 1) - 1 = i
        /\ h[i] = c[i]
    BY <1>6
  <2>2. h[i + 1] = ByteStep(longer[i + 1])[h[i]]
    BY <1>4, <2>1
  <2>3. c[i + 1] = ByteStep(data[i + 1])[c[i]]
    BY <1>3, <2>1
  <2> QED
    BY <1>2, <2>1, <2>2, <2>3
<1>7. h[l] = c[l]
  <2> HIDE DEF S
  <2>1. l \in S
    BY <1>5, <1>6, NumbersOf
  <2> QED
    BY <2>1 DEF S
<1>8. h[l + 1] = ByteStep(longer[l + 1])[h[l]]
  <2>1. l + 1 \in 1 .. l + 1 /\ (l + 1) - 1 = l
    OBVIOUS
  <2> QED
    BY <1>4, <2>1
<1> QED
  BY <1>2, <1>3, <1>4, <1>7, <1>8 DEF longer

LEMMA SentCrcStep ==
  ASSUME CrcInv, sent_crc = Register[message], [CrcNext]_crcVars
  PROVE  sent_crc' = Register[message']
<1>1. message \in Seq(Byte)
  BY DEF CrcInv, CrcTypeOK
<1>2. ASSUME NEW n \in Alphabet, Send(n)
      PROVE  sent_crc' = Register[message']
  <2>1. n \in Byte
    BY AlphabetAssumption
  <2>2. sent_crc' = ByteStep(n)[Register[message]] /\ message' = Append(message, n)
    BY <1>2 DEF Send
  <2> QED
    BY <1>1, <2>1, <2>2, RegisterAppend
<1>3. CASE CrcNext
  BY <1>2, <1>3 DEF CrcNext, ReadByte, ReadDamagedByte
<1>4. CASE UNCHANGED crcVars
  BY <1>4 DEF crcVars
<1> QED
  BY <1>3, <1>4

(* crc32() is the CRC-32 that division by the generator defines, for       *)
(* messages of any length, and the loop holds it byte by byte.             *)
THEOREM LoopDivides == CrcSpec => []MatchesDivision
<1>1. CrcInit => sent_crc = Register[message]
  <2>1. Register[<<>>] = AllOnes
    <3>1. <<>> \in Seq(Byte) /\ Len(<<>>) = 0
      OBVIOUS
    <3> QED
      BY <3>1, RegisterRuns
  <2> QED
    BY <2>1 DEF CrcInit
<1>2. CrcInv /\ sent_crc = Register[message] /\ [CrcNext]_crcVars
        => (sent_crc = Register[message])'
  BY SentCrcStep
<1>3. CrcInv /\ sent_crc = Register[message] => MatchesDivision
  BY CrcIsDivision DEF CrcInv, CrcTypeOK, MatchesDivision
<1> QED
  BY <1>1, <1>2, <1>3, CrcInvariant, PTL DEF CrcSpec

-----------------------------------------------------------------------------
(* A size is determined by its bits.                                       *)

LEMMA WordOfType ==
  ASSUME NEW n \in Nat
  PROVE  WordOf(n) \in Word
BY DEF WordOf, Word, Width

LEMMA SameHalves ==
  ASSUME NEW i \in Nat, NEW j \in Nat,
         i % 2 = 1 <=> j % 2 = 1, i \div 2 = j \div 2
  PROVE  i = j
OBVIOUS

LEMMA WordOfInjective ==
  ASSUME NEW m \in Nat, NEW n \in Nat, m < 4096, n < 4096,
         WordOf(m) = WordOf(n)
  PROVE  m = n
<1> DEFINE Bit(i, b) == (i \div BitValue[b + 1]) % 2 = 1
<1>1. ASSUME NEW i, NEW b \in 0 .. 11 PROVE b \in WordOf(i) <=> Bit(i, b)
  BY <1>1 DEF WordOf
<1>2. ASSUME NEW b \in 0 .. 11 PROVE Bit(m, b) <=> Bit(n, b)
  <2>1. b \in WordOf(m) <=> Bit(m, b)
    BY <1>1, <1>2
  <2>2. b \in WordOf(n) <=> Bit(n, b)
    BY <1>1, <1>2
  <2> HIDE DEF Bit
  <2> QED
    BY <2>1, <2>2
<1>3. m \div 4096 = n \div 4096
  OBVIOUS
<1>4. m \div 2048 = n \div 2048
  <2>1. (m \div 2048) % 2 = 1 <=> (n \div 2048) % 2 = 1
    <3>1. BitValue[11 + 1] = 2048
      BY DEF BitValue
    <3>2. Bit(m, 11) <=> Bit(n, 11)
      BY <1>2
    <3> QED
      BY <3>1, <3>2
  <2>2. (m \div 2048) \div 2 = m \div 4096
    OBVIOUS
  <2>3. (n \div 2048) \div 2 = n \div 4096
    OBVIOUS
  <2>4. m \div 2048 \in Nat
    OBVIOUS
  <2>5. n \div 2048 \in Nat
    OBVIOUS
  <2> QED
    BY <1>3, <2>1, <2>2, <2>3, <2>4, <2>5, SameHalves
<1>5. m \div 1024 = n \div 1024
  <2>1. (m \div 1024) % 2 = 1 <=> (n \div 1024) % 2 = 1
    <3>1. BitValue[10 + 1] = 1024
      BY DEF BitValue
    <3>2. Bit(m, 10) <=> Bit(n, 10)
      BY <1>2
    <3> QED
      BY <3>1, <3>2
  <2>2. (m \div 1024) \div 2 = m \div 2048
    OBVIOUS
  <2>3. (n \div 1024) \div 2 = n \div 2048
    OBVIOUS
  <2>4. m \div 1024 \in Nat
    OBVIOUS
  <2>5. n \div 1024 \in Nat
    OBVIOUS
  <2> QED
    BY <1>4, <2>1, <2>2, <2>3, <2>4, <2>5, SameHalves
<1>6. m \div 512 = n \div 512
  <2>1. (m \div 512) % 2 = 1 <=> (n \div 512) % 2 = 1
    <3>1. BitValue[9 + 1] = 512
      BY DEF BitValue
    <3>2. Bit(m, 9) <=> Bit(n, 9)
      BY <1>2
    <3> QED
      BY <3>1, <3>2
  <2>2. (m \div 512) \div 2 = m \div 1024
    OBVIOUS
  <2>3. (n \div 512) \div 2 = n \div 1024
    OBVIOUS
  <2>4. m \div 512 \in Nat
    OBVIOUS
  <2>5. n \div 512 \in Nat
    OBVIOUS
  <2> QED
    BY <1>5, <2>1, <2>2, <2>3, <2>4, <2>5, SameHalves
<1>7. m \div 256 = n \div 256
  <2>1. (m \div 256) % 2 = 1 <=> (n \div 256) % 2 = 1
    <3>1. BitValue[8 + 1] = 256
      BY DEF BitValue
    <3>2. Bit(m, 8) <=> Bit(n, 8)
      BY <1>2
    <3> QED
      BY <3>1, <3>2
  <2>2. (m \div 256) \div 2 = m \div 512
    OBVIOUS
  <2>3. (n \div 256) \div 2 = n \div 512
    OBVIOUS
  <2>4. m \div 256 \in Nat
    OBVIOUS
  <2>5. n \div 256 \in Nat
    OBVIOUS
  <2> QED
    BY <1>6, <2>1, <2>2, <2>3, <2>4, <2>5, SameHalves
<1>8. m \div 128 = n \div 128
  <2>1. (m \div 128) % 2 = 1 <=> (n \div 128) % 2 = 1
    <3>1. BitValue[7 + 1] = 128
      BY DEF BitValue
    <3>2. Bit(m, 7) <=> Bit(n, 7)
      BY <1>2
    <3> QED
      BY <3>1, <3>2
  <2>2. (m \div 128) \div 2 = m \div 256
    OBVIOUS
  <2>3. (n \div 128) \div 2 = n \div 256
    OBVIOUS
  <2>4. m \div 128 \in Nat
    OBVIOUS
  <2>5. n \div 128 \in Nat
    OBVIOUS
  <2> QED
    BY <1>7, <2>1, <2>2, <2>3, <2>4, <2>5, SameHalves
<1>9. m \div 64 = n \div 64
  <2>1. (m \div 64) % 2 = 1 <=> (n \div 64) % 2 = 1
    <3>1. BitValue[6 + 1] = 64
      BY DEF BitValue
    <3>2. Bit(m, 6) <=> Bit(n, 6)
      BY <1>2
    <3> QED
      BY <3>1, <3>2
  <2>2. (m \div 64) \div 2 = m \div 128
    OBVIOUS
  <2>3. (n \div 64) \div 2 = n \div 128
    OBVIOUS
  <2>4. m \div 64 \in Nat
    OBVIOUS
  <2>5. n \div 64 \in Nat
    OBVIOUS
  <2> QED
    BY <1>8, <2>1, <2>2, <2>3, <2>4, <2>5, SameHalves
<1>10. m \div 32 = n \div 32
  <2>1. (m \div 32) % 2 = 1 <=> (n \div 32) % 2 = 1
    <3>1. BitValue[5 + 1] = 32
      BY DEF BitValue
    <3>2. Bit(m, 5) <=> Bit(n, 5)
      BY <1>2
    <3> QED
      BY <3>1, <3>2
  <2>2. (m \div 32) \div 2 = m \div 64
    OBVIOUS
  <2>3. (n \div 32) \div 2 = n \div 64
    OBVIOUS
  <2>4. m \div 32 \in Nat
    OBVIOUS
  <2>5. n \div 32 \in Nat
    OBVIOUS
  <2> QED
    BY <1>9, <2>1, <2>2, <2>3, <2>4, <2>5, SameHalves
<1>11. m \div 16 = n \div 16
  <2>1. (m \div 16) % 2 = 1 <=> (n \div 16) % 2 = 1
    <3>1. BitValue[4 + 1] = 16
      BY DEF BitValue
    <3>2. Bit(m, 4) <=> Bit(n, 4)
      BY <1>2
    <3> QED
      BY <3>1, <3>2
  <2>2. (m \div 16) \div 2 = m \div 32
    OBVIOUS
  <2>3. (n \div 16) \div 2 = n \div 32
    OBVIOUS
  <2>4. m \div 16 \in Nat
    OBVIOUS
  <2>5. n \div 16 \in Nat
    OBVIOUS
  <2> QED
    BY <1>10, <2>1, <2>2, <2>3, <2>4, <2>5, SameHalves
<1>12. m \div 8 = n \div 8
  <2>1. (m \div 8) % 2 = 1 <=> (n \div 8) % 2 = 1
    <3>1. BitValue[3 + 1] = 8
      BY DEF BitValue
    <3>2. Bit(m, 3) <=> Bit(n, 3)
      BY <1>2
    <3> QED
      BY <3>1, <3>2
  <2>2. (m \div 8) \div 2 = m \div 16
    OBVIOUS
  <2>3. (n \div 8) \div 2 = n \div 16
    OBVIOUS
  <2>4. m \div 8 \in Nat
    OBVIOUS
  <2>5. n \div 8 \in Nat
    OBVIOUS
  <2> QED
    BY <1>11, <2>1, <2>2, <2>3, <2>4, <2>5, SameHalves
<1>13. m \div 4 = n \div 4
  <2>1. (m \div 4) % 2 = 1 <=> (n \div 4) % 2 = 1
    <3>1. BitValue[2 + 1] = 4
      BY DEF BitValue
    <3>2. Bit(m, 2) <=> Bit(n, 2)
      BY <1>2
    <3> QED
      BY <3>1, <3>2
  <2>2. (m \div 4) \div 2 = m \div 8
    OBVIOUS
  <2>3. (n \div 4) \div 2 = n \div 8
    OBVIOUS
  <2>4. m \div 4 \in Nat
    OBVIOUS
  <2>5. n \div 4 \in Nat
    OBVIOUS
  <2> QED
    BY <1>12, <2>1, <2>2, <2>3, <2>4, <2>5, SameHalves
<1>14. m \div 2 = n \div 2
  <2>1. (m \div 2) % 2 = 1 <=> (n \div 2) % 2 = 1
    <3>1. BitValue[1 + 1] = 2
      BY DEF BitValue
    <3>2. Bit(m, 1) <=> Bit(n, 1)
      BY <1>2
    <3> QED
      BY <3>1, <3>2
  <2>2. (m \div 2) \div 2 = m \div 4
    OBVIOUS
  <2>3. (n \div 2) \div 2 = n \div 4
    OBVIOUS
  <2>4. m \div 2 \in Nat
    OBVIOUS
  <2>5. n \div 2 \in Nat
    OBVIOUS
  <2> QED
    BY <1>13, <2>1, <2>2, <2>3, <2>4, <2>5, SameHalves
<1>15. m = n
  <2>1. m % 2 = 1 <=> n % 2 = 1
    <3>1. BitValue[0 + 1] = 1
      BY DEF BitValue
    <3>2. Bit(m, 0) <=> Bit(n, 0)
      BY <1>2
    <3> QED
      BY <3>1, <3>2, m \div 1 = m, n \div 1 = n
  <2>2. m \div 2 = m \div 2
    OBVIOUS
  <2>3. n \div 2 = n \div 2
    OBVIOUS
  <2>4. m \in Nat
    OBVIOUS
  <2>5. n \in Nat
    OBVIOUS
  <2> QED
    BY <1>14, <2>1, <2>2, <2>3, <2>4, <2>5, SameHalves
<1> QED
  BY <1>15

LEMMA LengthIsNumber ==
  ASSUME NEW n \in Nat, n < 4096
  PROVE  /\ ~TooLarge(WordOf(n)) <=> n <= kMaxPayloadSize
         /\ n <= kMaxPayloadSize =>
              (CHOOSE k \in 0 .. kMaxPayloadSize : WordOf(k) = WordOf(n)) = n
<1>1. ASSUME NEW k \in 0 .. kMaxPayloadSize, WordOf(k) = WordOf(n)
      PROVE  k = n
  <2>1. k \in Nat /\ k < 4096
    BY <1>1, CodecAssumption
  <2> QED
    BY <1>1, <2>1, WordOfInjective
<1>2. ~TooLarge(WordOf(n)) <=>
        \E k \in 0 .. kMaxPayloadSize : WordOf(k) = WordOf(n)
  BY DEF TooLarge, LengthsUpTo
<1>3. n <= kMaxPayloadSize <=> n \in 0 .. kMaxPayloadSize
  BY CodecAssumption
<1>4. ~TooLarge(WordOf(n)) <=> n <= kMaxPayloadSize
  BY <1>1, <1>2, <1>3
<1>5. n <= kMaxPayloadSize =>
        (CHOOSE k \in 0 .. kMaxPayloadSize : WordOf(k) = WordOf(n)) = n
  BY <1>1, <1>3
<1> QED
  BY <1>4, <1>5

-----------------------------------------------------------------------------
(* Big endian bytes.                                                       *)

LEMMA BigEndianType ==
  ASSUME NEW w
  PROVE  /\ append_u16(w) \in Seq(Byte) /\ Len(append_u16(w)) = 2
         /\ append_u32(w) \in Seq(Byte) /\ Len(append_u32(w)) = 4
<1>1. \A n \in Nat : BigEndian(w, n) \in [1 .. n -> Byte]
  BY DEF BigEndian, Byte
<1>2. \A n \in Nat : BigEndian(w, n) \in Seq(Byte) /\ Len(BigEndian(w, n)) = n
  BY <1>1
<1> QED
  BY <1>2 DEF append_u16, append_u32

(* Four bytes of data are those of w: they are read as w, and nothing else *)
(* is written for w.                                                       *)
LEMMA ReadAppended ==
  ASSUME NEW data, NEW k \in Nat, NEW w \in Word,
         \A i \in 1 .. 4 : data[k + i] = append_u32(w)[i]
  PROVE  read_u32(data, k) = w
<1>1. ASSUME NEW b \in 0 .. 31
      PROVE  b % 8 \in data[k + 4 - b \div 8] <=> b \in w
  <2>1. /\ 4 - b \div 8 \in 1 .. 4 /\ b % 8 \in 0 .. 7
        /\ (b % 8) + 8 * (4 - (4 - b \div 8)) = b
        /\ k + 4 - b \div 8 = k + (4 - b \div 8)
    OBVIOUS
  <2>2. data[k + 4 - b \div 8] =
          {c \in 0 .. 7 : c + 8 * (4 - (4 - b \div 8)) \in w}
    BY <2>1 DEF append_u32, BigEndian
  <2> QED
    BY <2>1, <2>2
<1>2. \A b \in w : b \in 0 .. 31
  BY DEF Word, Width
<1>3. read_u32(data, k) = {b \in 0 .. 31 : b % 8 \in data[k + 4 - b \div 8]}
  BY DEF read_u32, FromBigEndian
<1> QED
  BY <1>1, <1>2, <1>3

LEMMA AppendRead ==
  ASSUME NEW data, NEW k \in Nat,
         \A i \in 1 .. 4 : data[k + i] \in Byte
  PROVE  /\ read_u32(data, k) \in Word
         /\ \A i \in 1 .. 4 : append_u32(read_u32(data, k))[i] = data[k + i]
<1>1. read_u32(data, k) = {b \in 0 .. 31 : b % 8 \in data[k + 4 - b \div 8]}
  BY DEF read_u32, FromBigEndian
<1>2. ASSUME NEW i \in 1 .. 4
      PROVE  append_u32(read_u32(data, k))[i] = data[k + i]
  <2>1. append_u32(read_u32(data, k))[i] =
          {c \in 0 .. 7 : c + 8 * (4 - i) \in read_u32(data, k)}
    BY DEF append_u32, BigEndian
  <2>2. ASSUME NEW c \in 0 .. 7
        PROVE  /\ c + 8 * (4 - i) \in 0 .. 31 /\ (c + 8 * (4 - i)) % 8 = c
               /\ k + 4 - (c + 8 * (4 - i)) \div 8 = k + i
    BY <2>2
  <2>3. data[k + i] \subseteq 0 .. 7
    BY DEF Byte
  <2> QED
    BY <1>1, <2>1, <2>2, <2>3
<1> QED
  BY <1>1, <1>2 DEF Word, Width

-----------------------------------------------------------------------------
(* What the checksum covers; it is part of the header.                     *)
Checksum(type, sequence, length, payload) ==
  crc32(make_crc_input(type, sequence, length, payload))

LEMMA ChecksumType ==
  ASSUME NEW type, NEW sequence, NEW length, NEW payload
  PROVE  Checksum(type, sequence, length, payload) \in Word
BY DEF Checksum, crc32, Complement, AllOnes, Word

ChecksumOf(p) ==
  Checksum(p.type, p.sequence, WordOf(Len(p.payload)), p.payload)

(* x is s, with m elements, followed by t, with n elements.                *)
Joined(x, S, s, t, m, n) ==
  /\ x \in Seq(S) /\ Len(x) = m + n
  /\ \A i \in Nat : 1 <= i /\ i <= m => x[i] = s[i]
  /\ \A i \in Nat : 1 <= i /\ i <= n => x[m + i] = t[i]

LEMMA ConcatJoins ==
  \A S : \A s, t \in Seq(S) : \A m, n \in Nat :
    Len(s) = m /\ Len(t) = n => Joined(s \o t, S, s, t, m, n)
<1> SUFFICES ASSUME NEW S, NEW s \in Seq(S), NEW t \in Seq(S),
                    NEW m \in Nat, NEW n \in Nat, Len(s) = m, Len(t) = n
             PROVE  Joined(s \o t, S, s, t, m, n)
  OBVIOUS
<1>1. /\ s \o t \in Seq(S) /\ Len(s \o t) = Len(s) + Len(t)
      /\ \A i \in 1 .. Len(s) + Len(t) :
           (s \o t)[i] = IF i <= Len(s) THEN s[i] ELSE t[i - Len(s)]
  BY ConcatProperties
<1>2. ASSUME NEW i \in Nat, 1 <= i, i <= m PROVE (s \o t)[i] = s[i]
  <2>1. i \in 1 .. Len(s) + Len(t) /\ i <= Len(s)
    BY <1>2
  <2> QED
    BY <1>1, <2>1
<1>3. ASSUME NEW i \in Nat, 1 <= i, i <= n PROVE (s \o t)[m + i] = t[i]
  <2>1. /\ m + i \in 1 .. Len(s) + Len(t)
        /\ ~(m + i <= Len(s)) /\ (m + i) - Len(s) = i
    BY <1>3
  <2> QED
    BY <1>1, <2>1
<1> QED
  BY <1>1, <1>2, <1>3 DEF Joined

(* The 16 bytes of a header.                                               *)
LEMMA HeaderBytes ==
  ASSUME NEW p \in Packet
  PROVE  /\ Header(p) \in Seq(Byte) /\ Len(Header(p)) = 16
         /\ \A i \in 1 .. 2 : Header(p)[i] = append_u16(kMagic)[i]
         /\ Header(p)[3] = kVersion
         /\ Header(p)[4] = p.type
         /\ \A i \in 1 .. 4 : Header(p)[4 + i] = append_u32(p.sequence)[i]
         /\ \A i \in 1 .. 4 :
              Header(p)[8 + i] = append_u32(WordOf(Len(p.payload)))[i]
         /\ \A i \in 1 .. 4 : Header(p)[12 + i] = append_u32(ChecksumOf(p))[i]
<1> DEFINE a == append_u16(kMagic)
           b == <<kVersion, p.type>>
           c == append_u32(p.sequence)
           d == append_u32(WordOf(Len(p.payload)))
           e == append_u32(ChecksumOf(p))
<1>1. Header(p) = a \o b \o c \o d \o e
  BY DEF Header, ChecksumOf, Checksum
<1>2. /\ a \in Seq(Byte) /\ Len(a) = 2 /\ c \in Seq(Byte) /\ Len(c) = 4
      /\ d \in Seq(Byte) /\ Len(d) = 4 /\ e \in Seq(Byte) /\ Len(e) = 4
  BY BigEndianType
<1>3. b \in Seq(Byte) /\ Len(b) = 2 /\ b[1] = kVersion /\ b[2] = p.type
  BY DEF Packet, Byte, kVersion
<1> DEFINE ab == a \o b
           abc == ab \o c
           abcd == abc \o d
           abcde == abcd \o e
<1> HIDE DEF a, b, c, d, e
<1>0. 2 \in Nat /\ 4 \in Nat /\ 8 \in Nat /\ 12 \in Nat
  OBVIOUS
<1>4. /\ ab \in Seq(Byte) /\ Len(ab) = 4
      /\ \A i \in 1 .. 2 : ab[i] = a[i]
      /\ \A i \in 1 .. 2 : ab[2 + i] = b[i]
  <2>1. Joined(ab, Byte, a, b, 2, 2)
    BY <1>0, <1>2, <1>3, ConcatJoins, Zenon
  <2> HIDE DEF ab
  <2> QED
    BY <2>1 DEF Joined
<1> HIDE DEF ab
<1>5. /\ abc \in Seq(Byte) /\ Len(abc) = 8
      /\ \A i \in 1 .. 4 : abc[i] = ab[i]
      /\ \A i \in 1 .. 4 : abc[4 + i] = c[i]
  <2>1. Joined(abc, Byte, ab, c, 4, 4)
    BY <1>0, <1>2, <1>4, ConcatJoins, Zenon
  <2> HIDE DEF abc
  <2> QED
    BY <2>1 DEF Joined
<1> HIDE DEF abc
<1>6. /\ abcd \in Seq(Byte) /\ Len(abcd) = 12
      /\ \A i \in 1 .. 8 : abcd[i] = abc[i]
      /\ \A i \in 1 .. 4 : abcd[8 + i] = d[i]
  <2>1. Joined(abcd, Byte, abc, d, 8, 4)
    BY <1>0, <1>2, <1>5, ConcatJoins, Zenon
  <2> HIDE DEF abcd
  <2> QED
    BY <2>1 DEF Joined
<1> HIDE DEF abcd
<1>7. /\ abcde \in Seq(Byte) /\ Len(abcde) = 16
      /\ \A i \in 1 .. 12 : abcde[i] = abcd[i]
      /\ \A i \in 1 .. 4 : abcde[12 + i] = e[i]
  <2>1. Joined(abcde, Byte, abcd, e, 12, 4)
    BY <1>0, <1>2, <1>6, ConcatJoins, Zenon
  <2> HIDE DEF abcde
  <2> QED
    BY <2>1 DEF Joined
<1> HIDE DEF abcde
<1>8. Header(p) = abcde
  BY <1>1 DEF ab, abc, abcd, abcde
<1>9. \A i \in 1 .. 8 : abcde[i] = abc[i]
  BY <1>6, <1>7
<1>10. \A i \in 1 .. 4 : abcde[i] = ab[i]
  BY <1>5, <1>9
<1>11. \A i \in 1 .. 2 : abcde[i] = a[i]
  BY <1>4, <1>10
<1>12. abcde[3] = kVersion /\ abcde[4] = p.type
  <2>1. /\ abcde[2 + 1] = ab[2 + 1] /\ abcde[2 + 2] = ab[2 + 2]
        /\ ab[2 + 1] = b[1] /\ ab[2 + 2] = b[2]
    BY <1>4, <1>10
  <2> QED
    BY <1>3, <2>1
<1>13. ASSUME NEW i \in 1 .. 4 PROVE abcde[4 + i] = c[i]
  <2>1. 4 + i \in 1 .. 8
    BY <1>13
  <2> QED
    BY <1>5, <1>9, <1>13, <2>1
<1>14. ASSUME NEW i \in 1 .. 4 PROVE abcde[8 + i] = d[i]
  <2>1. 8 + i \in 1 .. 12
    BY <1>14
  <2> QED
    BY <1>6, <1>7, <1>14, <2>1
<1>15. /\ Header(p) \in Seq(Byte) /\ Len(Header(p)) = 16
       /\ Header(p)[3] = kVersion /\ Header(p)[4] = p.type
       /\ \A i \in 1 .. 2 : Header(p)[i] = append_u16(kMagic)[i]
  BY <1>7, <1>8, <1>11, <1>12 DEF a
<1>16. \A i \in 1 .. 4 : Header(p)[4 + i] = append_u32(p.sequence)[i]
  BY <1>8, <1>13 DEF c
<1>17. \A i \in 1 .. 4 :
         Header(p)[8 + i] = append_u32(WordOf(Len(p.payload)))[i]
  BY <1>8, <1>14 DEF d
<1>18. \A i \in 1 .. 4 : Header(p)[12 + i] = append_u32(ChecksumOf(p))[i]
  BY <1>7, <1>8 DEF e
<1> QED
  BY <1>15, <1>16, <1>17, <1>18

LEMMA MagicRead ==
  ASSUME NEW data
  PROVE  /\ (\A i \in 1 .. 2 : data[i] = append_u16(kMagic)[i])
              => read_u16(data, 0) = kMagic
         /\ (\A i \in 1 .. 2 : data[i] \in Byte) /\ read_u16(data, 0) = kMagic
              => \A i \in 1 .. 2 : data[i] = append_u16(kMagic)[i]
<1>1. /\ append_u16(kMagic)[1] = {b \in 0 .. 7 : b + 8 \in kMagic}
      /\ append_u16(kMagic)[2] = {b \in 0 .. 7 : b \in kMagic}
  BY DEF append_u16, BigEndian
<1>2. read_u16(data, 0) = {b \in 0 .. 15 : b % 8 \in data[2 - b \div 8]}
  BY DEF read_u16, FromBigEndian
<1>3. \A b \in 0 .. 7 : /\ b \in 0 .. 15 /\ b % 8 = b /\ 2 - b \div 8 = 2
                        /\ b + 8 \in 0 .. 15 /\ (b + 8) % 8 = b
                        /\ 2 - (b + 8) \div 8 = 1
  OBVIOUS
<1>4. \A b \in 0 .. 15 : b \in 0 .. 7 \/ b - 8 \in 0 .. 7
  OBVIOUS
<1>5. kMagic \subseteq 0 .. 15
  BY DEF kMagic
<1>6. ASSUME \A i \in 1 .. 2 : data[i] = append_u16(kMagic)[i]
      PROVE  read_u16(data, 0) = kMagic
  <2>1. /\ data[1] = {b \in 0 .. 7 : b + 8 \in kMagic}
        /\ data[2] = {b \in 0 .. 7 : b \in kMagic}
    BY <1>1, <1>6
  <2>2. ASSUME NEW b \in 0 .. 15 PROVE b % 8 \in data[2 - b \div 8] <=> b \in kMagic
    <3>1. CASE b \in 0 .. 7
      BY <1>3, <2>1, <3>1
    <3>2. CASE b - 8 \in 0 .. 7
      <4>1. b % 8 = b - 8 /\ 2 - b \div 8 = 1 /\ (b - 8) + 8 = b
        BY <3>2
      <4> QED
        BY <2>1, <3>2, <4>1
    <3> QED
      BY <1>4, <2>2, <3>1, <3>2
  <2> QED
    BY <1>2, <1>5, <2>2
<1>7. ASSUME \A i \in 1 .. 2 : data[i] \in Byte, read_u16(data, 0) = kMagic
      PROVE  \A i \in 1 .. 2 : data[i] = append_u16(kMagic)[i]
  <2>1. data[1] \subseteq 0 .. 7 /\ data[2] \subseteq 0 .. 7
    BY <1>7 DEF Byte
  <2>2. \A b \in 0 .. 7 : b \in data[2] <=> b \in kMagic
    BY <1>2, <1>3, <1>7
  <2>3. \A b \in 0 .. 7 : b \in data[1] <=> b + 8 \in kMagic
    BY <1>2, <1>3, <1>7
  <2>4. data[1] = append_u16(kMagic)[1] /\ data[2] = append_u16(kMagic)[2]
    BY <1>1, <2>1, <2>2, <2>3
  <2> QED
    BY <2>4
<1> QED
  BY <1>6, <1>7

-----------------------------------------------------------------------------
(* Reading a header that was written.                                      *)
LEMMA HeaderRead ==
  ASSUME NEW p \in Packet
  PROVE  /\ WellFormed(Header(p))
         /\ Header(p)[4] = p.type
         /\ read_u32(Header(p), 4) = p.sequence
         /\ LengthWord(Header(p)) = WordOf(Len(p.payload))
         /\ read_u32(Header(p), 12) = ChecksumOf(p)
<1>1. p.sequence \in Word /\ Len(p.payload) \in Nat
  BY DEF Packet
<1>2. WordOf(Len(p.payload)) \in Word /\ ChecksumOf(p) \in Word
  BY <1>1, WordOfType, ChecksumType DEF ChecksumOf
<1>3. read_u32(Header(p), 4) = p.sequence
  <2>1. \A i \in 1 .. 4 : Header(p)[4 + i] = append_u32(p.sequence)[i]
    BY HeaderBytes
  <2> QED
    BY <1>1, <2>1, ReadAppended
<1>4. read_u32(Header(p), 8) = WordOf(Len(p.payload))
  BY <1>2, HeaderBytes, ReadAppended
<1>5. read_u32(Header(p), 12) = ChecksumOf(p)
  BY <1>2, HeaderBytes, ReadAppended
<1>6. WellFormed(Header(p))
  BY HeaderBytes, MagicRead DEF WellFormed, kHeaderSize
<1> QED
  BY <1>3, <1>4, <1>5, <1>6, HeaderBytes DEF LengthWord

(* A header that is read as that of q has the bytes of q's header.         *)
LEMMA HeaderWritten ==
  ASSUME NEW h \in Seq(Byte), WellFormed(h), NEW q \in Packet,
         q.type = h[4], q.sequence = read_u32(h, 4),
         WordOf(Len(q.payload)) = LengthWord(h), ChecksumOf(q) = read_u32(h, 12)
  PROVE  h = Header(q)
<1>1. Len(h) = 16
  BY DEF WellFormed, kHeaderSize
<1>2. \A i \in 1 .. 16 : h[i] \in Byte
  BY <1>1, ElementOfSeq
<1>3. h[1] = Header(q)[1] /\ h[2] = Header(q)[2]
  <2>1. \A i \in 1 .. 2 : h[i] \in Byte
    BY <1>2
  <2>2. \A i \in 1 .. 2 : h[i] = append_u16(kMagic)[i]
    BY <2>1, MagicRead DEF WellFormed
  <2> QED
    BY <2>2, HeaderBytes
<1>4. h[3] = Header(q)[3] /\ h[4] = Header(q)[4]
  BY HeaderBytes DEF WellFormed
<1>5. \A i \in 1 .. 4 : h[4 + i] = Header(q)[4 + i]
  <2>1. \A i \in 1 .. 4 : h[4 + i] \in Byte
    BY <1>2
  <2>2. \A i \in 1 .. 4 : append_u32(read_u32(h, 4))[i] = h[4 + i]
    BY <2>1, AppendRead
  <2>3. \A i \in 1 .. 4 : Header(q)[4 + i] = append_u32(q.sequence)[i]
    BY HeaderBytes
  <2>4. q.sequence = read_u32(h, 4)
    OBVIOUS
  <2> QED
    BY <2>2, <2>3, <2>4
<1>6. \A i \in 1 .. 4 : h[8 + i] = Header(q)[8 + i]
  <2>1. \A i \in 1 .. 4 : h[8 + i] \in Byte
    BY <1>2
  <2>2. \A i \in 1 .. 4 : append_u32(read_u32(h, 8))[i] = h[8 + i]
    BY <2>1, AppendRead
  <2>3. \A i \in 1 .. 4 : Header(q)[8 + i] = append_u32(WordOf(Len(q.payload)))[i]
    BY HeaderBytes
  <2>4. WordOf(Len(q.payload)) = read_u32(h, 8)
    BY DEF LengthWord
  <2> QED
    BY <2>2, <2>3, <2>4
<1>7. \A i \in 1 .. 4 : h[12 + i] = Header(q)[12 + i]
  <2>1. \A i \in 1 .. 4 : h[12 + i] \in Byte
    BY <1>2
  <2>2. \A i \in 1 .. 4 : append_u32(read_u32(h, 12))[i] = h[12 + i]
    BY <2>1, AppendRead
  <2>3. \A i \in 1 .. 4 : Header(q)[12 + i] = append_u32(ChecksumOf(q))[i]
    BY HeaderBytes
  <2>4. ChecksumOf(q) = read_u32(h, 12)
    OBVIOUS
  <2> QED
    BY <2>2, <2>3, <2>4
<1>8. ASSUME NEW i \in 1 .. 16 PROVE h[i] = Header(q)[i]
  <2>1. CASE i \in 1 .. 4
    BY <1>3, <1>4, <2>1
  <2>2. CASE i \in 5 .. 8
    <3>1. i - 4 \in 1 .. 4 /\ 4 + (i - 4) = i
      BY <2>2
    <3> QED
      BY <1>5, <3>1
  <2>3. CASE i \in 9 .. 12
    <3>1. i - 8 \in 1 .. 4 /\ 8 + (i - 8) = i
      BY <2>3
    <3> QED
      BY <1>6, <3>1
  <2>4. CASE i \in 13 .. 16
    <3>1. i - 12 \in 1 .. 4 /\ 12 + (i - 12) = i
      BY <2>4
    <3> QED
      BY <1>7, <3>1
  <2> QED
    BY <1>8, <2>1, <2>2, <2>3, <2>4
<1>9. Header(q) \in Seq(Byte) /\ Len(Header(q)) = 16
  BY HeaderBytes
<1> QED
  BY <1>1, <1>8, <1>9, SeqEqual

-----------------------------------------------------------------------------
(* x is s, with k elements, followed by t, with n elements.                *)
Splits(x, S, s, t, k, n) ==
  /\ x \in Seq(S) /\ Len(x) = k + n
  /\ SubSeq(x, 1, k) = s
  /\ SubSeq(x, k + 1, k + n) = t

LEMMA ConcatSplits ==
  \A S : \A s, t \in Seq(S) : \A k, n \in Nat :
    Len(s) = k /\ Len(t) = n /\ k > 0 => Splits(s \o t, S, s, t, k, n)
<1> SUFFICES ASSUME NEW S, NEW s \in Seq(S), NEW t \in Seq(S),
                    NEW k \in Nat, NEW n \in Nat, Len(s) = k, Len(t) = n, k > 0
             PROVE  Splits(s \o t, S, s, t, k, n)
  OBVIOUS
<1>1. s \o t \in Seq(S) /\ Len(s \o t) = k + n
  BY ConcatProperties
<1>2. SubSeq(s \o t, 1, k) = s
  <2>1. SubSeq(s \o t, 1, k) = SubSeq(s, 1, k)
    <3>1. 1 \in 1 .. Len(s) /\ k \in 1 .. Len(s)
      OBVIOUS
    <3> QED
      BY <3>1, SubSeqOfConcat1
  <2>2. SubSeq(s, 1, k) = s
    BY SubSeqFull
  <2> QED
    BY <2>1, <2>2
<1>3. SubSeq(s \o t, k + 1, k + n) = t
  <2>1. CASE n = 0
    <3>1. SubSeq(s \o t, k + 1, k + n) = <<>>
      BY <2>1, SubSeqEmpty
    <3>2. t = <<>>
      BY <2>1
    <3> QED
      BY <3>1, <3>2
  <2>2. CASE n > 0
    <3>1. /\ k + 1 \in Len(s) + 1 .. Len(s) + Len(t)
          /\ k + n \in Len(s) + 1 .. Len(s) + Len(t)
      BY <2>2
    <3>2. SubSeq(s \o t, k + 1, k + n) = SubSeq(t, k + 1 - Len(s), k + n - Len(s))
      BY <3>1, SubSeqOfConcat2
    <3>3. k + 1 - Len(s) = 1 /\ k + n - Len(s) = Len(t)
      OBVIOUS
    <3>4. SubSeq(t, 1, Len(t)) = t
      BY SubSeqFull
    <3> QED
      BY <3>2, <3>3, <3>4, Zenon
  <2> QED
    BY <2>1, <2>2
<1> QED
  BY <1>1, <1>2, <1>3 DEF Splits

(* Header and payload of a packet.                                         *)
LEMMA EncodingSplits ==
  ASSUME NEW p \in Packet
  PROVE  /\ Len(p.payload) \in Nat
         /\ Splits(Encoding(p), Byte, Header(p), p.payload, 16, Len(p.payload))
<1>1. p.payload \in Seq(Byte) /\ Len(p.payload) \in Nat /\ 16 \in Nat /\ 16 > 0
  BY DEF Packet
<1>2. Header(p) \in Seq(Byte) /\ Len(Header(p)) = 16
  BY HeaderBytes
<1> QED
  BY <1>1, <1>2, ConcatSplits, Zenon DEF Encoding

(* What is accepted is the header of the packet it is decoded to.          *)
LEMMA AcceptsOnly ==
  ASSUME NEW h \in Seq(Byte), NEW y \in Seq(Byte), Accepts(h, y)
  PROVE  /\ decode_packet(h, y) \in Packet
         /\ decode_packet(h, y).payload = y
         /\ h = Header(decode_packet(h, y))
<1> DEFINE q == decode_packet(h, y)
<1>1. /\ q = [type |-> h[4], sequence |-> read_u32(h, 4), payload |-> y]
      /\ q.type = h[4] /\ q.sequence = read_u32(h, 4) /\ q.payload = y
  BY DEF decode_packet
<1>2. WellFormed(h) /\ Len(h) = 16
  BY DEF Accepts, WellFormed, kHeaderSize
<1>3. \A i \in 1 .. 16 : h[i] \in Byte
  BY <1>2, ElementOfSeq
<1>4. read_u32(h, 4) \in Word
  <2>1. \A i \in 1 .. 4 : h[4 + i] \in Byte
    BY <1>3
  <2> QED
    BY <2>1, AppendRead
<1>5. q \in Packet
  BY <1>1, <1>3, <1>4 DEF Packet
<1> HIDE DEF q
<1>6. WordOf(Len(q.payload)) = LengthWord(h)
  BY <1>1 DEF Accepts
<1>7. ChecksumOf(q) = read_u32(h, 12)
  BY <1>1, <1>6 DEF Accepts, ChecksumOf, Checksum
<1>8. h = Header(q)
  BY <1>1, <1>2, <1>5, <1>6, <1>7, HeaderWritten
<1> QED
  BY <1>1, <1>5, <1>8 DEF q

-----------------------------------------------------------------------------
(* What the receiving side makes of the header and payload of a packet     *)
(* that is small enough.                                                   *)
LEMMA HeaderTells ==
  ASSUME NEW p \in Packet, Len(p.payload) <= kMaxPayloadSize
  PROVE  /\ HasLength(Header(p))
         /\ get_payload_length(Header(p)) = Len(p.payload)
         /\ Accepts(Header(p), p.payload)
         /\ decode_packet(Header(p), p.payload) = p
<1> DEFINE n == Len(p.payload)
<1>1. n \in Nat /\ n < 4096 /\ n <= kMaxPayloadSize
  BY CodecAssumption DEF Packet
<1>2. LengthWord(Header(p)) = WordOf(n) /\ WellFormed(Header(p))
  BY HeaderRead
<1>3. ~TooLarge(WordOf(n))
  <2> HIDE DEF n
  <2> QED
    BY <1>1, LengthIsNumber
<1>4. get_payload_length(Header(p)) = n
  <2>1. get_payload_length(Header(p)) =
          CHOOSE k \in 0 .. kMaxPayloadSize : WordOf(k) = WordOf(n)
    BY <1>2 DEF get_payload_length
  <2> HIDE DEF n
  <2> QED
    BY <1>1, <2>1, LengthIsNumber
<1>5. Accepts(Header(p), p.payload)
  BY <1>2, <1>3, HeaderRead DEF Accepts, ChecksumOf, Checksum
<1>6. decode_packet(Header(p), p.payload) = p
  BY HeaderRead DEF decode_packet, Packet
<1> QED
  BY <1>2, <1>3, <1>4, <1>5, <1>6 DEF HasLength

LEMMA HeaderFirst ==
  ASSUME NEW p \in Packet
  PROVE  \A i \in 1 .. 16 : Encoding(p)[i] = Header(p)[i]
<1> DEFINE n == Len(p.payload)
           h == Header(p)
           y == p.payload
<1>1. n \in Nat /\ 16 \in Nat /\ y \in Seq(Byte) /\ Len(y) = n
  BY DEF Packet
<1>2. h \in Seq(Byte) /\ Len(h) = 16
  BY HeaderBytes
<1>3. Encoding(p) = h \o y
  BY DEF Encoding
<1> HIDE DEF n, h, y
<1>4. Joined(h \o y, Byte, h, y, 16, n)
  BY <1>1, <1>2, ConcatJoins, Zenon
<1>5. ASSUME NEW i \in 1 .. 16 PROVE (h \o y)[i] = h[i]
  <2>1. i \in Nat /\ 1 <= i /\ i <= 16
    OBVIOUS
  <2> QED
    BY <1>4, <2>1, Zenon DEF Joined
<1> QED
  BY <1>3, <1>5 DEF h

-----------------------------------------------------------------------------
(* The bytes of a packet and the bytes that its checksum covers: they      *)
(* differ by the checksum itself.                                          *)
CrcInput(p) ==
  make_crc_input(p.type, p.sequence, WordOf(Len(p.payload)), p.payload)

LEMMA ChecksumCovers ==
  ASSUME NEW p \in Packet
  PROVE  \E x \in Seq(Byte) :
           /\ Len(x) = 12
           /\ Header(p) = x \o append_u32(ChecksumOf(p))
           /\ CrcInput(p) = x \o p.payload
<1> DEFINE b == <<kVersion, p.type>>
           x == append_u16(kMagic) \o b \o append_u32(p.sequence)
                  \o append_u32(WordOf(Len(p.payload)))
<1>1. b \in Seq(Byte) /\ Len(b) = 2
  BY DEF Packet, Byte, kVersion
<1> HIDE DEF b
<1>2. 2 \in Nat /\ 4 \in Nat /\ 8 \in Nat
  OBVIOUS
<1>3. x \in Seq(Byte) /\ Len(x) = 12
  <2> DEFINE c == append_u16(kMagic)
             d == append_u32(p.sequence)
             e == append_u32(WordOf(Len(p.payload)))
  <2>1. /\ c \in Seq(Byte) /\ Len(c) = 2
        /\ d \in Seq(Byte) /\ Len(d) = 4
        /\ e \in Seq(Byte) /\ Len(e) = 4
    BY BigEndianType
  <2>2. x = ((c \o b) \o d) \o e
    OBVIOUS
  <2> HIDE DEF c, d, e, x
  <2>3. Joined(c \o b, Byte, c, b, 2, 2)
    BY <1>1, <1>2, <2>1, ConcatJoins, Zenon
  <2>4. c \o b \in Seq(Byte) /\ Len(c \o b) = 4
    BY <2>3 DEF Joined
  <2>5. Joined((c \o b) \o d, Byte, c \o b, d, 4, 4)
    BY <1>2, <2>1, <2>4, ConcatJoins, Zenon
  <2>6. (c \o b) \o d \in Seq(Byte) /\ Len((c \o b) \o d) = 8
    BY <2>5 DEF Joined
  <2>7. Joined(((c \o b) \o d) \o e, Byte, (c \o b) \o d, e, 8, 4)
    BY <1>2, <2>1, <2>6, ConcatJoins, Zenon
  <2>8. ((c \o b) \o d) \o e \in Seq(Byte) /\ Len(((c \o b) \o d) \o e) = 12
    BY <2>7 DEF Joined
  <2> QED
    BY <2>2, <2>8
<1>5. Header(p) = x \o append_u32(ChecksumOf(p))
  BY DEF Header, ChecksumOf, Checksum, b
<1>6. CrcInput(p) = x \o p.payload
  BY DEF CrcInput, make_crc_input, b
<1> HIDE DEF x
<1> QED
  BY <1>3, <1>5, <1>6

LEMMA EncodingBytes ==
  ASSUME NEW p \in Packet
  PROVE  /\ Len(p.payload) \in Nat
         /\ CrcInput(p) \in Seq(Byte) /\ Len(CrcInput(p)) = 12 + Len(p.payload)
         /\ Encoding(p) \in Seq(Byte) /\ Len(Encoding(p)) = 16 + Len(p.payload)
         /\ \A i \in Nat : 1 <= i /\ i <= 12 => Encoding(p)[i] = CrcInput(p)[i]
         /\ \A i \in Nat : 1 <= i /\ i <= Len(p.payload) =>
              /\ Encoding(p)[16 + i] = CrcInput(p)[12 + i]
              /\ Encoding(p)[16 + i] = p.payload[i]
         /\ \A i \in Nat : 1 <= i /\ i <= 4 =>
              Encoding(p)[12 + i] = append_u32(ChecksumOf(p))[i]
<1> DEFINE n == Len(p.payload)
           h == Header(p)
           y == p.payload
           c == append_u32(ChecksumOf(p))
           E == Encoding(p)
           I == CrcInput(p)
<1>1. n \in Nat /\ y \in Seq(Byte) /\ Len(y) = n
  BY DEF Packet
<1>2. PICK x \in Seq(Byte) : Len(x) = 12 /\ h = x \o c /\ I = x \o y
  BY ChecksumCovers
<1>3. c \in Seq(Byte) /\ Len(c) = 4
  BY BigEndianType
<1>4. h \in Seq(Byte) /\ Len(h) = 16 /\ E = h \o y
  BY HeaderBytes DEF Encoding
<1>5. 4 \in Nat /\ 12 \in Nat /\ 16 \in Nat
  OBVIOUS
<1> HIDE DEF n, h, y, c, E, I
<1>6. Joined(h, Byte, x, c, 12, 4) /\ Joined(I, Byte, x, y, 12, n)
  BY <1>1, <1>2, <1>3, <1>5, ConcatJoins, Zenon
<1>7. Joined(E, Byte, h, y, 16, n)
  BY <1>1, <1>4, <1>5, ConcatJoins, Zenon
<1>8. I \in Seq(Byte) /\ Len(I) = 12 + n /\ E \in Seq(Byte) /\ Len(E) = 16 + n
  BY <1>6, <1>7 DEF Joined
<1>9. ASSUME NEW i \in Nat, 1 <= i, i <= 12 PROVE E[i] = I[i]
  <2>1. E[i] = h[i]
    BY <1>7, <1>9 DEF Joined
  <2>2. h[i] = x[i] /\ I[i] = x[i]
    BY <1>6, <1>9 DEF Joined
  <2> QED
    BY <2>1, <2>2
<1>10. ASSUME NEW i \in Nat, 1 <= i, i <= n
       PROVE  E[16 + i] = I[12 + i] /\ E[16 + i] = y[i]
  BY <1>6, <1>7, <1>10 DEF Joined
<1>11. ASSUME NEW i \in Nat, 1 <= i, i <= 4 PROVE E[12 + i] = c[i]
  <2>1. 12 + i \in Nat /\ 1 <= 12 + i /\ 12 + i <= 16
    BY <1>11
  <2>2. E[12 + i] = h[12 + i]
    BY <1>7, <2>1 DEF Joined
  <2>3. h[12 + i] = c[i]
    BY <1>6, <1>11 DEF Joined
  <2> QED
    BY <2>2, <2>3
<1> QED
  BY <1>1, <1>8, <1>9, <1>10, <1>11 DEF n, y, c, E, I

(* The four bytes determine the checksum.                                  *)
LEMMA AppendDetermines ==
  \A v, w \in Word :
    (\A i \in 1 .. 4 : append_u32(v)[i] = append_u32(w)[i]) => v = w
<1> SUFFICES ASSUME NEW v \in Word, NEW w \in Word,
                    \A i \in 1 .. 4 : append_u32(v)[i] = append_u32(w)[i]
             PROVE  v = w
  OBVIOUS
<1>1. /\ 0 \in Nat
      /\ \A i \in 1 .. 4 : append_u32(v)[0 + i] = append_u32(v)[i]
      /\ \A i \in 1 .. 4 : append_u32(v)[0 + i] = append_u32(w)[i]
  OBVIOUS
<1>2. read_u32(append_u32(v), 0) = v
  BY <1>1, ReadAppended
<1>3. read_u32(append_u32(v), 0) = w
  BY <1>1, ReadAppended
<1> QED
  BY <1>2, <1>3

(* Two encodings of one length differ in more than one byte: a byte that   *)
(* the checksum covers changes the checksum, and the checksum does not     *)
(* change alone.                                                           *)
LEMMA EncodingsFarApart ==
  ASSUME NEW p \in Packet, NEW q \in Packet, Len(p.payload) = Len(q.payload),
         NEW j \in 1 .. 16 + Len(p.payload), Encoding(p)[j] # Encoding(q)[j]
  PROVE  \E i \in 1 .. 16 + Len(p.payload) :
           i # j /\ Encoding(p)[i] # Encoding(q)[i]
<1> SUFFICES ASSUME \A i \in 1 .. 16 + Len(p.payload) :
                      i # j => Encoding(p)[i] = Encoding(q)[i]
             PROVE  FALSE
  OBVIOUS
<1> DEFINE n == Len(p.payload)
           E == Encoding(p)
           F == Encoding(q)
           I == CrcInput(p)
           J == CrcInput(q)
           a == append_u32(ChecksumOf(p))
           b == append_u32(ChecksumOf(q))
<1>1. /\ n \in Nat
      /\ I \in Seq(Byte) /\ Len(I) = 12 + n
      /\ \A i \in Nat : 1 <= i /\ i <= 12 => E[i] = I[i]
      /\ \A i \in Nat : 1 <= i /\ i <= n => E[16 + i] = I[12 + i]
      /\ \A i \in Nat : 1 <= i /\ i <= 4 => E[12 + i] = a[i]
  BY EncodingBytes
<1>2. /\ J \in Seq(Byte) /\ Len(J) = 12 + n
      /\ \A i \in Nat : 1 <= i /\ i <= 12 => F[i] = J[i]
      /\ \A i \in Nat : 1 <= i /\ i <= n => F[16 + i] = J[12 + i]
      /\ \A i \in Nat : 1 <= i /\ i <= 4 => F[12 + i] = b[i]
  BY EncodingBytes
<1>3. /\ j \in 1 .. 16 + n /\ E[j] # F[j]
      /\ \A i \in 1 .. 16 + n : i # j => E[i] = F[i]
  OBVIOUS
<1>4. ChecksumOf(p) = crc32(I) /\ ChecksumOf(q) = crc32(J)
  BY DEF ChecksumOf, Checksum, CrcInput
<1>5. ChecksumOf(p) \in Word /\ ChecksumOf(q) \in Word
  BY ChecksumType DEF ChecksumOf
<1>6. (\A i \in 1 .. 4 : a[i] = b[i]) => ChecksumOf(p) = ChecksumOf(q)
  <2> HIDE DEF n, E, F, I, J
  <2>1. ASSUME \A i \in 1 .. 4 : a[i] = b[i]
        PROVE  \A i \in 1 .. 4 : append_u32(ChecksumOf(p))[i] =
                                   append_u32(ChecksumOf(q))[i]
    BY <2>1
  <2> HIDE DEF a, b
  <2> QED
    BY <1>5, <2>1, AppendDetermines, Zenon
<1> HIDE DEF n, E, F, I, J, a, b
<1>7. ASSUME NEW k \in 1 .. 12 + n, I[k] # J[k],
             \A i \in 1 .. 12 + n : i # k => I[i] = J[i]
      PROVE  ChecksumOf(p) # ChecksumOf(q)
  <2>1. Len(I) = Len(J) /\ I \in Seq(Byte) /\ J \in Seq(Byte)
    BY <1>1, <1>2
  <2>2. k \in 1 .. Len(I) /\ \A i \in 1 .. Len(I) : i # k => I[i] = J[i]
    BY <1>1, <1>7
  <2>3. crc32(I) # crc32(J)
    BY <1>7, <2>1, <2>2, OneByteShows, Zenon
  <2> QED
    BY <1>4, <2>3
<1>8. CASE j <= 12
  <2>1. \A i \in 1 .. 4 : a[i] = b[i]
    <3> SUFFICES ASSUME NEW i \in 1 .. 4 PROVE a[i] = b[i]
      OBVIOUS
    <3>1. 12 + i \in 1 .. 16 + n /\ 12 + i # j
      BY <1>1, <1>8
    <3> QED
      BY <1>1, <1>2, <1>3, <3>1
  <2>2. j \in 1 .. 12 + n /\ I[j] # J[j]
    BY <1>1, <1>2, <1>3, <1>8
  <2>3. \A i \in 1 .. 12 + n : i # j => I[i] = J[i]
    <3> SUFFICES ASSUME NEW i \in 1 .. 12 + n, i # j PROVE I[i] = J[i]
      OBVIOUS
    <3>1. CASE i <= 12
      <4>1. i \in 1 .. 16 + n /\ i \in Nat /\ 1 <= i
        BY <1>1
      <4> QED
        BY <1>1, <1>2, <1>3, <3>1, <4>1
    <3>2. CASE i > 12
      <4>1. i - 12 \in Nat /\ 1 <= i - 12 /\ i - 12 <= n /\ 12 + (i - 12) = i
        BY <1>1, <3>2
      <4>2. 16 + (i - 12) \in 1 .. 16 + n /\ 16 + (i - 12) # j
        BY <1>1, <1>8, <4>1
      <4>3. E[16 + (i - 12)] = I[12 + (i - 12)] /\ F[16 + (i - 12)] = J[12 + (i - 12)]
        BY <1>1, <1>2, <4>1
      <4>4. E[16 + (i - 12)] = F[16 + (i - 12)]
        BY <1>3, <4>2
      <4> QED
        BY <4>1, <4>3, <4>4
    <3> QED
      BY <1>1, <3>1, <3>2
  <2> QED
    BY <1>6, <1>7, <2>1, <2>2, <2>3
<1>9. CASE 12 < j /\ j <= 16
  <2>1. I = J
    <3>1. ASSUME NEW i \in 1 .. 12 + n PROVE I[i] = J[i]
      <4>1. CASE i <= 12
        <5>1. i \in 1 .. 16 + n /\ i \in Nat /\ 1 <= i /\ i # j
          BY <1>1, <1>9, <4>1
        <5> QED
          BY <1>1, <1>2, <1>3, <4>1, <5>1
      <4>2. CASE i > 12
        <5>1. i - 12 \in Nat /\ 1 <= i - 12 /\ i - 12 <= n /\ 12 + (i - 12) = i
          BY <1>1, <4>2
        <5>2. 16 + (i - 12) \in 1 .. 16 + n /\ 16 + (i - 12) # j
          BY <1>1, <1>9, <5>1
        <5>3. E[16 + (i - 12)] = I[12 + (i - 12)] /\ F[16 + (i - 12)] = J[12 + (i - 12)]
          BY <1>1, <1>2, <5>1
        <5>4. E[16 + (i - 12)] = F[16 + (i - 12)]
          BY <1>3, <5>2
        <5> QED
          BY <5>1, <5>3, <5>4
      <4> QED
        BY <1>1, <4>1, <4>2
    <3> QED
      BY <1>1, <1>2, <3>1, SeqEqual
  <2>2. a = b
    BY <1>4, <2>1 DEF a, b
  <2>3. j - 12 \in Nat /\ 1 <= j - 12 /\ j - 12 <= 4 /\ 12 + (j - 12) = j
    BY <1>1, <1>9
  <2>4. E[12 + (j - 12)] = a[j - 12] /\ F[12 + (j - 12)] = b[j - 12]
    BY <1>1, <1>2, <2>3
  <2> QED
    BY <1>3, <2>2, <2>3, <2>4
<1>10. CASE j > 16
  <2> DEFINE k == j - 4
  <2>1. \A i \in 1 .. 4 : a[i] = b[i]
    <3> SUFFICES ASSUME NEW i \in 1 .. 4 PROVE a[i] = b[i]
      OBVIOUS
    <3>1. 12 + i \in 1 .. 16 + n /\ 12 + i # j
      BY <1>1, <1>10
    <3> QED
      BY <1>1, <1>2, <1>3, <3>1
  <2>2. /\ k \in 1 .. 12 + n /\ k > 12 /\ k - 12 \in Nat
        /\ 1 <= k - 12 /\ k - 12 <= n /\ 16 + (k - 12) = j /\ 12 + (k - 12) = k
    BY <1>1, <1>3, <1>10
  <2> HIDE DEF k
  <2>3. E[16 + (k - 12)] = I[12 + (k - 12)] /\ F[16 + (k - 12)] = J[12 + (k - 12)]
    BY <1>1, <1>2, <2>2
  <2>4. I[k] # J[k]
    BY <1>3, <2>2, <2>3
  <2>5. \A i \in 1 .. 12 + n : i # k => I[i] = J[i]
    <3> SUFFICES ASSUME NEW i \in 1 .. 12 + n, i # k PROVE I[i] = J[i]
      OBVIOUS
    <3>1. CASE i <= 12
      <4>1. i \in 1 .. 16 + n /\ i \in Nat /\ 1 <= i /\ i # j
        BY <1>1, <1>10, <3>1
      <4> QED
        BY <1>1, <1>2, <1>3, <3>1, <4>1
    <3>2. CASE i > 12
      <4>1. i - 12 \in Nat /\ 1 <= i - 12 /\ i - 12 <= n /\ 12 + (i - 12) = i
        BY <1>1, <3>2
      <4>2. 16 + (i - 12) \in 1 .. 16 + n /\ 16 + (i - 12) # j
        BY <1>1, <2>2, <4>1
      <4>3. E[16 + (i - 12)] = I[12 + (i - 12)] /\ F[16 + (i - 12)] = J[12 + (i - 12)]
        BY <1>1, <1>2, <4>1
      <4>4. E[16 + (i - 12)] = F[16 + (i - 12)]
        BY <1>3, <4>2
      <4> QED
        BY <4>1, <4>3, <4>4
    <3> QED
      BY <1>1, <3>1, <3>2
  <2> QED
    BY <1>6, <1>7, <2>1, <2>2, <2>4, <2>5
<1> QED
  BY <1>1, <1>3, <1>8, <1>9, <1>10

=============================================================================
