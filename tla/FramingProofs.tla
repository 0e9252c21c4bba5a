--------------------------- MODULE FramingProofs ----------------------------
(***************************************************************************)
(* Framing for every limit, every set of packets and every way in which    *)
(* the kernel divides the bytes: the reader keeps its place, and the       *)
(* stream implements the channel of packets.                               *)
(***************************************************************************)
EXTENDS Framing, CodecProofs

-----------------------------------------------------------------------------
(* Sequences of bytes.                                                     *)
LEMMA Assoc ==
  \A s, t, u \in Seq(Byte) : (s \o t) \o u = s \o (t \o u)
BY ConcatAssociative

LEMMA ConcatBytes ==
  \A s, t \in Seq(Byte) :
    /\ s \o t \in Seq(Byte)
    /\ Len(s) \in Nat /\ Len(t) \in Nat /\ Len(s \o t) = Len(s) + Len(t)
    /\ s \o <<>> = s /\ <<>> \o s = s
BY ConcatProperties, ConcatEmptySeq

LEMMA FirstAndAfter ==
  ASSUME NEW s \in Seq(Byte), NEW n \in 1 .. Len(s)
  PROVE  /\ First(s, n) \in Seq(Byte) /\ Len(First(s, n)) = n
         /\ After(s, n) \in Seq(Byte) /\ Len(After(s, n)) = Len(s) - n
         /\ First(s, n) \o After(s, n) = s
<1>1. Len(s) \in Nat /\ n \in Nat /\ 1 <= n /\ n <= Len(s)
  OBVIOUS
<1>2. /\ 1 \in Int /\ n \in Int /\ n + 1 \in Int /\ Len(s) \in Int
      /\ \A i \in 1 .. n : s[i] \in Byte
      /\ \A i \in n + 1 .. Len(s) : s[i] \in Byte
  BY <1>1, ElementOfSeq
<1>3. /\ SubSeq(s, 1, n) \in Seq(Byte)
      /\ Len(SubSeq(s, 1, n)) = IF 1 <= n THEN n - 1 + 1 ELSE 0
  BY <1>2, SubSeqProperties
<1>4. /\ SubSeq(s, n + 1, Len(s)) \in Seq(Byte)
      /\ Len(SubSeq(s, n + 1, Len(s))) =
           IF n + 1 <= Len(s) THEN Len(s) - (n + 1) + 1 ELSE 0
  BY <1>2, SubSeqProperties
<1>5. SubSeq(s, 1, n) \o SubSeq(s, n + 1, Len(s)) = s
  <2>1. /\ 1 \in 1 .. Len(s) + 1 /\ n \in 1 - 1 .. Len(s)
        /\ Len(s) \in n .. Len(s)
    BY <1>1
  <2>2. SubSeq(s, 1, n) \o SubSeq(s, n + 1, Len(s)) = SubSeq(s, 1, Len(s))
    BY <2>1, ConcatAdjacentSubSeq
  <2> QED
    BY <2>2, SubSeqFull
<1> QED
  BY <1>1, <1>3, <1>4, <1>5 DEF First, After

(* Bytes that move from the front of one buffer to the end of the one      *)
(* before stay in their place.                                             *)
LEMMA BytesMove ==
  \A a, s, t \in Seq(Byte) : \A n \in 1 .. Len(t) :
    (a \o (s \o First(t, n))) \o After(t, n) = (a \o s) \o t
<1> SUFFICES ASSUME NEW a \in Seq(Byte), NEW s \in Seq(Byte),
                    NEW t \in Seq(Byte), NEW n \in 1 .. Len(t)
             PROVE  (a \o (s \o First(t, n))) \o After(t, n) = (a \o s) \o t
  OBVIOUS
<1> DEFINE f == First(t, n)
           g == After(t, n)
<1>1. f \in Seq(Byte) /\ g \in Seq(Byte) /\ f \o g = t
  BY FirstAndAfter
<1> HIDE DEF f, g
<1>2. a \o (s \o f) = (a \o s) \o f
  <2>1. \A u \in Seq(Byte) : (a \o s) \o u = a \o (s \o u)
    BY Assoc
  <2> QED
    BY <1>1, <2>1
<1>3. a \o s \in Seq(Byte)
  BY ConcatBytes
<1>4. ((a \o s) \o f) \o g = (a \o s) \o (f \o g)
  BY <1>1, <1>3, Assoc
<1> QED
  BY <1>1, <1>2, <1>4 DEF f, g

(* The bytes w begin with the bytes b.                                     *)
Begins(b, w) ==
  Len(b) <= Len(w) /\ \A i \in 1 .. Len(b) : b[i] = w[i]

LEMMA BeginsIsFirst ==
  ASSUME NEW b \in Seq(Byte), NEW w \in Seq(Byte)
  PROVE  Begins(b, w) <=> Len(b) <= Len(w) /\ b = First(w, Len(b))
<1>1. Len(b) \in Nat /\ Len(w) \in Nat
  OBVIOUS
<1>2. CASE Len(b) <= Len(w)
  <2>1. 1 \in Int /\ Len(b) \in Int /\ \A i \in 1 .. Len(b) : w[i] \in Byte
    BY <1>1, <1>2, ElementOfSeq
  <2>2. /\ SubSeq(w, 1, Len(b)) \in Seq(Byte)
        /\ Len(SubSeq(w, 1, Len(b))) = IF 1 <= Len(b) THEN Len(b) - 1 + 1 ELSE 0
        /\ \A i \in 1 .. Len(b) - 1 + 1 : SubSeq(w, 1, Len(b))[i] = w[1 + i - 1]
    BY <2>1, SubSeqProperties
  <2>3. Len(SubSeq(w, 1, Len(b))) = Len(b)
    BY <1>1, <2>2
  <2>4. \A i \in 1 .. Len(b) : SubSeq(w, 1, Len(b))[i] = w[i]
    BY <1>1, <2>2
  <2>5. (\A i \in 1 .. Len(b) : b[i] = w[i]) => b = SubSeq(w, 1, Len(b))
    BY <2>2, <2>3, <2>4, SeqEqual
  <2> QED
    BY <1>2, <2>4, <2>5 DEF Begins, First
<1> QED
  BY <1>2 DEF Begins

LEMMA BeginsConcat ==
  ASSUME NEW x \in Seq(Byte), NEW b \in Seq(Byte), NEW w \in Seq(Byte)
  PROVE  /\ Begins(x, x \o w)
         /\ Begins(x \o b, x \o w) => Begins(b, w)
<1>1. /\ x \o w \in Seq(Byte) /\ Len(x \o w) = Len(x) + Len(w)
      /\ \A i \in 1 .. Len(x) + Len(w) :
           (x \o w)[i] = IF i <= Len(x) THEN x[i] ELSE w[i - Len(x)]
  BY ConcatProperties
<1>2. /\ x \o b \in Seq(Byte) /\ Len(x \o b) = Len(x) + Len(b)
      /\ \A i \in 1 .. Len(x) + Len(b) :
           (x \o b)[i] = IF i <= Len(x) THEN x[i] ELSE b[i - Len(x)]
  BY ConcatProperties
<1>3. Len(x) \in Nat /\ Len(w) \in Nat /\ Len(b) \in Nat
  OBVIOUS
<1>4. Begins(x, x \o w)
  BY <1>1, <1>3 DEF Begins
<1>5. ASSUME Begins(x \o b, x \o w) PROVE Begins(b, w)
  <2>1. Len(b) <= Len(w)
    BY <1>1, <1>2, <1>3, <1>5 DEF Begins
  <2>2. ASSUME NEW i \in 1 .. Len(b) PROVE b[i] = w[i]
    <3>1. /\ Len(x) + i \in 1 .. Len(x) + Len(b)
          /\ Len(x) + i \in 1 .. Len(x) + Len(w)
          /\ ~(Len(x) + i <= Len(x)) /\ (Len(x) + i) - Len(x) = i
      BY <1>3, <2>1
    <3>2. (x \o b)[Len(x) + i] = (x \o w)[Len(x) + i]
      BY <1>2, <1>5, <3>1 DEF Begins
    <3>3. (x \o b)[Len(x) + i] = b[i]
      BY <1>2, <3>1
    <3>4. (x \o w)[Len(x) + i] = w[i]
      BY <1>1, <3>1
    <3> QED
      BY <3>2, <3>3, <3>4
  <2> QED
    BY <2>1, <2>2 DEF Begins
<1> QED
  BY <1>4, <1>5

-----------------------------------------------------------------------------
(* What is sent, and its bytes.                                            *)
Sent ==
  {m \in [message : Packets, intact : BOOLEAN] :
     m.intact \/ Len(m.message.payload) > 0}

LEMMA InvertedFacts ==
  ASSUME NEW e \in Seq(Byte), Len(e) > 16
  PROVE  /\ Inverted(e) \in Seq(Byte) /\ Len(Inverted(e)) = Len(e)
         /\ Inverted(e)[17] # e[17]
         /\ \A i \in 1 .. Len(e) : i # 17 => Inverted(e)[i] = e[i]
<1>1. 17 \in 1 .. Len(e) /\ Len(e) \in Nat
  OBVIOUS
<1>2. e[17] \subseteq 0 .. 7
  BY <1>1, ElementOfSeq DEF Byte
<1> DEFINE b == Xor(e[17], 0 .. 7)
<1>3. b \in Byte /\ b # e[17]
  <2>1. 0 \in 0 .. 7
    OBVIOUS
  <2> QED
    BY <1>2, <2>1 DEF Xor, Byte
<1>4. Inverted(e) = [e EXCEPT ![17] = b]
  <2>1. kHeaderSize + 1 = 17
    BY DEF kHeaderSize
  <2> QED
    BY <2>1 DEF Inverted
<1> HIDE DEF b
<1> QED
  BY <1>1, <1>3, <1>4, ExceptSeq

LEMMA WireOfFacts ==
  ASSUME NEW m \in Sent
  PROVE  /\ m.message \in Packets /\ m.message \in Packet
         /\ Len(m.message.payload) \in Nat
         /\ Len(m.message.payload) <= kMaxPayloadSize
         /\ WireOf(m) \in Seq(Byte)
         /\ Len(WireOf(m)) = 16 + Len(m.message.payload)
         /\ m.intact => WireOf(m) = Encoding(m.message)
         /\ ~m.intact =>
              /\ Len(m.message.payload) > 0
              /\ WireOf(m)[17] # Encoding(m.message)[17]
         /\ \A i \in 1 .. 16 + Len(m.message.payload) :
              i # 17 => WireOf(m)[i] = Encoding(m.message)[i]
<1> DEFINE p == m.message
<1>1. /\ p \in Packets /\ p \in Packet /\ Len(p.payload) <= kMaxPayloadSize
      /\ m.intact \in BOOLEAN /\ (m.intact \/ Len(p.payload) > 0)
  BY FramingAssumption DEF Sent
<1>2. /\ Len(p.payload) \in Nat /\ Encoding(p) \in Seq(Byte)
      /\ Len(Encoding(p)) = 16 + Len(p.payload)
  BY <1>1, EncodingBytes
<1> HIDE DEF p
<1>3. CASE m.intact
  BY <1>1, <1>2, <1>3 DEF WireOf, p
<1>4. CASE ~m.intact
  <2>1. Len(p.payload) > 0 /\ Len(Encoding(p)) > 16
    BY <1>1, <1>2, <1>4
  <2>2. WireOf(m) = Inverted(Encoding(p))
    BY <1>4 DEF WireOf, p
  <2> HIDE DEF WireOf
  <2> QED
    BY <1>1, <1>2, <1>4, <2>1, <2>2, InvertedFacts DEF p
<1> QED
  BY <1>3, <1>4

(* The bytes of the packets of s from the i-th on.                         *)
WireAfter(s, i) ==
  LET after[k \in 1 .. MaxPackets + 1] ==
        IF k > Len(s) THEN <<>> ELSE WireOf(s[k]) \o after[k + 1]
  IN  after[i]

(* g holds these bytes for the last n + 1 values of i.                     *)
WireLoop(s, n, g) ==
  g = [k \in MaxPackets + 1 - n .. MaxPackets + 1 |->
         IF k > Len(s) THEN <<>> ELSE WireOf(s[k]) \o g[k + 1]]

LEMMA WireLoopRuns ==
  ASSUME NEW s \in Seq(Sent), Len(s) <= MaxPackets
  PROVE  \A n \in Nat : \E g : WireLoop(s, n, g)
<1> DEFINE S == {n \in Nat : \E g : WireLoop(s, n, g)}
<1>1. MaxPackets \in Nat /\ Len(s) \in Nat
  BY FramingAssumption
<1>2. 0 \in S
  <2> DEFINE h == [k \in MaxPackets + 1 - 0 .. MaxPackets + 1 |-> <<>>]
  <2>1. \A k \in MaxPackets + 1 - 0 .. MaxPackets + 1 : k > Len(s) /\ h[k] = <<>>
    BY <1>1
  <2>2. h = [k \in MaxPackets + 1 - 0 .. MaxPackets + 1 |-> h[k]]
    OBVIOUS
  <2> HIDE DEF h
  <2>3. WireLoop(s, 0, h)
    BY <2>1, <2>2 DEF WireLoop
  <2> QED
    BY <2>3
<1>3. ASSUME NEW n \in Nat, n \in S PROVE n + 1 \in S
  <2>1. PICK g : WireLoop(s, n, g)
    BY <1>3
  <2> DEFINE j == MaxPackets + 1 - (n + 1)
             h == [k \in j .. MaxPackets + 1 |->
                     IF k = j
                       THEN IF k > Len(s) THEN <<>> ELSE WireOf(s[k]) \o g[k + 1]
                       ELSE g[k]]
  <2>2. j \in Int /\ MaxPackets + 1 - n = j + 1 /\ j + 1 <= MaxPackets + 1
    BY <1>1
  <2> HIDE DEF j
  <2>3. \A k \in j + 1 .. MaxPackets + 1 : h[k] = g[k]
    BY <1>1, <2>2
  <2>4. h[j] = IF j > Len(s) THEN <<>> ELSE WireOf(s[j]) \o g[j + 1]
    BY <1>1, <2>2
  <2>5. h = [k \in j .. MaxPackets + 1 |-> h[k]]
    OBVIOUS
  <2> HIDE DEF h
  <2>6. ASSUME NEW k \in j .. MaxPackets + 1
        PROVE  h[k] = IF k > Len(s) THEN <<>> ELSE WireOf(s[k]) \o h[k + 1]
    <3>1. CASE k = j
      <4>1. j + 1 \in j + 1 .. MaxPackets + 1
        BY <1>1, <2>2
      <4>2. h[k + 1] = g[k + 1]
        BY <2>3, <3>1, <4>1
      <4> QED
        BY <2>4, <3>1, <4>2
    <3>2. CASE k # j
      <4>1. k \in j + 1 .. MaxPackets + 1
        BY <1>1, <2>2, <3>2
      <4>2. g[k] = IF k > Len(s) THEN <<>> ELSE WireOf(s[k]) \o g[k + 1]
        BY <2>1, <2>2, <4>1 DEF WireLoop
      <4>3. k > Len(s) \/ k + 1 \in j + 1 .. MaxPackets + 1
        BY <1>1, <2>2, <4>1
      <4> QED
        BY <2>3, <4>1, <4>2, <4>3
    <3> QED
      BY <3>1, <3>2
  <2>7. WireLoop(s, n + 1, h)
    BY <2>5, <2>6 DEF WireLoop, j
  <2> QED
    BY <2>7
<1> HIDE DEF S
<1>4. Nat \subseteq S
  BY <1>2, <1>3, NumbersOf
<1> QED
  BY <1>4 DEF S

LEMMA WireUnfolds ==
  ASSUME NEW s \in Seq(Sent), Len(s) <= MaxPackets
  PROVE  \A i \in 1 .. MaxPackets + 1 :
           WireAfter(s, i) =
             IF i > Len(s) THEN <<>> ELSE WireOf(s[i]) \o WireAfter(s, i + 1)
<1> DEFINE after ==
      CHOOSE g : g = [k \in 1 .. MaxPackets + 1 |->
        IF k > Len(s) THEN <<>> ELSE WireOf(s[k]) \o g[k + 1]]
<1>1. \A i : WireAfter(s, i) = after[i]
  BY DEF WireAfter
<1>2. after = [k \in 1 .. MaxPackets + 1 |->
        IF k > Len(s) THEN <<>> ELSE WireOf(s[k]) \o after[k + 1]]
  <2>1. MaxPackets \in Nat /\ MaxPackets + 1 - MaxPackets = 1
    BY FramingAssumption
  <2>2. \E g : WireLoop(s, MaxPackets, g)
    BY <2>1, WireLoopRuns
  <2>3. \E g : g = [k \in 1 .. MaxPackets + 1 |->
          IF k > Len(s) THEN <<>> ELSE WireOf(s[k]) \o g[k + 1]]
    BY <2>1, <2>2 DEF WireLoop
  <2> QED
    BY <2>3
<1> HIDE DEF after
<1> QED
  BY <1>1, <1>2

LEMMA WireType ==
  ASSUME NEW s \in Seq(Sent), Len(s) <= MaxPackets
  PROVE  \A i \in 1 .. MaxPackets + 1 : WireAfter(s, i) \in Seq(Byte)
<1> DEFINE S == {n \in Nat : n <= MaxPackets =>
                   WireAfter(s, MaxPackets + 1 - n) \in Seq(Byte)}
<1>1. MaxPackets \in Nat /\ Len(s) \in Nat
  BY FramingAssumption
<1>2. ASSUME NEW i \in 1 .. MaxPackets + 1,
             i <= Len(s) => WireAfter(s, i + 1) \in Seq(Byte)
      PROVE  WireAfter(s, i) \in Seq(Byte)
  <2>1. CASE i > Len(s)
    <3>1. WireAfter(s, i) = <<>>
      BY <1>2, <2>1, WireUnfolds
    <3> QED
      BY <3>1
  <2>2. CASE i <= Len(s)
    <3>1. s[i] \in Sent
      BY <1>1, <1>2, <2>2, ElementOfSeq
    <3>2. WireOf(s[i]) \in Seq(Byte)
      BY <3>1, WireOfFacts
    <3>3. WireAfter(s, i) = WireOf(s[i]) \o WireAfter(s, i + 1)
      BY <1>1, <1>2, <2>2, WireUnfolds
    <3> QED
      BY <1>2, <2>2, <3>2, <3>3, ConcatBytes
  <2> QED
    BY <1>1, <2>1, <2>2
<1>3. 0 \in S
  <2>1. MaxPackets + 1 - 0 \in 1 .. MaxPackets + 1 /\ ~(MaxPackets + 1 - 0 <= Len(s))
    BY <1>1
  <2>2. WireAfter(s, MaxPackets + 1 - 0) \in Seq(Byte)
    BY <1>2, <2>1
  <2> QED
    BY <2>2
<1>4. ASSUME NEW n \in Nat, n \in S PROVE n + 1 \in S
  <2> SUFFICES ASSUME n + 1 <= MaxPackets
               PROVE  WireAfter(s, MaxPackets + 1 - (n + 1)) \in Seq(Byte)
    OBVIOUS
  <2>1. /\ MaxPackets + 1 - (n + 1) \in 1 .. MaxPackets + 1
        /\ (MaxPackets + 1 - (n + 1)) + 1 = MaxPackets + 1 - n
        /\ n <= MaxPackets
    BY <1>1
  <2>2. WireAfter(s, MaxPackets + 1 - n) \in Seq(Byte)
    BY <1>4, <2>1
  <2> QED
    BY <1>2, <2>1, <2>2
<1> HIDE DEF S
<1>5. Nat \subseteq S
  BY <1>3, <1>4, NumbersOf
<1>6. ASSUME NEW i \in 1 .. MaxPackets + 1 PROVE WireAfter(s, i) \in Seq(Byte)
  <2>1. /\ MaxPackets + 1 - i \in Nat /\ MaxPackets + 1 - i <= MaxPackets
        /\ MaxPackets + 1 - (MaxPackets + 1 - i) = i
    BY <1>1
  <2>2. MaxPackets + 1 - i \in S
    BY <1>5, <2>1
  <2>3. WireAfter(s, MaxPackets + 1 - (MaxPackets + 1 - i)) \in Seq(Byte)
    BY <2>1, <2>2 DEF S
  <2> QED
    BY <2>1, <2>3
<1> QED
  BY <1>6

(* A packet more is its bytes at the end.                                  *)
LEMMA WireGrows ==
  ASSUME NEW s \in Seq(Sent), Len(s) < MaxPackets, NEW m \in Sent
  PROVE  \A i \in 1 .. Len(s) + 1 :
           WireAfter(Append(s, m), i) = WireAfter(s, i) \o WireOf(m)
<1> DEFINE t == Append(s, m)
           l == Len(s)
           S == {n \in Nat : n <= l =>
                   WireAfter(t, l + 1 - n) = WireAfter(s, l + 1 - n) \o WireOf(m)}
<1>1. /\ MaxPackets \in Nat /\ l \in Nat /\ l < MaxPackets
      /\ l + 1 \in 1 .. MaxPackets + 1 /\ l + 1 + 1 \in 1 .. MaxPackets + 1
      /\ \A i \in 1 .. l : i \in 1 .. MaxPackets + 1 /\ i + 1 \in 1 .. MaxPackets + 1
  BY FramingAssumption
<1>2. /\ t \in Seq(Sent) /\ Len(t) = l + 1 /\ t[l + 1] = m
      /\ \A i \in 1 .. l : t[i] = s[i]
  BY AppendProperties
<1>3. WireOf(m) \in Seq(Byte)
  BY WireOfFacts
<1>4. Len(t) <= MaxPackets /\ Len(s) <= MaxPackets
  BY <1>1, <1>2
<1>5. \A i \in 1 .. l : WireOf(s[i]) \in Seq(Byte)
  BY ElementOfSeq, WireOfFacts
<1>6. Len(s) = l
  OBVIOUS
<1> HIDE DEF t, l
<1>7. WireAfter(t, l + 1) = WireAfter(s, l + 1) \o WireOf(m)
  <2>1. WireAfter(t, l + 1 + 1) = <<>>
    BY <1>1, <1>2, <1>4, WireUnfolds
  <2>2. WireAfter(t, l + 1) = WireOf(m) \o WireAfter(t, l + 1 + 1)
    <3>1. ~(l + 1 > Len(t))
      BY <1>1, <1>2
    <3>2. WireAfter(t, l + 1) = WireOf(t[l + 1]) \o WireAfter(t, l + 1 + 1)
      BY <1>1, <1>2, <1>4, <3>1, WireUnfolds
    <3> QED
      BY <1>2, <3>2
  <2>3. WireAfter(s, l + 1) = <<>>
    BY <1>1, <1>4, <1>6, WireUnfolds
  <2> QED
    BY <1>3, <2>1, <2>2, <2>3, ConcatBytes
<1>8. 0 \in S
  <2>1. l + 1 - 0 = l + 1
    BY <1>1
  <2> QED
    BY <1>7, <2>1
<1>9. ASSUME NEW n \in Nat, n \in S PROVE n + 1 \in S
  <2> SUFFICES ASSUME n + 1 <= l
               PROVE  WireAfter(t, l + 1 - (n + 1)) =
                        WireAfter(s, l + 1 - (n + 1)) \o WireOf(m)
    OBVIOUS
  <2> DEFINE i == l + 1 - (n + 1)
  <2>1. i \in 1 .. l /\ i + 1 = l + 1 - n /\ n <= l
    BY <1>1
  <2>2. WireAfter(t, l + 1 - n) = WireAfter(s, l + 1 - n) \o WireOf(m)
    BY <1>9, <2>1
  <2> HIDE DEF i
  <2>3. i \in 1 .. MaxPackets + 1 /\ i + 1 \in 1 .. MaxPackets + 1
        /\ ~(i > Len(s)) /\ ~(i > Len(t))
    BY <1>1, <1>2, <1>6, <2>1
  <2>4. /\ WireAfter(t, i) = WireOf(t[i]) \o WireAfter(t, i + 1)
        /\ WireAfter(s, i) = WireOf(s[i]) \o WireAfter(s, i + 1)
    BY <1>2, <1>4, <2>3, WireUnfolds
  <2>5. WireAfter(s, i + 1) \in Seq(Byte)
    BY <1>4, <2>3, WireType
  <2>6. t[i] = s[i] /\ WireOf(s[i]) \in Seq(Byte)
    BY <1>2, <1>5, <2>1
  <2>7. WireAfter(t, i + 1) = WireAfter(s, i + 1) \o WireOf(m)
    BY <2>1, <2>2
  <2>8. WireOf(s[i]) \o (WireAfter(s, i + 1) \o WireOf(m)) =
          (WireOf(s[i]) \o WireAfter(s, i + 1)) \o WireOf(m)
    BY <1>3, <2>5, <2>6, Assoc
  <2>9. WireAfter(t, i) = WireAfter(s, i) \o WireOf(m)
    BY <2>4, <2>6, <2>7, <2>8
  <2> QED
    BY <2>9 DEF i
<1> HIDE DEF S
<1>10. Nat \subseteq S
  BY <1>8, <1>9, NumbersOf
<1>11. ASSUME NEW i \in 1 .. l + 1
       PROVE  WireAfter(t, i) = WireAfter(s, i) \o WireOf(m)
  <2>1. l + 1 - i \in Nat /\ l + 1 - i <= l /\ l + 1 - (l + 1 - i) = i
    BY <1>1
  <2>2. l + 1 - i \in S
    BY <1>10, <2>1
  <2> QED
    BY <2>1, <2>2 DEF S
<1> QED
  BY <1>11 DEF t, l

-----------------------------------------------------------------------------
(* The inductive invariant.  Held are the bytes that reader, kernel and    *)
(* writer hold.                                                            *)
Held == header \o payload \o stream \o outgoing

FramingTypeOK ==
  /\ writer \in {"open", "closed"}
  /\ reader \in {"reading", "refused", "eof"}
  /\ outgoing \in Seq(Byte) /\ stream \in Seq(Byte)
  /\ header \in Seq(Byte) /\ payload \in Seq(Byte)
  /\ sent \in Seq(Sent) /\ Len(sent) <= MaxPackets
  /\ received \in Seq(Packet) /\ Len(received) <= Len(sent)

(* The packet that is being received.                                      *)
Upcoming == Len(received) + 1

Place ==
  /\ Begins(Held, WireAfter(sent, Upcoming))
  /\ writer = "open" => Held = WireAfter(sent, Upcoming)

(* The payload buffer is filled after the header, no further than its      *)
(* length.                                                                 *)
Buffers ==
  /\ Len(header) <= 16
  /\ payload # <<>> =>
       /\ Len(header) = 16
       /\ HasLength(header)
       /\ Len(payload) <= get_payload_length(header)

(* Of the last packet only is something left to write.                     *)
Unsent ==
  outgoing # <<>> =>
    /\ writer = "open"
    /\ sent # <<>>
    /\ Len(outgoing) <= Len(WireOf(sent[Len(sent)]))

AllButLast(s) == SubSeq(s, 1, Len(s) - 1)

(* A writer that closes cuts off the last packet, no other.                *)
CutOff ==
  writer = "closed" /\ Len(received) < Len(sent) =>
    Len(WireAfter(AllButLast(sent), Upcoming)) <= Len(Held)

FramingInv == FramingTypeOK /\ Place /\ Buffers /\ Unsent /\ CutOff

LEMMA WireIs == Wire = WireAfter(sent, Upcoming)
BY DEF Wire, WireAfter, Upcoming

(* The last packet and those before it.                                    *)
LEMMA LastSent ==
  ASSUME NEW s \in Seq(Sent), s # <<>>, Len(s) <= MaxPackets
  PROVE  /\ AllButLast(s) \in Seq(Sent) /\ Len(AllButLast(s)) = Len(s) - 1
         /\ \A i \in 1 .. Len(s) - 1 : AllButLast(s)[i] = s[i]
         /\ s[Len(s)] \in Sent
         /\ \A i \in 1 .. Len(s) :
              WireAfter(s, i) = WireAfter(AllButLast(s), i) \o WireOf(s[Len(s)])
<1> DEFINE t == AllButLast(s)
           m == s[Len(s)]
<1>1. Len(s) \in Nat /\ Len(s) >= 1 /\ MaxPackets \in Nat
  BY EmptySeq, FramingAssumption
<1>2. /\ 1 \in Int /\ Len(s) - 1 \in Int
      /\ \A i \in 1 .. Len(s) - 1 : s[i] \in Sent
  BY <1>1, ElementOfSeq
<1>3. m \in Sent
  BY <1>1, ElementOfSeq
<1>4. /\ t \in Seq(Sent)
      /\ Len(t) = IF 1 <= Len(s) - 1 THEN (Len(s) - 1) - 1 + 1 ELSE 0
      /\ \A i \in 1 .. (Len(s) - 1) - 1 + 1 : t[i] = s[1 + i - 1]
  BY <1>2, SubSeqProperties DEF AllButLast
<1>5. Len(t) = Len(s) - 1 /\ \A i \in 1 .. Len(s) - 1 : t[i] = s[i]
  <2>1. Len(t) = Len(s) - 1
    <3>1. PICK l \in Nat : l = Len(s) /\ l >= 1
      BY <1>1
    <3>2. Len(t) = IF 1 <= l - 1 THEN (l - 1) - 1 + 1 ELSE 0
      BY <1>4, <3>1
    <3>3. Len(t) = l - 1
      BY <3>1, <3>2
    <3> QED
      BY <3>1, <3>3
  <2>2. ASSUME NEW i \in 1 .. Len(s) - 1 PROVE t[i] = s[i]
    <3>1. i \in 1 .. (Len(s) - 1) - 1 + 1 /\ 1 + i - 1 = i
      BY <1>1
    <3> QED
      BY <1>4, <3>1
  <2> QED
    BY <2>1, <2>2
<1> HIDE DEF t
<1>6. Append(t, m) = s
  <2>1. /\ Append(t, m) \in Seq(Sent) /\ Len(Append(t, m)) = Len(t) + 1
        /\ \A i \in 1 .. Len(t) : Append(t, m)[i] = t[i]
        /\ Append(t, m)[Len(t) + 1] = m
    BY <1>3, <1>4, AppendProperties
  <2>2. Len(Append(t, m)) = Len(s)
    BY <1>1, <1>5, <2>1
  <2>3. \A i \in 1 .. Len(s) : Append(t, m)[i] = s[i]
    BY <1>1, <1>5, <2>1
  <2> QED
    BY <2>1, <2>2, <2>3, SeqEqual
<1> HIDE DEF m
<1>7. \A i \in 1 .. Len(t) + 1 : WireAfter(Append(t, m), i) = WireAfter(t, i) \o WireOf(m)
  BY <1>1, <1>3, <1>4, <1>5, WireGrows
<1>8. \A i \in 1 .. Len(s) : WireAfter(s, i) = WireAfter(t, i) \o WireOf(m)
  <2>1. Len(t) + 1 = Len(s)
    BY <1>1, <1>5
  <2> QED
    BY <1>6, <1>7, <2>1
<1> QED
  BY <1>3, <1>4, <1>5, <1>8 DEF t, m

(* Where the bytes of the buffers are in Held.                             *)
LEMMA HeldBytes ==
  ASSUME FramingTypeOK
  PROVE  /\ Held \in Seq(Byte)
         /\ Len(Held) = Len(header) + Len(payload) + Len(stream) + Len(outgoing)
         /\ Held = (header \o payload) \o (stream \o outgoing)
         /\ stream \o outgoing \in Seq(Byte)
         /\ header \o payload \in Seq(Byte)
         /\ \A i \in 1 .. Len(header) : Held[i] = header[i]
         /\ \A i \in 1 .. Len(payload) : Held[Len(header) + i] = payload[i]
<1> DEFINE x == header \o payload
           y == stream \o outgoing
<1>1. /\ header \in Seq(Byte) /\ payload \in Seq(Byte)
      /\ stream \in Seq(Byte) /\ outgoing \in Seq(Byte)
  BY DEF FramingTypeOK
<1>2. /\ x \in Seq(Byte) /\ Len(x) = Len(header) + Len(payload)
      /\ \A i \in 1 .. Len(header) + Len(payload) :
           x[i] = IF i <= Len(header) THEN header[i] ELSE payload[i - Len(header)]
  BY <1>1, ConcatProperties
<1>3. y \in Seq(Byte) /\ Len(y) = Len(stream) + Len(outgoing)
  BY <1>1, ConcatProperties
<1>4. Held = x \o y
  <2> HIDE DEF x
  <2>1. x \in Seq(Byte)
    BY <1>2
  <2>2. (x \o stream) \o outgoing = x \o (stream \o outgoing)
    BY <1>1, <2>1, Assoc, Zenon
  <2> QED
    BY <2>2 DEF Held, x
<1> HIDE DEF x, y
<1>5. /\ x \o y \in Seq(Byte) /\ Len(x \o y) = Len(x) + Len(y)
      /\ \A i \in 1 .. Len(x) + Len(y) :
           (x \o y)[i] = IF i <= Len(x) THEN x[i] ELSE y[i - Len(x)]
  <2>1. x \in Seq(Byte) /\ y \in Seq(Byte)
    BY <1>2, <1>3
  <2> QED
    BY <2>1, ConcatProperties
<1>6. /\ Len(header) \in Nat /\ Len(payload) \in Nat
      /\ Len(stream) \in Nat /\ Len(outgoing) \in Nat
  BY <1>1
<1>7. Len(Held) = Len(header) + Len(payload) + Len(stream) + Len(outgoing)
  BY <1>2, <1>3, <1>4, <1>5, <1>6
<1>8. ASSUME NEW i \in 1 .. Len(header) PROVE Held[i] = header[i]
  <2>1. i \in 1 .. Len(x) + Len(y) /\ i <= Len(x) /\ i <= Len(header)
        /\ i \in 1 .. Len(header) + Len(payload)
    BY <1>2, <1>3, <1>6
  <2> QED
    BY <1>2, <1>4, <1>5, <2>1
<1>9. ASSUME NEW i \in 1 .. Len(payload) PROVE Held[Len(header) + i] = payload[i]
  <2>1. /\ Len(header) + i \in 1 .. Len(x) + Len(y) /\ Len(header) + i <= Len(x)
        /\ ~(Len(header) + i <= Len(header)) /\ (Len(header) + i) - Len(header) = i
        /\ Len(header) + i \in 1 .. Len(header) + Len(payload)
    BY <1>2, <1>3, <1>6
  <2>2. Held[Len(header) + i] = x[Len(header) + i]
    BY <1>4, <1>5, <2>1
  <2>3. x[Len(header) + i] = payload[(Len(header) + i) - Len(header)]
    BY <1>2, <2>1
  <2> QED
    BY <2>1, <2>2, <2>3
<1> QED
  BY <1>2, <1>3, <1>4, <1>5, <1>7, <1>8, <1>9 DEF x, y

-----------------------------------------------------------------------------
(* A complete header is that of the packet that comes next, and the        *)
(* payload is filled with the bytes that follow.                           *)
LEMMA HeaderIsNext ==
  ASSUME FramingInv, Len(header) = 16
  PROVE  /\ Upcoming \in 1 .. Len(sent) /\ sent[Upcoming] \in Sent
         /\ header = Header(sent[Upcoming].message)
         /\ HasLength(header)
         /\ get_payload_length(header) = Len(sent[Upcoming].message.payload)
         /\ Len(payload) <= Len(sent[Upcoming].message.payload)
         /\ \A i \in 1 .. Len(payload) : payload[i] = WireOf(sent[Upcoming])[16 + i]
         /\ \A i \in 1 .. 16 : header[i] = WireOf(sent[Upcoming])[i]
         /\ WireAfter(sent, Upcoming) = WireOf(sent[Upcoming]) \o WireAfter(sent, Upcoming + 1)
         /\ WireAfter(sent, Upcoming + 1) \in Seq(Byte)
<1> DEFINE m == sent[Upcoming]
           p == m.message
           W == WireAfter(sent, Upcoming)
           V == WireAfter(sent, Upcoming + 1)
<1>1. FramingTypeOK /\ Place /\ Buffers
  BY DEF FramingInv
<1>2. /\ header \in Seq(Byte) /\ payload \in Seq(Byte)
      /\ sent \in Seq(Sent) /\ Len(sent) <= MaxPackets
      /\ received \in Seq(Packet) /\ Len(received) <= Len(sent)
      /\ stream \in Seq(Byte) /\ outgoing \in Seq(Byte)
  BY <1>1 DEF FramingTypeOK
<1>3. /\ MaxPackets \in Nat /\ Len(sent) \in Nat /\ Len(received) \in Nat
      /\ Len(payload) \in Nat /\ Len(stream) \in Nat /\ Len(outgoing) \in Nat
      /\ Upcoming \in 1 .. MaxPackets + 1 /\ Upcoming = Len(received) + 1
  BY <1>2, FramingAssumption DEF Upcoming
<1>4. Len(Held) >= 16
  BY <1>1, <1>3, HeldBytes
<1>5. W \in Seq(Byte) /\ Len(Held) <= Len(W) /\ \A i \in 1 .. Len(Held) : Held[i] = W[i]
  BY <1>1, <1>2, <1>3, WireType DEF Place, Begins
<1>6. Upcoming \in 1 .. Len(sent)
  <2>1. ASSUME Upcoming > Len(sent) PROVE FALSE
    <3>1. W = <<>>
      BY <1>2, <1>3, <2>1, WireUnfolds
    <3>2. Len(W) = 0
      BY <3>1
    <3> HIDE DEF W
    <3>3. Len(Held) \in Nat
      BY <1>1, HeldBytes
    <3> QED
      BY <1>4, <1>5, <3>2, <3>3
  <2> QED
    BY <1>3, <2>1
<1>7. m \in Sent
  BY <1>2, <1>6, ElementOfSeq
<1>8. /\ p \in Packet /\ Len(p.payload) \in Nat /\ Len(p.payload) <= kMaxPayloadSize
      /\ WireOf(m) \in Seq(Byte) /\ Len(WireOf(m)) = 16 + Len(p.payload)
      /\ \A i \in 1 .. 16 + Len(p.payload) : i # 17 => WireOf(m)[i] = Encoding(p)[i]
  BY <1>7, WireOfFacts
<1>9. W = WireOf(m) \o V /\ V \in Seq(Byte)
  <2>1. Upcoming + 1 \in 1 .. MaxPackets + 1 /\ ~(Upcoming > Len(sent))
    BY <1>2, <1>3, <1>6
  <2>2. W = WireOf(m) \o V
    BY <1>2, <1>3, <2>1, WireUnfolds
  <2> QED
    BY <1>2, <2>1, <2>2, WireType
<1> HIDE DEF m, p, W, V
<1>10. \A i \in 1 .. 16 + Len(p.payload) : W[i] = WireOf(m)[i]
  <2>1. Begins(WireOf(m), W)
    BY <1>8, <1>9, BeginsConcat
  <2> QED
    BY <1>8, <2>1 DEF Begins
<1>11. \A i \in 1 .. 16 : header[i] = WireOf(m)[i]
  <2> SUFFICES ASSUME NEW i \in 1 .. 16 PROVE header[i] = WireOf(m)[i]
    OBVIOUS
  <2>1. i \in 1 .. Len(header) /\ i \in 1 .. 16 + Len(p.payload)
    <3>1. Len(p.payload) \in Nat
      BY <1>8
    <3> QED
      BY <3>1
  <2>2. Held[i] = header[i]
    BY <1>1, <2>1, HeldBytes
  <2>3. i \in 1 .. Len(Held)
    <3>1. Len(Held) \in Nat
      BY <1>1, HeldBytes
    <3> QED
      BY <1>4, <3>1
  <2> QED
    BY <1>5, <1>10, <2>1, <2>2, <2>3
<1>12. header = Header(p)
  <2>1. Header(p) \in Seq(Byte) /\ Len(Header(p)) = 16
    BY <1>8, HeaderBytes
  <2>2. ASSUME NEW i \in 1 .. 16 PROVE header[i] = Header(p)[i]
    <3>1. i \in 1 .. 16 + Len(p.payload) /\ i # 17
      BY <1>8
    <3>2. Encoding(p)[i] = Header(p)[i]
      BY <1>8, HeaderFirst
    <3> QED
      BY <1>8, <1>11, <3>1, <3>2
  <2> QED
    BY <1>2, <2>1, <2>2, SeqEqual
<1>13. HasLength(header) /\ get_payload_length(header) = Len(p.payload)
  BY <1>8, <1>12, HeaderTells
<1>14. Len(payload) <= Len(p.payload)
  <2>1. CASE payload = <<>>
    BY <1>8, <2>1
  <2>2. CASE payload # <<>>
    BY <1>1, <1>13, <2>2 DEF Buffers
  <2> QED
    BY <2>1, <2>2
<1>15. \A i \in 1 .. Len(payload) : payload[i] = WireOf(m)[16 + i]
  <2> SUFFICES ASSUME NEW i \in 1 .. Len(payload) PROVE payload[i] = WireOf(m)[16 + i]
    OBVIOUS
  <2>1. 16 + i \in 1 .. 16 + Len(p.payload)
    BY <1>3, <1>8, <1>14
  <2>2. Held[16 + i] = payload[i]
    BY <1>1, HeldBytes
  <2>3. 16 + i \in 1 .. Len(Held)
    <3>1. Len(Held) = 16 + Len(payload) + Len(stream) + Len(outgoing)
      BY <1>1, HeldBytes
    <3> QED
      BY <1>3, <3>1
  <2> QED
    BY <1>5, <1>10, <2>1, <2>2, <2>3
<1> QED
  BY <1>6, <1>7, <1>9, <1>11, <1>12, <1>13, <1>14, <1>15 DEF m, p, W, V

(* Buffers that are full hold the bytes of the next packet, and these are  *)
(* accepted if they are those that were sent, and only then.               *)
LEMMA CompleteIsNext ==
  ASSUME FramingInv, Complete
  PROVE  /\ Upcoming \in 1 .. Len(sent) /\ sent[Upcoming] \in Sent
         /\ header \o payload = WireOf(sent[Upcoming])
         /\ Accepts(header, payload) <=> sent[Upcoming].intact
         /\ sent[Upcoming].intact => decode_packet(header, payload) = sent[Upcoming].message
         /\ WireAfter(sent, Upcoming) = WireOf(sent[Upcoming]) \o WireAfter(sent, Upcoming + 1)
         /\ WireAfter(sent, Upcoming + 1) \in Seq(Byte)
<1> DEFINE m == sent[Upcoming]
           p == m.message
           w == WireOf(m)
<1>1. /\ FramingTypeOK /\ header \in Seq(Byte) /\ payload \in Seq(Byte)
      /\ Len(header) \in Nat /\ Len(payload) \in Nat
  BY DEF FramingInv, FramingTypeOK
<1>2. Len(header) = 16
  BY <1>1 DEF Complete, HeaderWanted, kHeaderSize
<1>3. /\ Upcoming \in 1 .. Len(sent) /\ m \in Sent
      /\ header = Header(p)
      /\ get_payload_length(header) = Len(p.payload)
      /\ \A i \in 1 .. Len(payload) : payload[i] = w[16 + i]
      /\ \A i \in 1 .. 16 : header[i] = w[i]
      /\ WireAfter(sent, Upcoming) = w \o WireAfter(sent, Upcoming + 1)
      /\ WireAfter(sent, Upcoming + 1) \in Seq(Byte)
  BY <1>2, HeaderIsNext
<1> HIDE DEF m
<1>4. /\ p \in Packet /\ Len(p.payload) \in Nat /\ Len(p.payload) <= kMaxPayloadSize
      /\ w \in Seq(Byte) /\ Len(w) = 16 + Len(p.payload)
      /\ m.intact => w = Encoding(p)
      /\ ~m.intact => Len(p.payload) > 0 /\ w[17] # Encoding(p)[17]
      /\ \A i \in 1 .. 16 + Len(p.payload) : i # 17 => w[i] = Encoding(p)[i]
  BY <1>3, WireOfFacts
<1> HIDE DEF p, w
<1>5. Len(payload) = Len(p.payload)
  <2>1. PayloadWanted = get_payload_length(header) - Len(payload)
    BY DEF Complete, PayloadWanted
  <2> QED
    BY <1>1, <1>3, <1>4, <2>1 DEF Complete, PayloadComplete
<1>6. header \o payload = w
  <2>1. /\ header \o payload \in Seq(Byte) /\ Len(header \o payload) = 16 + Len(p.payload)
        /\ \A i \in 1 .. 16 + Len(p.payload) :
             (header \o payload)[i] = IF i <= 16 THEN header[i] ELSE payload[i - 16]
    <3>1. /\ header \o payload \in Seq(Byte)
          /\ Len(header \o payload) = Len(header) + Len(payload)
          /\ \A i \in 1 .. Len(header) + Len(payload) :
               (header \o payload)[i] =
                 IF i <= Len(header) THEN header[i] ELSE payload[i - Len(header)]
      BY <1>1, ConcatProperties
    <3> QED
      BY <1>2, <1>5, <3>1
  <2>2. ASSUME NEW i \in 1 .. 16 + Len(p.payload) PROVE (header \o payload)[i] = w[i]
    <3>1. CASE i <= 16
      <4>1. i \in 1 .. 16
        BY <3>1
      <4> QED
        BY <1>3, <2>1, <3>1, <4>1
    <3>2. CASE ~(i <= 16)
      <4>1. i - 16 \in 1 .. Len(payload) /\ 16 + (i - 16) = i
        BY <1>4, <1>5, <3>2
      <4>2. payload[i - 16] = w[16 + (i - 16)]
        BY <1>3, <4>1
      <4> QED
        BY <2>1, <3>2, <4>1, <4>2
    <3> QED
      BY <3>1, <3>2
  <2> QED
    BY <1>4, <2>1, <2>2, SeqEqual
<1>7. ASSUME m.intact
      PROVE  Accepts(header, payload) /\ decode_packet(header, payload) = p
  <2>1. header \o payload = header \o p.payload
    BY <1>3, <1>4, <1>6, <1>7 DEF Encoding
  <2>2. p.payload \in Seq(Byte)
    BY <1>4 DEF Packet
  <2>3. payload = p.payload
    BY <1>1, <2>1, <2>2, ConcatSimplifications
  <2> QED
    BY <1>3, <1>4, <2>3, HeaderTells
<1>8. ASSUME Accepts(header, payload), ~m.intact
      PROVE  FALSE
  <2> DEFINE q == decode_packet(header, payload)
  <2>1. q \in Packet /\ q.payload = payload /\ header = Header(q)
    BY <1>1, <1>8, AcceptsOnly
  <2> HIDE DEF q
  <2>2. w = Encoding(q) /\ Len(p.payload) = Len(q.payload)
    BY <1>5, <1>6, <2>1 DEF Encoding
  <2>3. 17 \in 1 .. 16 + Len(p.payload) /\ Encoding(p)[17] # Encoding(q)[17]
    BY <1>4, <1>8, <2>2
  <2>4. \E i \in 1 .. 16 + Len(p.payload) : i # 17 /\ Encoding(p)[i] # Encoding(q)[i]
    BY <1>4, <2>1, <2>2, <2>3, EncodingsFarApart
  <2> QED
    BY <1>4, <2>2, <2>4
<1> QED
  BY <1>3, <1>6, <1>7, <1>8 DEF m, p, w

-----------------------------------------------------------------------------
(* The writer's steps.                                                     *)
LEMMA SendPacketStep ==
  ASSUME FramingInv, SendPacket
  PROVE  FramingInv' /\ Channel!SendMessage
<1>1. FramingTypeOK /\ Place /\ Buffers /\ Unsent /\ CutOff
  BY DEF FramingInv
<1>2. PICK p \in Packets, intact \in BOOLEAN :
        /\ intact \/ Len(encode_packet(p)) > kHeaderSize
        /\ outgoing' = IF intact THEN encode_packet(p)
                                 ELSE Inverted(encode_packet(p))
        /\ sent' = Append(sent, [message |-> p, intact |-> intact])
  BY DEF SendPacket
<1>3. /\ writer = "open" /\ outgoing = <<>> /\ Len(sent) < MaxPackets
      /\ UNCHANGED <<writer, stream, reader, header, payload, received>>
  BY DEF SendPacket
<1> DEFINE m == [message |-> p, intact |-> intact]
<1>4. m.message = p /\ m.intact = intact
  OBVIOUS
<1>5. p \in Packet /\ encode_packet(p) = Encoding(p)
      /\ Len(p.payload) \in Nat /\ Len(Encoding(p)) = 16 + Len(p.payload)
  <2>1. p \in Packet /\ Len(p.payload) <= kMaxPayloadSize
    BY FramingAssumption
  <2>2. /\ Len(p.payload) \in Nat /\ Len(Encoding(p)) = 16 + Len(p.payload)
        /\ kMaxPayloadSize \in Nat
    BY <2>1, EncodingBytes, CodecAssumption
  <2>3. ~(Len(p.payload) > kMaxPayloadSize)
    BY <2>1, <2>2
  <2> QED
    BY <2>1, <2>2, <2>3 DEF encode_packet
<1>6. m \in Sent
  BY <1>2, <1>5 DEF Sent, kHeaderSize
<1>7. outgoing' = WireOf(m) /\ sent' = Append(sent, m)
  BY <1>2, <1>4, <1>5 DEF WireOf
<1> HIDE DEF m
<1>8. WireOf(m) \in Seq(Byte) /\ Len(WireOf(m)) \in Nat
  BY <1>6, WireOfFacts
<1>9. /\ sent \in Seq(Sent) /\ Len(sent) \in Nat /\ MaxPackets \in Nat
      /\ received \in Seq(Packet) /\ Len(received) \in Nat
      /\ Len(received) <= Len(sent)
  BY <1>1, FramingAssumption DEF FramingTypeOK
<1>10. /\ sent' \in Seq(Sent) /\ Len(sent') = Len(sent) + 1 /\ sent' # <<>>
       /\ sent'[Len(sent')] = m
  BY <1>6, <1>7, <1>9, AppendProperties
<1>11. FramingTypeOK'
  BY <1>1, <1>3, <1>7, <1>8, <1>9, <1>10 DEF FramingTypeOK
<1>12. Held' = Held \o WireOf(m) /\ Held = WireAfter(sent, Upcoming) /\ Upcoming' = Upcoming
  <2> DEFINE x == header \o payload \o stream
  <2>1. x \in Seq(Byte)
    BY <1>1, ConcatBytes DEF FramingTypeOK
  <2>2. Held = x \o <<>> /\ Held' = x \o WireOf(m)
    BY <1>3, <1>7 DEF Held
  <2> HIDE DEF x
  <2>3. Held' = Held \o WireOf(m)
    BY <2>1, <2>2, ConcatBytes
  <2> QED
    BY <1>1, <1>3, <2>3 DEF Place, Upcoming
<1>13. Held' = WireAfter(sent', Upcoming')
  <2>1. Upcoming \in 1 .. Len(sent) + 1
    BY <1>9 DEF Upcoming
  <2>2. WireAfter(Append(sent, m), Upcoming) = WireAfter(sent, Upcoming) \o WireOf(m)
    BY <1>3, <1>6, <1>9, <2>1, WireGrows
  <2> QED
    BY <1>7, <1>12, <2>2
<1>14. Place'
  BY <1>13 DEF Place, Begins
<1>15. Buffers'
  BY <1>1, <1>3 DEF Buffers
<1>16. Unsent'
  BY <1>3, <1>7, <1>8, <1>10 DEF Unsent
<1>17. CutOff'
  BY <1>3 DEF CutOff
<1>18. Channel!SendMessage
  BY <1>2, <1>3 DEF Channel!SendMessage
<1> QED
  BY <1>11, <1>14, <1>15, <1>16, <1>17, <1>18 DEF FramingInv

LEMMA SendSomeStep ==
  ASSUME FramingInv, SendSome
  PROVE  FramingInv' /\ UNCHANGED <<sent, received, reader>>
<1>1. FramingTypeOK /\ Place /\ Buffers /\ Unsent /\ CutOff
  BY DEF FramingInv
<1>2. PICK n \in 1 .. Len(outgoing) :
        /\ stream' = stream \o First(outgoing, n)
        /\ outgoing' = After(outgoing, n)
  BY DEF SendSome, Remaining
<1>3. UNCHANGED <<writer, reader, header, payload, sent, received>>
  BY DEF SendSome
<1>4. /\ header \in Seq(Byte) /\ payload \in Seq(Byte)
      /\ stream \in Seq(Byte) /\ outgoing \in Seq(Byte)
  BY <1>1 DEF FramingTypeOK
<1>5. /\ First(outgoing, n) \in Seq(Byte) /\ After(outgoing, n) \in Seq(Byte)
      /\ Len(After(outgoing, n)) = Len(outgoing) - n
  BY <1>4, FirstAndAfter
<1>6. stream' \in Seq(Byte) /\ outgoing' \in Seq(Byte)
  BY <1>2, <1>4, <1>5, ConcatBytes
<1>7. FramingTypeOK'
  BY <1>1, <1>3, <1>6 DEF FramingTypeOK
<1>8. Held' = Held
  <2> DEFINE a == header \o payload
  <2>1. a \in Seq(Byte)
    BY <1>4, ConcatBytes
  <2>2. Held = (a \o stream) \o outgoing /\ Held' = (a \o stream') \o outgoing'
    BY <1>3 DEF Held
  <2> HIDE DEF a
  <2>3. (a \o (stream \o First(outgoing, n))) \o After(outgoing, n)
          = (a \o stream) \o outgoing
    <3>1. stream \in Seq(Byte) /\ outgoing \in Seq(Byte)
      BY <1>4
    <3>2. \A t \in Seq(Byte) : \A k \in 1 .. Len(t) :
            (a \o (stream \o First(t, k))) \o After(t, k) = (a \o stream) \o t
      BY <2>1, <3>1, BytesMove, Zenon
    <3> QED
      BY <3>1, <3>2, Zenon
  <2> QED
    BY <1>2, <2>2, <2>3
<1>9. Place' /\ Buffers' /\ CutOff'
  BY <1>1, <1>3, <1>8 DEF Place, Buffers, CutOff, Upcoming, HeaderWanted
<1>10. Unsent'
  <2>1. outgoing # <<>> /\ Len(outgoing) \in Nat
    BY <1>2, <1>4
  <2>2. /\ writer = "open" /\ sent # <<>>
        /\ Len(outgoing) <= Len(WireOf(sent[Len(sent)]))
    BY <1>1, <2>1 DEF Unsent
  <2>3. Len(outgoing') <= Len(outgoing)
    BY <1>2, <1>5, <2>1
  <2>4. WireOf(sent[Len(sent)]) \in Seq(Byte)
    <3>1. Len(sent) \in 1 .. Len(sent)
      BY <1>1, <2>2, EmptySeq DEF FramingTypeOK
    <3> QED
      BY <1>1, <3>1, ElementOfSeq, WireOfFacts DEF FramingTypeOK
  <2>5. Len(outgoing') <= Len(WireOf(sent[Len(sent)]))
    <3>1. Len(outgoing') \in Nat /\ Len(WireOf(sent[Len(sent)])) \in Nat
      BY <1>6, <2>4
    <3> QED
      BY <2>1, <2>2, <2>3, <3>1
  <2> QED
    BY <1>3, <2>2, <2>5 DEF Unsent
<1> QED
  BY <1>3, <1>7, <1>9, <1>10 DEF FramingInv

LEMMA WriterCloseStep ==
  ASSUME FramingInv, WriterClose
  PROVE  FramingInv' /\ UNCHANGED <<sent, received, reader>>
<1>1. FramingTypeOK /\ Place /\ Buffers /\ Unsent /\ CutOff
  BY DEF FramingInv
<1>2. /\ writer = "open" /\ writer' = "closed" /\ outgoing' = <<>>
      /\ UNCHANGED <<stream, reader, header, payload, sent, received>>
  BY DEF WriterClose
<1>3. /\ header \in Seq(Byte) /\ payload \in Seq(Byte)
      /\ stream \in Seq(Byte) /\ outgoing \in Seq(Byte)
      /\ sent \in Seq(Sent) /\ Len(sent) \in Nat /\ Len(sent) <= MaxPackets
      /\ received \in Seq(Packet) /\ Len(received) \in Nat
      /\ Len(received) <= Len(sent)
  BY <1>1 DEF FramingTypeOK
<1>4. FramingTypeOK'
  BY <1>1, <1>2 DEF FramingTypeOK
<1> DEFINE x == header \o payload \o stream
           W == WireAfter(sent, Upcoming)
<1>5. x \in Seq(Byte) /\ Held = x \o outgoing /\ Held' = x
  <2>1. x \in Seq(Byte)
    BY <1>3, ConcatBytes
  <2>2. Held = x \o outgoing /\ Held' = x \o <<>>
    BY <1>2 DEF Held
  <2> HIDE DEF x
  <2> QED
    BY <2>1, <2>2, ConcatBytes
<1>6. Held = W /\ Upcoming' = Upcoming
  BY <1>1, <1>2 DEF Place, Upcoming
<1> HIDE DEF x, W
<1>7. Begins(Held', W)
  <2>1. Begins(x, x \o outgoing)
    BY <1>3, <1>5, BeginsConcat
  <2> QED
    BY <1>5, <1>6, <2>1
<1>8. Place' /\ Buffers' /\ Unsent'
  <2>1. W = WireAfter(sent', Upcoming')
    BY <1>2, <1>6 DEF W
  <2> QED
    BY <1>1, <1>2, <1>7, <2>1 DEF Place, Buffers, Unsent
<1>9. CutOff'
  <2> SUFFICES ASSUME Len(received) < Len(sent)
               PROVE  Len(WireAfter(AllButLast(sent), Upcoming)) <= Len(x)
    BY <1>2, <1>5, <1>6 DEF CutOff
  <2> DEFINE V == WireAfter(AllButLast(sent), Upcoming)
             z == WireOf(sent[Len(sent)])
  <2>1. sent # <<>> /\ Upcoming \in 1 .. Len(sent)
    BY <1>3 DEF Upcoming
  <2>2. W = V \o z /\ sent[Len(sent)] \in Sent
        /\ AllButLast(sent) \in Seq(Sent) /\ Len(AllButLast(sent)) = Len(sent) - 1
    BY <1>3, <2>1, LastSent DEF W
  <2>3. V \in Seq(Byte) /\ z \in Seq(Byte)
    <3>1. Upcoming \in 1 .. MaxPackets + 1 /\ Len(AllButLast(sent)) <= MaxPackets
      BY <1>3, <2>1, <2>2, FramingAssumption
    <3> QED
      BY <2>2, <3>1, WireType, WireOfFacts
  <2>4. outgoing # <<>> => Len(outgoing) <= Len(z)
    BY <1>1 DEF Unsent
  <2> HIDE DEF V, z
  <2>5. Len(outgoing) <= Len(z)
    BY <2>3, <2>4
  <2>6. Len(x) + Len(outgoing) = Len(V) + Len(z)
    <3>1. x \o outgoing = V \o z
      BY <1>5, <1>6, <2>2
    <3>2. Len(x \o outgoing) = Len(x) + Len(outgoing)
      BY <1>3, <1>5, ConcatBytes
    <3>3. Len(V \o z) = Len(V) + Len(z)
      BY <2>3, ConcatBytes
    <3> QED
      BY <3>1, <3>2, <3>3
  <2>7. Len(x) \in Nat /\ Len(outgoing) \in Nat /\ Len(V) \in Nat /\ Len(z) \in Nat
    BY <1>3, <1>5, <2>3
  <2>8. Len(V) <= Len(x)
    BY <2>5, <2>6, <2>7
  <2> QED
    BY <2>8 DEF V
<1> QED
  BY <1>2, <1>4, <1>8, <1>9 DEF FramingInv

(* The reader's steps.                                                     *)
LEMMA ReadHeaderStep ==
  ASSUME FramingInv, ReadHeader
  PROVE  FramingInv' /\ UNCHANGED <<sent, received, reader>>
<1>1. FramingTypeOK /\ Place /\ Buffers /\ Unsent /\ CutOff
  BY DEF FramingInv
<1>2. PICK n \in 1 .. HeaderWanted :
        /\ n <= Len(stream)
        /\ header' = header \o First(stream, n)
        /\ stream' = After(stream, n)
  BY DEF ReadHeader
<1>3. UNCHANGED <<writer, outgoing, reader, payload, sent, received>>
  BY DEF ReadHeader
<1>4. /\ header \in Seq(Byte) /\ payload \in Seq(Byte)
      /\ stream \in Seq(Byte) /\ outgoing \in Seq(Byte)
      /\ Len(header) \in Nat /\ Len(stream) \in Nat
  BY <1>1 DEF FramingTypeOK
<1>5. n \in 1 .. Len(stream) /\ Len(header) + n <= 16 /\ Len(header) # 16
  <2>1. PICK l \in Nat, k \in Nat : l = Len(header) /\ k = Len(stream)
    BY <1>4
  <2>2. n \in 1 .. 16 - l /\ n <= k
    BY <1>2, <2>1 DEF HeaderWanted, kHeaderSize
  <2>3. n \in 1 .. k /\ l + n <= 16 /\ l # 16
    BY <2>2
  <2> QED
    BY <2>1, <2>3
<1>6. payload = <<>>
  BY <1>1, <1>5 DEF Buffers
<1>7. /\ First(stream, n) \in Seq(Byte) /\ Len(First(stream, n)) = n
      /\ After(stream, n) \in Seq(Byte)
  BY <1>4, <1>5, FirstAndAfter
<1>8. header' \in Seq(Byte) /\ stream' \in Seq(Byte) /\ Len(header') = Len(header) + n
  <2>1. /\ header \o First(stream, n) \in Seq(Byte)
        /\ Len(header \o First(stream, n)) = Len(header) + Len(First(stream, n))
    BY <1>4, <1>7, ConcatBytes
  <2> QED
    BY <1>2, <1>7, <2>1
<1>9. FramingTypeOK'
  BY <1>1, <1>3, <1>8 DEF FramingTypeOK
<1>10. Held' = Held
  <2>1. /\ <<>> \in Seq(Byte)
        /\ <<>> \o (header \o First(stream, n)) = header \o First(stream, n)
        /\ <<>> \o header = header /\ header \o <<>> = header /\ header' \o <<>> = header'
    BY <1>2, <1>4, <1>8, ConcatBytes
  <2>2. (<<>> \o (header \o First(stream, n))) \o After(stream, n)
          = (<<>> \o header) \o stream
    <3>1. header \in Seq(Byte) /\ stream \in Seq(Byte) /\ <<>> \in Seq(Byte)
      BY <1>4
    <3>2. \A t \in Seq(Byte) : \A k \in 1 .. Len(t) :
            (<<>> \o (header \o First(t, k))) \o After(t, k) = (<<>> \o header) \o t
      BY <3>1, BytesMove, Zenon
    <3> QED
      BY <1>5, <3>1, <3>2, Zenon
  <2>3. header' \o stream' = header \o stream
    BY <1>2, <2>1, <2>2
  <2>4. /\ Held = ((header \o <<>>) \o stream) \o outgoing
        /\ Held' = ((header' \o <<>>) \o stream') \o outgoing
    BY <1>3, <1>6 DEF Held
  <2> QED
    BY <2>1, <2>3, <2>4
<1>11. Place' /\ CutOff' /\ Unsent'
  BY <1>1, <1>3, <1>10 DEF Place, CutOff, Unsent, Upcoming
<1>12. Buffers'
  BY <1>3, <1>5, <1>6, <1>8 DEF Buffers
<1> QED
  BY <1>3, <1>9, <1>11, <1>12 DEF FramingInv

LEMMA ReadPayloadStep ==
  ASSUME FramingInv, ReadPayload
  PROVE  FramingInv' /\ UNCHANGED <<sent, received, reader>>
<1>1. FramingTypeOK /\ Place /\ Buffers /\ Unsent /\ CutOff
  BY DEF FramingInv
<1>2. PICK n \in 1 .. PayloadWanted :
        /\ n <= Len(stream)
        /\ payload' = payload \o First(stream, n)
        /\ stream' = After(stream, n)
  BY DEF ReadPayload
<1>3. UNCHANGED <<writer, outgoing, reader, header, sent, received>>
  BY DEF ReadPayload
<1>4. /\ header \in Seq(Byte) /\ payload \in Seq(Byte)
      /\ stream \in Seq(Byte) /\ outgoing \in Seq(Byte)
      /\ Len(header) \in Nat /\ Len(stream) \in Nat /\ Len(payload) \in Nat
  BY <1>1 DEF FramingTypeOK
<1>5. HeaderWanted = 0 /\ HasLength(header)
      /\ PayloadWanted = get_payload_length(header) - Len(payload)
  <2>1. PayloadWanted # 0
    BY <1>2
  <2> QED
    BY <2>1 DEF PayloadWanted
<1>6. Len(header) = 16
  BY <1>4, <1>5 DEF HeaderWanted, kHeaderSize
<1>7. get_payload_length(header) \in Nat
  <2>1. get_payload_length(header) = Len(sent[Upcoming].message.payload)
        /\ sent[Upcoming] \in Sent
    BY <1>6, HeaderIsNext
  <2> QED
    BY <2>1, WireOfFacts
<1>8. n \in 1 .. Len(stream) /\ Len(payload) + n <= get_payload_length(header)
  <2>1. n \in 1 .. get_payload_length(header) - Len(payload) /\ n <= Len(stream)
    BY <1>2, <1>5
  <2> QED
    BY <1>4, <1>7, <2>1
<1>9. /\ First(stream, n) \in Seq(Byte) /\ Len(First(stream, n)) = n
      /\ After(stream, n) \in Seq(Byte)
  BY <1>4, <1>8, FirstAndAfter
<1>10. payload' \in Seq(Byte) /\ stream' \in Seq(Byte) /\ Len(payload') = Len(payload) + n
  <2>1. /\ payload \o First(stream, n) \in Seq(Byte)
        /\ Len(payload \o First(stream, n)) = Len(payload) + Len(First(stream, n))
    BY <1>4, <1>9, ConcatBytes
  <2> QED
    BY <1>2, <1>9, <2>1
<1>11. FramingTypeOK'
  BY <1>1, <1>3, <1>10 DEF FramingTypeOK
<1>12. Held' = Held
  <2>1. (header \o (payload \o First(stream, n))) \o After(stream, n)
          = (header \o payload) \o stream
    <3>1. header \in Seq(Byte) /\ payload \in Seq(Byte) /\ stream \in Seq(Byte)
      BY <1>4
    <3>2. \A t \in Seq(Byte) : \A k \in 1 .. Len(t) :
            (header \o (payload \o First(t, k))) \o After(t, k)
              = (header \o payload) \o t
      BY <3>1, BytesMove, Zenon
    <3> QED
      BY <1>8, <3>1, <3>2, Zenon
  <2>2. (header' \o payload') \o stream' = (header \o payload) \o stream
    BY <1>2, <1>3, <2>1
  <2> QED
    BY <1>3, <2>2 DEF Held
<1>13. Place' /\ CutOff' /\ Unsent'
  BY <1>1, <1>3, <1>12 DEF Place, CutOff, Unsent, Upcoming
<1>14. Buffers'
  BY <1>3, <1>5, <1>6, <1>8, <1>10 DEF Buffers
<1> QED
  BY <1>3, <1>11, <1>13, <1>14 DEF FramingInv

LEMMA ReturnPacketStep ==
  ASSUME FramingInv, ReturnPacket
  PROVE  FramingInv' /\ Channel!Deliver
<1>1. FramingTypeOK /\ Place /\ Buffers /\ Unsent /\ CutOff
  BY DEF FramingInv
<1>2. /\ reader = "reading" /\ Complete /\ Accepts(header, payload)
      /\ received' = Append(received, decode_packet(header, payload))
      /\ header' = <<>> /\ payload' = <<>>
      /\ UNCHANGED <<writer, outgoing, stream, reader, sent>>
  BY DEF ReturnPacket, NewBuffer
<1> DEFINE m == sent[Upcoming]
           w == WireOf(m)
           V == WireAfter(sent, Upcoming + 1)
           y == stream \o outgoing
<1>3. /\ Upcoming \in 1 .. Len(sent) /\ m \in Sent /\ m.intact
      /\ header \o payload = w
      /\ decode_packet(header, payload) = m.message
      /\ WireAfter(sent, Upcoming) = w \o V
      /\ V \in Seq(Byte)
  BY <1>2, CompleteIsNext
<1>4. /\ sent \in Seq(Sent) /\ Len(sent) \in Nat /\ Len(sent) <= MaxPackets
      /\ received \in Seq(Packet) /\ Len(received) \in Nat
      /\ stream \in Seq(Byte) /\ outgoing \in Seq(Byte)
      /\ Upcoming = Len(received) + 1
  BY <1>1 DEF FramingTypeOK, Upcoming
<1>5. m.message \in Packet /\ w \in Seq(Byte)
  BY <1>3, WireOfFacts
<1>6. /\ received' \in Seq(Packet) /\ Len(received') = Upcoming
      /\ received' = Append(received, m.message)
  BY <1>2, <1>3, <1>4, <1>5, AppendProperties
<1>7. Upcoming' = Upcoming + 1
  BY <1>6 DEF Upcoming
<1>8. FramingTypeOK'
  BY <1>1, <1>2, <1>3, <1>4, <1>6 DEF FramingTypeOK
<1>9. Held = w \o y /\ Held' = y /\ y \in Seq(Byte)
  <2>1. Held = w \o y /\ y \in Seq(Byte)
    BY <1>1, <1>3, HeldBytes
  <2>2. Held' = ((<<>> \o <<>>) \o stream) \o outgoing
    BY <1>2 DEF Held
  <2>3. <<>> \o <<>> = <<>> /\ <<>> \o stream = stream
    BY <1>4, ConcatBytes
  <2> QED
    BY <2>1, <2>2, <2>3
<1>10. Place'
  <2>1. WireAfter(sent', Upcoming') = V
    BY <1>2, <1>7
  <2> HIDE DEF w, y, V
  <2>2. Begins(w \o y, w \o V)
    BY <1>1, <1>3, <1>9 DEF Place
  <2>3. Begins(y, V)
    BY <1>3, <1>5, <1>9, <2>2, BeginsConcat
  <2>4. writer = "open" => y = V
    <3>1. writer = "open" => w \o y = w \o V
      BY <1>1, <1>3, <1>9 DEF Place
    <3> QED
      BY <1>3, <1>5, <1>9, <3>1, ConcatSimplifications
  <2> QED
    BY <1>2, <1>9, <2>1, <2>3, <2>4 DEF Place
<1>11. Buffers' /\ Unsent'
  BY <1>1, <1>2 DEF Buffers, Unsent
<1>12. CutOff'
  <2> SUFFICES ASSUME writer = "closed", Upcoming < Len(sent)
               PROVE  Len(WireAfter(AllButLast(sent), Upcoming + 1)) <= Len(y)
    BY <1>2, <1>6, <1>7, <1>9 DEF CutOff
  <2> DEFINE t == AllButLast(sent)
             U == WireAfter(t, Upcoming + 1)
  <2>1. sent # <<>> /\ Upcoming \in 1 .. Len(sent) - 1
    BY <1>3, <1>4
  <2>2. t \in Seq(Sent) /\ Len(t) = Len(sent) - 1 /\ t[Upcoming] = m
    BY <1>4, <2>1, LastSent
  <2>3. /\ Upcoming \in 1 .. MaxPackets + 1 /\ Upcoming + 1 \in 1 .. MaxPackets + 1
        /\ Len(t) <= MaxPackets /\ ~(Upcoming > Len(t))
    BY <1>3, <1>4, <2>1, <2>2, FramingAssumption
  <2> HIDE DEF t
  <2>4. WireAfter(t, Upcoming) = w \o U /\ U \in Seq(Byte)
    BY <2>2, <2>3, WireUnfolds, WireType
  <2>5. Len(WireAfter(t, Upcoming)) <= Len(Held)
    <3>1. Len(received) < Len(sent)
      BY <1>3, <1>4
    <3> QED
      BY <1>1, <3>1 DEF CutOff, t
  <2> HIDE DEF U, w, y
  <2>6. /\ Len(w \o U) = Len(w) + Len(U) /\ Len(w \o y) = Len(w) + Len(y)
        /\ Len(w) \in Nat /\ Len(U) \in Nat /\ Len(y) \in Nat
    BY <1>5, <1>9, <2>4, ConcatBytes
  <2>7. Len(U) <= Len(y)
    BY <1>9, <2>4, <2>5, <2>6
  <2> QED
    BY <2>7 DEF U, t
<1>13. Channel!Deliver
  <2>1. Len(received) < Len(sent)
    BY <1>3, <1>4
  <2>2. Channel!Ahead = m
    BY DEF Channel!Ahead, Upcoming
  <2> QED
    BY <1>2, <1>3, <1>6, <2>1, <2>2 DEF Channel!Deliver
<1> QED
  BY <1>8, <1>10, <1>11, <1>12, <1>13 DEF FramingInv

LEMMA RefuseStep ==
  ASSUME FramingInv, Refuse
  PROVE  FramingInv' /\ Channel!RefuseDamaged
<1>1. FramingTypeOK /\ Place /\ Buffers /\ Unsent /\ CutOff
  BY DEF FramingInv
<1>2. /\ reader = "reading" /\ HeaderWanted = 0 /\ reader' = "refused"
      /\ \/ ~HasLength(header)
         \/ Complete /\ ~Accepts(header, payload)
      /\ UNCHANGED <<writer, outgoing, stream, header, payload, sent, received>>
  BY DEF Refuse
<1>3. FramingInv'
  <2>1. FramingTypeOK'
    BY <1>1, <1>2 DEF FramingTypeOK
  <2>2. Held' = Held /\ Upcoming' = Upcoming
    BY <1>2 DEF Held, Upcoming
  <2>3. Place' /\ Buffers' /\ Unsent' /\ CutOff'
    BY <1>1, <1>2, <2>2 DEF Place, Buffers, Unsent, CutOff
  <2> QED
    BY <2>1, <2>3 DEF FramingInv
<1>4. Len(header) \in Nat /\ Len(header) = 16
  BY <1>1, <1>2 DEF FramingTypeOK, HeaderWanted, kHeaderSize
<1>5. HasLength(header)
  BY <1>4, HeaderIsNext
<1>6. Upcoming \in 1 .. Len(sent) /\ ~sent[Upcoming].intact
  BY <1>2, <1>5, CompleteIsNext
<1>7. Len(received) < Len(sent) /\ Channel!Ahead = sent[Upcoming]
  <2>1. Len(received) \in Nat /\ Len(sent) \in Nat
    BY <1>1 DEF FramingTypeOK
  <2> QED
    BY <1>6, <2>1 DEF Channel!Ahead, Upcoming
<1> QED
  BY <1>2, <1>3, <1>6, <1>7 DEF Channel!RefuseDamaged

LEMMA ReadEOFStep ==
  ASSUME FramingInv, ReadEOF
  PROVE  FramingInv' /\ Channel!EndOfStream
<1>1. FramingTypeOK /\ Place /\ Buffers /\ Unsent /\ CutOff
  BY DEF FramingInv
<1>2. /\ reader = "reading" /\ EndsHere /\ stream = <<>> /\ writer = "closed"
      /\ reader' = "eof"
      /\ UNCHANGED <<writer, outgoing, stream, header, payload, sent, received>>
  BY DEF ReadEOF
<1>3. FramingInv'
  <2>1. FramingTypeOK'
    BY <1>1, <1>2 DEF FramingTypeOK
  <2>2. Held' = Held /\ Upcoming' = Upcoming
    BY <1>2 DEF Held, Upcoming
  <2>3. Place' /\ Buffers' /\ Unsent' /\ CutOff'
    BY <1>1, <1>2, <2>2 DEF Place, Buffers, Unsent, CutOff
  <2> QED
    BY <2>1, <2>3 DEF FramingInv
<1>4. /\ header \in Seq(Byte) /\ payload \in Seq(Byte)
      /\ Len(header) \in Nat /\ Len(payload) \in Nat
      /\ sent \in Seq(Sent) /\ Len(sent) \in Nat /\ Len(sent) <= MaxPackets
      /\ Len(received) \in Nat /\ Upcoming = Len(received) + 1
  BY <1>1 DEF FramingTypeOK, Upcoming
<1>5. ASSUME Len(received) < Len(sent) - 1 PROVE FALSE
  <2> DEFINE t == AllButLast(sent)
             m == sent[Upcoming]
  <2>1. sent # <<>> /\ Upcoming \in 1 .. Len(sent) - 1
    BY <1>4, <1>5
  <2>2. t \in Seq(Sent) /\ Len(t) = Len(sent) - 1 /\ t[Upcoming] = m
    BY <1>4, <2>1, LastSent
  <2>3. /\ Upcoming \in 1 .. MaxPackets + 1 /\ Upcoming + 1 \in 1 .. MaxPackets + 1
        /\ Len(t) <= MaxPackets /\ ~(Upcoming > Len(t)) /\ Upcoming \in 1 .. Len(t)
    BY <1>4, <2>1, <2>2, FramingAssumption
  <2>4. m \in Sent
    BY <2>2, <2>3, ElementOfSeq
  <2> HIDE DEF t
  <2>5. /\ WireAfter(t, Upcoming) = WireOf(m) \o WireAfter(t, Upcoming + 1)
        /\ WireAfter(t, Upcoming + 1) \in Seq(Byte)
    BY <2>2, <2>3, WireUnfolds, WireType
  <2>6. /\ WireOf(m) \in Seq(Byte) /\ Len(m.message.payload) \in Nat
        /\ Len(WireOf(m)) = 16 + Len(m.message.payload)
    BY <2>4, WireOfFacts
  <2>7. Len(Held) = Len(header) + Len(payload)
    <3>1. stream = <<>> /\ outgoing = <<>>
      BY <1>1, <1>2 DEF Unsent
    <3>2. Len(stream) = 0 /\ Len(outgoing) = 0
      BY <3>1
    <3> QED
      BY <1>1, <1>4, <3>2, HeldBytes
  <2>8. Len(header) + Len(payload) >= 16 + Len(m.message.payload)
    <3>1. Len(WireAfter(t, Upcoming)) <= Len(Held)
      BY <1>1, <1>2, <1>4, <1>5 DEF CutOff, t
    <3>2. Len(WireAfter(t, Upcoming)) = Len(WireOf(m)) + Len(WireAfter(t, Upcoming + 1))
      BY <2>5, <2>6, ConcatBytes
    <3>3. Len(WireAfter(t, Upcoming + 1)) \in Nat
      BY <2>5
    <3>4. PICK a \in Nat, b \in Nat, c \in Nat, d \in Nat :
            /\ a = Len(header) /\ b = Len(payload)
            /\ c = Len(m.message.payload) /\ d = Len(WireAfter(t, Upcoming + 1))
      BY <1>4, <2>6, <3>3
    <3>5. (16 + c) + d <= a + b
      BY <2>6, <2>7, <3>1, <3>2, <3>4
    <3>6. a + b >= 16 + c
      BY <3>5
    <3> QED
      BY <3>4, <3>6, Zenon
  <2>9. Len(header) = 16
    <3>1. Len(header) <= 16 /\ (payload = <<>> \/ Len(header) = 16)
      BY <1>1 DEF Buffers
    <3>2. payload = <<>> => Len(payload) = 0
      OBVIOUS
    <3>3. PICK a \in Nat, b \in Nat, c \in Nat :
            a = Len(header) /\ b = Len(payload) /\ c = Len(m.message.payload)
      BY <1>4, <2>6
    <3>4. a + b >= 16 + c /\ a <= 16 /\ (b = 0 \/ a = 16)
      BY <2>8, <3>1, <3>2, <3>3
    <3>5. a = 16
      BY <3>4
    <3> QED
      BY <3>3, <3>5
  <2>10. /\ get_payload_length(header) = Len(m.message.payload)
         /\ Len(payload) <= Len(m.message.payload)
    BY <2>9, HeaderIsNext
  <2>11. Len(payload) = Len(m.message.payload)
    BY <1>4, <2>6, <2>8, <2>9, <2>10
  <2>12. HeaderWanted = 0
    BY <2>9 DEF HeaderWanted, kHeaderSize
  <2>13. PayloadWanted = 0
    BY <1>4, <2>10, <2>11 DEF PayloadWanted
  <2> QED
    BY <1>2, <2>12, <2>13 DEF EndsHere
<1>6. Len(received) >= Len(sent) - 1
  BY <1>4, <1>5
<1> QED
  BY <1>2, <1>3, <1>6 DEF Channel!EndOfStream

-----------------------------------------------------------------------------
LEMMA FramingStart ==
  ASSUME FramingInit
  PROVE  FramingInv /\ Channel!ChannelInit
<1>1. /\ writer = "open" /\ reader = "reading" /\ outgoing = <<>> /\ stream = <<>>
      /\ header = <<>> /\ payload = <<>> /\ sent = <<>> /\ received = <<>>
  BY DEF FramingInit
<1>2. FramingTypeOK
  BY <1>1, FramingAssumption DEF FramingTypeOK
<1>3. Held = <<>>
  BY <1>1 DEF Held
<1>4. WireAfter(sent, Upcoming) = <<>>
  <2>1. sent \in Seq(Sent) /\ Len(sent) = 0 /\ Upcoming = 1 /\ MaxPackets \in Nat
    BY <1>1, FramingAssumption DEF Upcoming
  <2>2. Upcoming \in 1 .. MaxPackets + 1 /\ Upcoming > Len(sent) /\ Len(sent) <= MaxPackets
    BY <2>1
  <2> QED
    BY <2>1, <2>2, WireUnfolds
<1>5. Place
  BY <1>3, <1>4 DEF Place, Begins
<1>6. Buffers /\ Unsent /\ CutOff
  BY <1>1 DEF Buffers, Unsent, CutOff
<1>7. Channel!ChannelInit
  BY <1>1 DEF Channel!ChannelInit
<1> QED
  BY <1>2, <1>5, <1>6, <1>7 DEF FramingInv

(* Every step keeps the invariant, and is a step of the channel or none.   *)
LEMMA FramingStep ==
  ASSUME FramingInv, [FramingNext]_framingVars
  PROVE  FramingInv' /\ [Channel!ChannelNext]_Channel!channelVars
<1>1. CASE SendPacket
  BY <1>1, SendPacketStep DEF Channel!ChannelNext
<1>2. CASE SendSome
  BY <1>2, SendSomeStep DEF Channel!channelVars
<1>3. CASE WriterClose
  BY <1>3, WriterCloseStep DEF Channel!channelVars
<1>4. CASE ReadHeader
  BY <1>4, ReadHeaderStep DEF Channel!channelVars
<1>5. CASE ReadPayload
  BY <1>5, ReadPayloadStep DEF Channel!channelVars
<1>6. CASE ReturnPacket
  BY <1>6, ReturnPacketStep DEF Channel!ChannelNext
<1>7. CASE Refuse
  BY <1>7, RefuseStep DEF Channel!ChannelNext
<1>8. CASE ReadEOF
  BY <1>8, ReadEOFStep DEF Channel!ChannelNext
<1>9. CASE UNCHANGED framingVars
  <2>1. UNCHANGED <<writer, outgoing, stream, reader, header, payload, sent, received>>
    BY <1>9 DEF framingVars
  <2>2. FramingTypeOK' /\ Held' = Held /\ Upcoming' = Upcoming
    BY <2>1 DEF FramingInv, FramingTypeOK, Held, Upcoming
  <2>3. Place' /\ Buffers' /\ Unsent' /\ CutOff'
    BY <2>1, <2>2 DEF FramingInv, Place, Buffers, Unsent, CutOff
  <2> QED
    BY <2>1, <2>2, <2>3 DEF FramingInv, Channel!channelVars
<1> QED
  BY <1>1, <1>2, <1>3, <1>4, <1>5, <1>6, <1>7, <1>8, <1>9
  DEF FramingNext, Write, Read

LEMMA FramingInvariant == FramingSpec => []FramingInv
<1>1. FramingInit => FramingInv
  BY FramingStart
<1>2. FramingInv /\ [FramingNext]_framingVars => FramingInv'
  BY FramingStep
<1> QED
  BY <1>1, <1>2, PTL DEF FramingSpec

(* The reader never loses its place: for every limit, all packets and any  *)
(* number of them, and however the kernel divides the bytes between        *)
(* send_all and recv_exact, what is still to be read is exactly the        *)
(* packets not yet received.                                               *)
THEOREM ReaderKeepsItsPlace == FramingSpec => []InStep
<1>1. FramingInv => InStep
  <2> SUFFICES ASSUME FramingInv PROVE InStep
    OBVIOUS
  <2>1. FramingTypeOK /\ Place
    BY DEF FramingInv
  <2>2. Wire \in Seq(Byte)
    <3>1. Upcoming \in 1 .. MaxPackets + 1
      <4>1. Len(received) \in Nat /\ Len(sent) \in Nat /\ MaxPackets \in Nat
            /\ Len(received) <= Len(sent) /\ Len(sent) <= MaxPackets
        BY <2>1, FramingAssumption DEF FramingTypeOK
      <4> QED
        BY <4>1 DEF Upcoming
    <3> QED
      BY <2>1, <3>1, WireType, WireIs DEF FramingTypeOK
  <2>3. Begins(Held, Wire) /\ (writer = "open" => Held = Wire)
    BY <2>1, WireIs DEF Place
  <2>4. Held \in Seq(Byte)
    BY <2>1, HeldBytes
  <2>5. Len(Held) <= Len(Wire) /\ Held = First(Wire, Len(Held))
    BY <2>2, <2>3, <2>4, BeginsIsFirst
  <2> QED
    BY <2>3, <2>5 DEF InStep, Held
<1> QED
  BY <1>1, FramingInvariant, PTL

(* The byte stream implements the channel of packets: every step of the    *)
(* four functions is a step of PacketChannel or leaves it alone.  What is  *)
(* returned is the next packet, a damaged one is always refused, and the   *)
(* end of the stream costs the packet that was being written and no other. *)
THEOREM StreamIsChannel == FramingSpec => ImplementsChannel
<1>1. FramingInit => Channel!ChannelInit
  BY FramingStart
<1>2. FramingInv /\ [FramingNext]_framingVars =>
        [Channel!ChannelNext]_Channel!channelVars
  BY FramingStep
<1> QED
  BY <1>1, <1>2, FramingInvariant, PTL
  DEF FramingSpec, ImplementsChannel, Channel!ChannelSpec

=============================================================================
