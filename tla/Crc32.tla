------------------------------- MODULE Crc32 -------------------------------
(***************************************************************************)
(* protocol/crc32.cpp.  A byte or a 32 bit word is the set of its bits     *)
(* that are 1, bit 0 the least significant: exclusive or is the symmetric  *)
(* difference, and a byte is the word with the same value.                 *)
(***************************************************************************)
EXTENDS Integers, Sequences

Width    == 32
Byte     == SUBSET (0 .. 7)
Word     == SUBSET (0 .. Width - 1)
AllOnes  == 0 .. Width - 1

(* 0xEDB88320                                                              *)
Polynomial == {31, 30, 29, 27, 26, 24, 23, 21, 20, 19, 15, 9, 8, 5}

Xor(v, w)     == (v \ w) \cup (w \ v)

(* Faulty variants, here and in the other modules, are never part of the   *)
(* specification.  The low bit is not dropped.                             *)
ShiftRight_KeepsLowBit(w) == {b - 1 : b \in w}

ShiftRight(w) == {b - 1 : b \in w \ {0}}

(* The bit that leaves the word is ignored; it is tested after the shift.  *)
BitStep_ShiftOnly == [crc \in Word |-> ShiftRight(crc)]

BitStep_TestsLate ==
  [crc \in Word |->
     IF 1 \in crc THEN Xor(ShiftRight(crc), Polynomial) ELSE ShiftRight(crc)]

(* One turn of the inner loop.                                             *)
BitStep ==
  [crc \in Word |->
     IF 0 \in crc THEN Xor(ShiftRight(crc), Polynomial) ELSE ShiftRight(crc)]

BitSteps4(crc) == BitStep[BitStep[BitStep[BitStep[crc]]]]

(* One turn of the outer loop: what a byte does to the register.           *)
ByteStep(byte) == [crc \in Word |-> BitSteps4(BitSteps4(Xor(crc, byte)))]

(* The register after the loop.                                            *)
Register ==
  [data \in Seq(Byte) |->
     LET crc[i \in 0 .. Len(data)] ==
           IF i = 0 THEN AllOnes ELSE ByteStep(data[i])[crc[i - 1]]
     IN  crc[Len(data)]]

(* The final exclusive or with 0xFFFFFFFF.                                 *)
Complement(w) == AllOnes \ w

crc32(data) == Complement(Register[data])

=============================================================================
