-------------------------------- MODULE MCCrc --------------------------------
(***************************************************************************)
(* The CRC for TLC: messages of some bytes, up to a length.                *)
(***************************************************************************)
EXTENDS CrcDetection

CONSTANT MaxLength       \* bound: bytes of a message

(* Low and high bits set and clear.                                        *)
SomeBytes == {{}, {0}, {7}, 0 .. 7}

MCNext == position < MaxLength /\ CrcNext

MCSpec == CrcInit /\ [][MCNext]_crcVars

=============================================================================
