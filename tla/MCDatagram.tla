----------------------------- MODULE MCDatagram -----------------------------
(***************************************************************************)
(* Datagrams for TLC: numbers whose bytes differ, payloads of no byte up   *)
(* to one byte more than the limit.                                        *)
(***************************************************************************)
EXTENDS Datagram

SomeWords == {{0}, {31, 16, 10, 3}}

(* Payloads whose bytes differ.                                            *)
Payloads ==
  {[i \in 1 .. n |-> {i, 7}] : n \in 0 .. kMaxPayloadSize + 1}

(* A payload of 7 bytes that has the checksum of its first 3 bytes.        *)
Colliding ==
  [type |-> {0}, sequence |-> {0},
   payload |-> <<{1, 7}, {2, 7}, {3, 7}, {0, 2, 3, 6, 7}, {1, 2, 3, 6, 7},
                 {2, 6, 7}, {4, 6}>>]

MCPackets ==
  [type : {{0}, {2, 1, 0}}, sequence : SomeWords, payload : Payloads]
    \cup {Colliding}

(* What encode_packet of the programs produces.                            *)
MCEncodable == {p \in MCPackets : Len(p.payload) <= kMaxPayloadSize}

(* Every byte of every packet that fits, and one more.                     *)
MCReach == 1 .. kReceiveBufferSize + 1

MCBytes == {{}, {0}, {0, 1}, 0 .. 7}

=============================================================================
