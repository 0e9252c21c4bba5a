----------------------------- MODULE MCFraming ------------------------------
(***************************************************************************)
(* The byte stream for TLC: a packet without payload and one with two      *)
(* bytes, whose values are those of the first two bytes of a header.       *)
(***************************************************************************)
EXTENDS Framing

MCPackets ==
  {[type |-> {1}, sequence |-> {16, 0}, payload |-> <<>>],
   [type |-> {0}, sequence |-> {1},
    payload |-> <<{7, 5, 3, 1}, {6, 4, 2, 0}>>]}

=============================================================================
