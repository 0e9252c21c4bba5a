---------------------------- MODULE PacketChannel ----------------------------
(***************************************************************************)
(* What a TCP connection is to the programs in one direction: packets      *)
(* arrive whole, once and in the order they were sent.  A damaged packet   *)
(* ends the reader, and so does the end of the stream, which costs at most *)
(* the packet that was being written.                                      *)
(***************************************************************************)
EXTENDS Integers, Sequences

CONSTANT Message

VARIABLES
  sent,          \* [message, intact], in the order of sending
  received,      \* what the reader was given
  reader         \* "reading", "refused" or "eof"

channelVars == <<sent, received, reader>>

ChannelInit ==
  /\ sent = <<>>
  /\ received = <<>>
  /\ reader = "reading"

SendMessage ==
  /\ \E m \in Message, b \in BOOLEAN :
       sent' = Append(sent, [message |-> m, intact |-> b])
  /\ UNCHANGED <<received, reader>>

Ahead == sent[Len(received) + 1]

Deliver ==
  /\ reader = "reading"
  /\ Len(received) < Len(sent)
  /\ Ahead.intact
  /\ received' = Append(received, Ahead.message)
  /\ UNCHANGED <<sent, reader>>

RefuseDamaged ==
  /\ reader = "reading"
  /\ Len(received) < Len(sent)
  /\ ~Ahead.intact
  /\ reader' = "refused"
  /\ UNCHANGED <<sent, received>>

EndOfStream ==
  /\ reader = "reading"
  /\ Len(received) >= Len(sent) - 1
  /\ reader' = "eof"
  /\ UNCHANGED <<sent, received>>

ChannelNext == SendMessage \/ Deliver \/ RefuseDamaged \/ EndOfStream

ChannelSpec == ChannelInit /\ [][ChannelNext]_channelVars

=============================================================================
