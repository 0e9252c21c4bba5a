------------------------------- MODULE UdpNet -------------------------------
(***************************************************************************)
(* UDP between the sender and the receiver of udp/.  The kernel is not     *)
(* part of the repository: this module is external, modelled from sendto,  *)
(* recvfrom and poll as the two programs call them on unconnected sockets. *)
(*                                                                         *)
(* A datagram arrives whole, at any time, in any order, again (at most     *)
(* MaxDuplicated times in a behaviour), or never.                          *)
(***************************************************************************)
EXTENDS Integers, Sequences, FiniteSets

CONSTANTS
  DataSequences,      \* sequence numbers of DATA packets
  MaxDuplicated    \* bound: copies the network makes of its own

ASSUME UdpNetAssumption ==
  /\ DataSequences \subseteq Nat \ {0}
  /\ MaxDuplicated \in Nat

Datagram == [to : {"sender", "receiver"}, type : {"Data", "Ack"},
             seq : DataSequences]

DataPacket(n) == [to |-> "receiver", type |-> "Data", seq |-> n]
AckPacket(n)  == [to |-> "sender",   type |-> "Ack",  seq |-> n]

VARIABLES
  net,         \* [Datagram -> Nat], copies on the way
  duplicated   \* copies made so far

netVars == <<net, duplicated>>

NetTypeOK ==
  /\ net \in [Datagram -> Nat]
  /\ duplicated \in 0 .. MaxDuplicated

NetInit ==
  /\ net = [d \in Datagram |-> 0]
  /\ duplicated = 0

OnTheWay(d) == net[d] > 0

SendTo(d) == net' = [net EXCEPT ![d] = @ + 1]

RecvFrom(who, d) ==
  /\ d.to = who
  /\ OnTheWay(d)
  /\ net' = [net EXCEPT ![d] = @ - 1]

NetDuplicates ==
  /\ duplicated < MaxDuplicated
  /\ duplicated' = duplicated + 1
  /\ \E d \in Datagram : OnTheWay(d) /\ SendTo(d)

=============================================================================
