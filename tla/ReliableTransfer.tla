-------------------------- MODULE ReliableTransfer --------------------------
(***************************************************************************)
(* What the UDP programs promise, without datagrams, timeouts or retries:  *)
(* the sequences of a plan are transferred in the order of the plan.  A    *)
(* sequence is taken only when those before it were confirmed, by one      *)
(* process at most once; it is confirmed only after it was taken; the      *)
(* transfer succeeds only when all are confirmed.  Late copies of earlier  *)
(* sequences may reach a later process.                                    *)
(***************************************************************************)
EXTENDS Integers, Sequences

CONSTANTS
  Plans,       \* sequences of sequence numbers
  Processes    \* receiver processes are numbered 1..Processes

VARIABLES
  plan,        \* the plan of this transfer
  taken,       \* [process, seq] pairs, in the order they were taken
  confirmed,   \* plan[1..confirmed] are confirmed
  outcome      \* "running", "succeeded" or "failed"

transferVars == <<plan, taken, confirmed, outcome>>

TransferInit ==
  /\ plan \in Plans
  /\ taken = <<>>
  /\ confirmed = 0
  /\ outcome = "running"

Take ==
  /\ \E p \in 1 .. Processes, i \in 1 .. confirmed + 1 :
       /\ i <= Len(plan)
       /\ \A j \in DOMAIN taken :
            /\ taken[j].process <= p
            /\ taken[j] # [process |-> p, seq |-> plan[i]]
       /\ taken' = Append(taken, [process |-> p, seq |-> plan[i]])
  /\ UNCHANGED <<plan, confirmed, outcome>>

Confirm ==
  /\ outcome = "running"
  /\ confirmed < Len(plan)
  /\ \E j \in DOMAIN taken : taken[j].seq = plan[confirmed + 1]
  /\ confirmed' = confirmed + 1
  /\ outcome' = IF confirmed + 1 = Len(plan) THEN "succeeded" ELSE "running"
  /\ UNCHANGED <<plan, taken>>

GiveUp ==
  /\ outcome = "running"
  /\ outcome' = "failed"
  /\ UNCHANGED <<plan, taken, confirmed>>

TransferNext == Take \/ Confirm \/ GiveUp

TransferSpec == TransferInit /\ [][TransferNext]_transferVars
=============================================================================
