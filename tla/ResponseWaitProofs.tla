------------------------- MODULE ResponseWaitProofs -------------------------
(***************************************************************************)
(* A wait for a response ends by its deadline, is given up only after it,  *)
(* and is repeated only between two frames: for every timeout, header and  *)
(* payload size, slowness of the process and number of bytes.              *)
(***************************************************************************)
EXTENDS ResponseWait, TLAPS

WaitTypeOK ==
  /\ now \in Nat /\ lag \in Nat
  /\ pc \in Places \cup Results
  /\ deadline = 2 * timeout_ms
  /\ remaining \in Nat /\ poll_until \in Nat
  /\ part \in {"header", "payload"}
  /\ size \in Nat /\ total_received \in Nat /\ frame_bytes \in Nat
  /\ read \in Nat /\ whole \in Nat /\ arrived \in Nat

(* How late each place can be reached: a step that is taken before the     *)
(* deadline, and then one more MaxLag for every step.                      *)
OnTime ==
  /\ lag <= MaxLag
  /\ lag <= now
  /\ pc = "while" => now <= deadline + lag
  /\ pc = "remaining" => now <= deadline + 1 + 3 * MaxLag + lag
  /\ pc = "call" => /\ now - lag < deadline
                    /\ deadline - (now - lag) <= remaining
                    /\ remaining <= deadline - (now - lag) + 1
  /\ pc = "poll" => /\ deadline <= poll_until
                    /\ poll_until <= deadline + 1 + MaxLag
                    /\ now - lag <= poll_until
  /\ pc = "recv" => now <= deadline + 1 + 2 * MaxLag + lag
  /\ pc = "complete" => now <= deadline + 1 + 3 * MaxLag + lag
  /\ pc \in Results => now <= deadline + 1 + 4 * MaxLag
  /\ pc \in {"false", "discarded"} => deadline <= now

(* What was read is whole frames and the bytes of the frame in hand, all   *)
(* of it when the frame is complete.                                       *)
Accounted ==
  /\ pc \in {"remaining", "call", "poll", "recv"} => read = whole + frame_bytes
  /\ pc \in {"while", "complete", "false"} => read = whole

WaitInv == WaitTypeOK /\ OnTime /\ Accounted

-----------------------------------------------------------------------------
LEMMA InitWaitInv == WaitInit => WaitInv
<1> SUFFICES ASSUME WaitInit PROVE WaitInv
  OBVIOUS
<1> USE WaitAssumption DEF WaitInit
<1>1. WaitTypeOK
  BY DEF WaitTypeOK, Places
<1>2. OnTime
  BY DEF OnTime, Results
<1>3. Accounted
  BY DEF Accounted
<1> QED BY <1>1, <1>2, <1>3 DEF WaitInv

(* Rounding up to milliseconds adds less than one.                         *)
LEMMA CeilBounds ==
  \A ticks \in Nat : Ceil(ticks) \in Nat /\ ticks <= Ceil(ticks)
                       /\ Ceil(ticks) <= ticks + 1
BY SMT DEF Ceil

LEMMA EnterLoopKeeps == WaitInv /\ EnterLoop => WaitInv'
<1> SUFFICES ASSUME WaitInv, EnterLoop PROVE WaitInv'
  OBVIOUS
<1> USE WaitAssumption DEF WaitInv, EnterLoop, Step
<1>1. WaitTypeOK'
  BY DEF WaitTypeOK, Places, Results
<1>2. OnTime'
  BY DEF OnTime, WaitTypeOK, Places, Results
<1>3. Accounted'
  BY DEF Accounted, WaitTypeOK
<1> QED BY <1>1, <1>2, <1>3

LEMMA ComputeRemainingKeeps == WaitInv /\ ComputeRemaining => WaitInv'
<1> SUFFICES ASSUME WaitInv, ComputeRemaining PROVE WaitInv'
  OBVIOUS
<1> USE WaitAssumption DEF WaitInv, ComputeRemaining, Step, frameVars
<1>0. \/ /\ now >= deadline /\ remaining' = remaining
         /\ pc' = IF frame_bytes # 0 THEN "discarded" ELSE "false"
      \/ /\ now < deadline /\ pc' = "call" /\ remaining' = Ceil(deadline - now)
         /\ remaining' \in Nat /\ deadline - now <= remaining'
         /\ remaining' <= deadline - now + 1
  <2>1. deadline \in Nat /\ now \in Nat
    BY DEF WaitTypeOK
  <2>2. now < deadline => deadline - now \in Nat
    BY <2>1
  <2> QED BY <2>1, <2>2, CeilBounds DEF TimedOut, Remaining
<1>1. WaitTypeOK'
  BY <1>0 DEF WaitTypeOK, Places, Results
<1>2. OnTime'
  BY <1>0 DEF OnTime, WaitTypeOK, Places, Results
<1>3. Accounted'
  BY <1>0 DEF Accounted, WaitTypeOK
<1> QED BY <1>1, <1>2, <1>3

LEMMA CallPollKeeps == WaitInv /\ CallPoll => WaitInv'
<1> SUFFICES ASSUME WaitInv, CallPoll PROVE WaitInv'
  OBVIOUS
<1> USE WaitAssumption DEF WaitInv, CallPoll, Step, frameVars
<1>1. WaitTypeOK'
  BY DEF WaitTypeOK, Places, Results
<1>2. OnTime'
  BY DEF OnTime, WaitTypeOK, Places, Results
<1>3. Accounted'
  BY DEF Accounted, WaitTypeOK
<1> QED BY <1>1, <1>2, <1>3

LEMMA PollReturnsKeeps == WaitInv /\ PollReturns => WaitInv'
<1> SUFFICES ASSUME WaitInv, PollReturns PROVE WaitInv'
  OBVIOUS
<1> USE WaitAssumption DEF WaitInv, PollReturns, Step, frameVars
<1>0. \/ pc' = "recv"
      \/ /\ now >= poll_until
         /\ pc' = IF frame_bytes # 0 THEN "discarded" ELSE "false"
  BY DEF TimedOut
<1>1. WaitTypeOK'
  BY <1>0 DEF WaitTypeOK, Places, Results
<1>2. OnTime'
  BY <1>0 DEF OnTime, WaitTypeOK, Places, Results
<1>3. Accounted'
  BY <1>0 DEF Accounted, WaitTypeOK
<1> QED BY <1>1, <1>2, <1>3

LEMMA RecvKeeps == WaitInv /\ Recv => WaitInv'
<1> SUFFICES ASSUME WaitInv, Recv PROVE WaitInv'
  OBVIOUS
<1> USE WaitAssumption DEF WaitInv
<1>0. /\ pc = "recv" /\ lag' = 0
      /\ UNCHANGED <<now, arrived, deadline, remaining, poll_until>>
  BY DEF Recv, Step
<1>1. CASE WouldBlock
  <2> USE <1>0, <1>1 DEF WouldBlock, frameVars
  <2>1. WaitTypeOK'
    BY DEF WaitTypeOK, Places, Results
  <2>2. OnTime'
    BY DEF OnTime, WaitTypeOK, Places, Results
  <2>3. Accounted'
    BY DEF Accounted, WaitTypeOK
  <2> QED BY <2>1, <2>2, <2>3
<1>2. ASSUME NEW n \in 1 .. arrived - read,
             n <= size - total_received,
             read' = read + n,
             frame_bytes' = frame_bytes + n,
             Received(n)
      PROVE  WaitInv'
  <2>1. n \in Nat /\ n # 0
    BY DEF WaitTypeOK
  <2>2. /\ part' \in {"header", "payload"}
        /\ size' \in Nat /\ total_received' \in Nat
        /\ \/ pc' \in {"remaining", "invalid"} /\ whole' = whole
           \/ pc' = "complete" /\ whole' = read + n
    BY <1>2, <2>1 DEF Received, WaitTypeOK
  <2>3. WaitTypeOK'
    BY <1>0, <1>2, <2>1, <2>2 DEF WaitTypeOK, Places, Results
  <2>4. OnTime'
    BY <1>0, <2>2 DEF OnTime, WaitTypeOK, Places, Results
  <2>5. Accounted'
    BY <1>0, <1>2, <2>1, <2>2 DEF Accounted, WaitTypeOK
  <2> QED BY <2>3, <2>4, <2>5
<1> QED BY <1>1, <1>2 DEF Recv

LEMMA CompleteKeeps == WaitInv /\ Complete => WaitInv'
<1> SUFFICES ASSUME WaitInv, Complete PROVE WaitInv'
  OBVIOUS
<1> USE WaitAssumption DEF WaitInv, Complete, Step, frameVars
<1>0. /\ deadline' = deadline
      /\ \/ pc' \in {"invalid", "true"}
         \/ pc' = "false" /\ now >= deadline
         \/ pc' = "while" /\ now < deadline
  BY DEF AfterStale
<1>1. WaitTypeOK'
  BY <1>0 DEF WaitTypeOK, Places, Results
<1>2. OnTime'
  BY <1>0 DEF OnTime, WaitTypeOK, Places, Results
<1>3. Accounted'
  BY <1>0 DEF Accounted, WaitTypeOK
<1> QED BY <1>1, <1>2, <1>3

LEMMA DisturbKeeps == WaitInv /\ Disturb => WaitInv'
<1> SUFFICES ASSUME WaitInv, Disturb PROVE WaitInv'
  OBVIOUS
<1> USE WaitAssumption DEF WaitInv, Disturb, Step, frameVars
<1>1. WaitTypeOK'
  BY DEF WaitTypeOK, Places, Results
<1>2. OnTime'
  BY DEF OnTime, WaitTypeOK, Places, Results
<1>3. Accounted'
  BY DEF Accounted, WaitTypeOK
<1> QED BY <1>1, <1>2, <1>3

(* Time passes for a process that can run only while its lag allows, and   *)
(* for one that waits in poll only up to poll_until.                       *)
LEMMA TickKeeps == WaitInv /\ Tick => WaitInv'
<1> SUFFICES ASSUME WaitInv, Tick PROVE WaitInv'
  OBVIOUS
<1> USE WaitAssumption DEF WaitInv, Tick, frameVars
<1>1. WaitTypeOK'
  BY DEF WaitTypeOK
<1>2. CASE Blocked
  <2>1. OnTime'
    BY <1>2 DEF OnTime, Blocked, WaitTypeOK, Results
  <2>2. Accounted'
    BY DEF Accounted
  <2> QED BY <1>1, <2>1, <2>2
<1>3. CASE ~Blocked
  <2>1. OnTime'
    BY <1>3 DEF OnTime, WaitTypeOK
  <2>2. Accounted'
    BY DEF Accounted
  <2> QED BY <1>1, <2>1, <2>2
<1> QED BY <1>2, <1>3

LEMMA ArriveKeeps == WaitInv /\ Arrive => WaitInv'
<1> SUFFICES ASSUME WaitInv, Arrive PROVE WaitInv'
  OBVIOUS
<1> USE WaitAssumption DEF WaitInv, Arrive, frameVars
<1>1. WaitTypeOK'
  BY DEF WaitTypeOK
<1>2. OnTime'
  BY DEF OnTime
<1>3. Accounted'
  BY DEF Accounted
<1> QED BY <1>1, <1>2, <1>3

LEMMA NextKeeps == WaitInv /\ [WaitNext]_waitVars => WaitInv'
<1> SUFFICES ASSUME WaitInv, [WaitNext]_waitVars PROVE WaitInv'
  OBVIOUS
<1>1. CASE UNCHANGED waitVars
  <2> USE <1>1 DEF WaitInv, waitVars, frameVars
  <2>1. WaitTypeOK'
    BY DEF WaitTypeOK
  <2>2. OnTime'
    BY DEF OnTime
  <2>3. Accounted'
    BY DEF Accounted
  <2> QED BY <2>1, <2>2, <2>3
<1>2. CASE Process
  BY <1>2, EnterLoopKeeps, ComputeRemainingKeeps, CallPollKeeps,
     PollReturnsKeeps, RecvKeeps, CompleteKeeps DEF Process
<1>3. CASE Disturb
  BY <1>3, DisturbKeeps
<1>4. CASE Tick
  BY <1>4, TickKeeps
<1>5. CASE Arrive
  BY <1>5, ArriveKeeps
<1> QED BY <1>1, <1>2, <1>3, <1>4, <1>5 DEF WaitNext

(* The invariant of every wait.                                            *)
THEOREM WaitInvariant == WaitSpec => []WaitInv
BY InitWaitInv, NextKeeps, PTL DEF WaitSpec

(* The deadline is absolute, whatever arrives and interrupts.              *)
THEOREM DeadlineHolds == WaitSpec => []EndsByDeadline
<1>1. WaitInv => EndsByDeadline
  BY WaitAssumption
     DEF WaitInv, WaitTypeOK, OnTime, EndsByDeadline, Places, Results
<1> QED BY <1>1, WaitInvariant, PTL

(* No attempt is given up before its time.                                 *)
THEOREM GivenUpInTime == WaitSpec => []GivesUpInTime
<1>1. WaitInv => GivesUpInTime
  BY DEF WaitInv, WaitTypeOK, OnTime, GivesUpInTime
<1> QED BY <1>1, WaitInvariant, PTL

(* Only a stream at a frame boundary is used again.                        *)
THEOREM RetriedAtBoundary == WaitSpec => []RetriesAtBoundary
<1>1. WaitInv => RetriesAtBoundary
  BY DEF WaitInv, Accounted, RetriesAtBoundary
<1> QED BY <1>1, WaitInvariant, PTL

=============================================================================
