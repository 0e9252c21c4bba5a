---------------------------- MODULE ResponseWait -----------------------------
(***************************************************************************)
(* wait_for_response, receive_packet and recv_exact of tcp/sender.cpp      *)
(* against the clock: one absolute deadline for everything that is done    *)
(* while waiting for a response.  TcpSender has only the outcomes of this  *)
(* loop.  wait_for_ack of udp/sender.cpp is the same loop with datagrams   *)
(* for frames, of which nothing can arrive in parts.                       *)
(*                                                                         *)
(* A tick of the clock is half a millisecond, so that poll's whole         *)
(* milliseconds are coarser than the clock.  The process is slow: when it  *)
(* can run, up to MaxLag ticks pass before it makes its next step.         *)
(***************************************************************************)
EXTENDS Integers

CONSTANTS
  timeout_ms,     \* the parameter of wait_for_response
  kHeaderSize,
  PayloadSizes,   \* payload lengths that headers announce
  MaxLag,         \* ticks between two steps of a process that can run
  MaxBytes        \* bound: bytes that arrive during the wait

ASSUME WaitAssumption ==
  /\ timeout_ms \in Nat
  /\ kHeaderSize \in Nat \ {0}
  /\ PayloadSizes \subseteq Nat
  /\ MaxLag \in Nat
  /\ MaxBytes \in Nat

VARIABLES
  now,            \* steady_clock, 0 when wait_for_response is called
  lag,            \* ticks since the process could run
  pc,             \* where the process is: Places, or how it ended: Results
  deadline,
  remaining,      \* of recv_exact, in ticks: what poll is called with
  poll_until,     \* when the poll that was called gives up
  part,           \* what recv_exact reads: "header" or "payload"
  size, total_received,      \* of recv_exact
  frame_bytes,
  read, whole,    \* history: bytes read, bytes of whole frames read
  arrived         \* bytes that have arrived at the socket

frameVars == <<part, size, total_received, frame_bytes, read, whole>>
waitVars  == <<now, lag, pc, deadline, remaining, poll_until, frameVars,
               arrived>>

Places  == {"while", "remaining", "call", "poll", "recv", "complete"}
Results == {"true", "false", "discarded", "lost", "invalid"}

WaitInit ==
  /\ now = 0 /\ lag = 0
  /\ pc = "while"
  /\ deadline = 2 * timeout_ms
  /\ remaining = 0 /\ poll_until = 0
  /\ part = "header" /\ size = kHeaderSize /\ total_received = 0
  /\ frame_bytes = 0 /\ read = 0 /\ whole = 0
  /\ arrived \in 0 .. MaxBytes

Ready   == arrived > read
Blocked == pc = "poll" /\ ~Ready /\ now < poll_until

(* A step of the process.                                                  *)
Step(from) ==
  /\ pc = from
  /\ lag' = 0
  /\ UNCHANGED <<now, arrived>>

-----------------------------------------------------------------------------
EnterLoop ==
  /\ Step("while")
  /\ pc' = IF now < deadline THEN "remaining" ELSE "false"
  /\ frame_bytes' = 0
  /\ part' = "header" /\ size' = kHeaderSize /\ total_received' = 0
  /\ UNCHANGED <<deadline, remaining, poll_until, read, whole>>

(* ResponseTimeout: only at a frame boundary may the caller try again on   *)
(* the same stream.  A faulty form asks recv_exact's own count.            *)
TimedOut_OfThisPart == IF total_received # 0 THEN "discarded" ELSE "false"

TimedOut == IF frame_bytes # 0 THEN "discarded" ELSE "false"

(* Whole milliseconds, rounded up.  A faulty form rounds down.             *)
Ceil_Down(ticks) == 2 * (ticks \div 2)

Ceil(ticks) == 2 * ((ticks + 1) \div 2)

(* A faulty form polls for the whole time again.                           *)
Remaining_Whole == Ceil(2 * timeout_ms)

Remaining == Ceil(deadline - now)

ComputeRemaining ==
  /\ Step("remaining")
  /\ IF now >= deadline
       THEN pc' = TimedOut /\ UNCHANGED remaining
       ELSE pc' = "call" /\ remaining' = Remaining
  /\ UNCHANGED <<deadline, poll_until, frameVars>>

CallPoll ==
  /\ Step("call")
  /\ pc' = "poll"
  /\ poll_until' = now + remaining
  /\ UNCHANGED <<deadline, remaining, frameVars>>

(* poll returns with data or after its time.                               *)
PollReturns ==
  /\ Step("poll")
  /\ \/ Ready /\ pc' = "recv"
     \/ ~Ready /\ now >= poll_until /\ pc' = TimedOut
  /\ UNCHANGED <<deadline, remaining, poll_until, frameVars>>

(* recv_exact goes on, returns the header, whose length tells the size of  *)
(* the payload, or returns the payload.                                    *)
Received(n) ==
  \/ /\ n < size - total_received
     /\ pc' = "remaining"
     /\ total_received' = total_received + n
     /\ UNCHANGED <<part, size, whole>>
  \/ /\ n = size - total_received /\ part = "header"
     /\ \/ \E length \in PayloadSizes :
             /\ size' = length
             /\ IF length = 0
                  THEN pc' = "complete" /\ whole' = read + n
                  ELSE pc' = "remaining" /\ UNCHANGED whole
        \/ pc' = "invalid" /\ UNCHANGED <<size, whole>>
     /\ part' = "payload" /\ total_received' = 0
  \/ /\ n = size - total_received /\ part = "payload"
     /\ pc' = "complete" /\ whole' = read + n
     /\ total_received' = size
     /\ UNCHANGED <<part, size>>

(* recv with MSG_DONTWAIT when there is nothing.  A faulty form waits.     *)
WouldBlock_Waits == FALSE

WouldBlock == ~Ready /\ pc' = "remaining" /\ UNCHANGED frameVars

(* Some of the bytes, at most what is missing.                             *)
Recv ==
  /\ Step("recv")
  /\ \/ \E n \in 1 .. arrived - read :
          /\ n <= size - total_received
          /\ read' = read + n
          /\ frame_bytes' = frame_bytes + n
          /\ Received(n)
     \/ WouldBlock
  /\ UNCHANGED <<deadline, remaining, poll_until>>

(* A faulty form gives a stale response a new deadline.                    *)
AfterStale_Renewed == now + 2 * timeout_ms

AfterStale == deadline

(* A frame is there: undecodable, too late, no empty answer or unexpected, *)
(* the response, or a stale one.                                           *)
Complete ==
  /\ Step("complete")
  /\ \/ pc' = "invalid" /\ UNCHANGED deadline
     \/ now >= deadline /\ pc' = "false" /\ UNCHANGED deadline
     \/ now < deadline /\ size = 0 /\ pc' = "true" /\ UNCHANGED deadline
     \/ now < deadline /\ size = 0 /\ pc' = "while" /\ deadline' = AfterStale
  /\ UNCHANGED <<remaining, poll_until, frameVars>>

Process ==
  \/ EnterLoop
  \/ ComputeRemaining
  \/ CallPoll
  \/ PollReturns
  \/ Recv
  \/ Complete

(* What the process cannot count on: a signal interrupts poll or recv,     *)
(* poll returns although there is nothing, the connection ends.            *)
Disturb ==
  /\ \/ Step("poll") /\ pc' \in {"remaining", "recv", "lost"}
     \/ Step("recv") /\ pc' \in {"remaining", "lost"}
  /\ UNCHANGED <<deadline, remaining, poll_until, frameVars>>

(* Time passes; a process that can run does so soon.                       *)
Tick ==
  /\ pc \notin Results
  /\ Blocked \/ lag < MaxLag
  /\ now' = now + 1
  /\ lag' = IF Blocked THEN 0 ELSE lag + 1
  /\ UNCHANGED <<pc, deadline, remaining, poll_until, frameVars, arrived>>

(* Bytes arrive, one or many.                                              *)
Arrive ==
  /\ pc \notin Results
  /\ \E n \in 1 .. MaxBytes :
       arrived + n <= MaxBytes /\ arrived' = arrived + n
  /\ UNCHANGED <<now, lag, pc, deadline, remaining, poll_until, frameVars>>

WaitNext == Process \/ Disturb \/ Tick \/ Arrive

WaitSpec == WaitInit /\ [][WaitNext]_waitVars

(* The process runs and time goes on.                                      *)
FairWaitSpec == WaitSpec /\ WF_waitVars(Process) /\ WF_waitVars(Tick)

-----------------------------------------------------------------------------
(* The deadline is absolute ("Same absolute deadline, even for many stale  *)
(* responses", "never restart the deadline"): stale responses, interrupted *)
(* polls and bytes that trickle in never make a wait longer than the time  *)
(* it was given, but for the rounding to milliseconds and the slowness of  *)
(* four steps of the process: the call of a poll whose time was computed   *)
(* before, its return, the recv, and the step that sees that it is late.   *)
EndsByDeadline == now <= 2 * timeout_ms + 1 + 4 * MaxLag

(* An attempt is given up only when its time is over.                      *)
GivesUpInTime == pc \in {"false", "discarded"} => now >= 2 * timeout_ms

(* The caller sends again on this stream only between two frames, also     *)
(* when the time was over between a header and its payload.                *)
RetriesAtBoundary == pc = "false" => read = whole

(* A wait comes to an end, also when signals interrupt every poll and poll *)
(* announces data that are not there.                                      *)
WaitEnds == <>(pc \in Results)

=============================================================================
