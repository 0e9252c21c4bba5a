--------------------------- MODULE RequestSession ---------------------------
(***************************************************************************)
(* What the TCP testbed promises, without connections, retries or faults:  *)
(* a session of N requests, answered one after the other.  Request 1 is    *)
(* work, which a receiver process does at most once; the others are        *)
(* heartbeats and may be served again.  A request is answered only after   *)
(* it was served, the next one is served only after it was answered, and   *)
(* the session succeeds only when all were answered.                       *)
(***************************************************************************)
EXTENDS Integers, Sequences

CONSTANTS
  N,          \* requests of the session
  Processes   \* receiver processes are numbered 1..Processes

VARIABLES
  executed,   \* the receiver processes that did the work, in order
  served,     \* heartbeats that reached a receiver
  answered,   \* requests 1..answered are answered
  status      \* "running", "succeeded" or "failed"

sessionVars == <<executed, served, answered, status>>

SessionInit ==
  /\ executed = <<>>
  /\ served = {}
  /\ answered = 0
  /\ status = "running"

Execute ==
  \E p \in 1 .. Processes :
    /\ \A i \in DOMAIN executed : executed[i] < p
    /\ executed' = Append(executed, p)
    /\ UNCHANGED <<served, answered, status>>

Serve ==
  /\ answered \in 1 .. N
  /\ \E k \in 2 .. answered + 1 :
       served' = served \cup {k}
  /\ UNCHANGED <<executed, answered, status>>

Answer ==
  /\ status = "running"
  /\ answered < N
  /\ IF answered = 0 THEN executed # <<>> ELSE answered + 1 \in served
  /\ answered' = answered + 1
  /\ status' = IF answered + 1 = N THEN "succeeded" ELSE "running"
  /\ UNCHANGED <<executed, served>>

Abandon ==
  /\ status = "running"
  /\ status' = "failed"
  /\ UNCHANGED <<executed, served, answered>>

SessionNext == Execute \/ Serve \/ Answer \/ Abandon

SessionSpec == SessionInit /\ [][SessionNext]_sessionVars
=============================================================================
