--------------------------- MODULE ChildLifecycle ---------------------------
(***************************************************************************)
(* What a durable background child promises its parent, whatever managers   *)
(* there are, however they race, crash and lose their leases: one life, in  *)
(* which each run is an attempt of its own, a child that may not be         *)
(* replayed has one attempt, and the end is final. DurableChild implements  *)
(* it.                                                                      *)
(***************************************************************************)
EXTENDS Naturals

VARIABLES
    status,      \* the child's status
    replayable,  \* its effect allows a second attempt
    attempts,    \* attempts that were begun
    runs         \* how often its agent was run

vars == <<status, replayable, attempts, runs>>

Init ==
    /\ status = "absent"
    /\ replayable \in BOOLEAN
    /\ attempts = 0
    /\ runs = 0

Spawn ==
    /\ status = "absent"
    /\ status' = "queued"
    /\ replayable' \in BOOLEAN
    /\ UNCHANGED <<attempts, runs>>

\* An attempt follows another only where the effect may be repeated.
Attempt ==
    /\ status = "queued" \/ (status = "running" /\ replayable)
    /\ status' = "running"
    /\ attempts' = attempts + 1
    /\ UNCHANGED <<replayable, runs>>

\* An attempt runs the agent once, even if the child has ended meanwhile.
Enter ==
    /\ runs < attempts
    /\ runs' = runs + 1
    /\ UNCHANGED <<status, replayable, attempts>>

\* The child ends with the outcome of an attempt.
Finish ==
    /\ status = "running"
    /\ status' \in {"completed", "failed"}
    /\ UNCHANGED <<replayable, attempts, runs>>

\* Cancelling overrides everything but a result.
Cancel ==
    /\ status \in {"queued", "running", "failed"}
    /\ status' = "cancelled"
    /\ UNCHANGED <<replayable, attempts, runs>>

Next == Spawn \/ Attempt \/ Enter \/ Finish \/ Cancel

Spec == Init /\ [][Next]_vars
=============================================================================
