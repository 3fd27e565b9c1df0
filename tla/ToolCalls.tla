------------------------------ MODULE ToolCalls ------------------------------
(***************************************************************************)
(* What a durable run promises about its tool calls, whatever crashes,      *)
(* cancellations, failing saves and resumptions there are: the calls a turn *)
(* asks for are recorded before any of them runs, a call runs at most once  *)
(* and never after it has its answer, and neither a call nor an answer is   *)
(* ever taken back. AgentRun implements it when one host at a time executes *)
(* the run.                                                                 *)
(***************************************************************************)
EXTENDS Naturals

CONSTANTS
    Calls, \* the tool calls a run may make
    Turn   \* Turn[c]: the turn of the run that makes call c

VARIABLES
    asked,    \* calls on record
    ran,      \* ran[c]: how often the tool of call c ran
    answered  \* calls with a result on record

vars == <<asked, ran, answered>>

Open == asked \ answered

Init == asked = {} /\ ran = [c \in Calls |-> 0] /\ answered = {}

\* A later turn asks for calls of its own.
Ask ==
    /\ asked \subseteq asked' /\ asked' \subseteq Calls
    /\ \A c \in asked' \ asked :
        /\ \A d \in asked : Turn[d] < Turn[c]
        /\ \A d \in asked' \ asked : Turn[d] = Turn[c]
    /\ UNCHANGED <<ran, answered>>

\* Open calls that have not run yet run, and open calls get their answer; a
\* call that is refused or rejected gets one and does not run.
Serve ==
    /\ \E now \in SUBSET {c \in Open : ran[c] = 0} :
        ran' = [c \in Calls |-> IF c \in now THEN 1 ELSE ran[c]]
    /\ answered \subseteq answered' /\ answered' \subseteq asked
    /\ UNCHANGED asked

Next == Ask \/ Serve

Spec == Init /\ [][Next]_vars
=============================================================================
