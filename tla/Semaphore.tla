------------------------------ MODULE Semaphore ------------------------------
(***************************************************************************)
(* What a fair FIFO semaphore promises its users, whatever counters and     *)
(* abort listeners keep it: a place inside is taken at once only when       *)
(* nobody waits, goes from who leaves to whoever waited longest, and        *)
(* whoever gives up waiting leaves the others in their order. RunGate and   *)
(* ChildRuns implement it.                                                  *)
(***************************************************************************)
EXTENDS Naturals, Sequences, FiniteSets

CONSTANTS
    Users,    \* who asks for a permit
    Capacity  \* how many permits there are

VARIABLES
    inside,  \* users with a permit
    queue    \* users that wait for one, the first first

vars == <<inside, queue>>

Waits(u) == \E i \in DOMAIN queue : queue[i] = u

\* t is what is left of s when some of its elements are taken out.
Subsequence(t, s) ==
    \E at \in [DOMAIN t -> DOMAIN s] :
        /\ \A i, j \in DOMAIN t : i < j => at[i] < at[j]
        /\ \A i \in DOMAIN t : t[i] = s[at[i]]

Init == inside = {} /\ queue = << >>

\* Nobody waits and there is room: u gets a permit.
Enter(u) ==
    /\ u \notin inside /\ queue = << >>
    /\ Cardinality(inside) < Capacity
    /\ inside' = inside \union {u}
    /\ UNCHANGED queue

\* All permits are out: u waits behind those who wait already.
Wait(u) ==
    /\ u \notin inside /\ ~Waits(u)
    /\ Cardinality(inside) = Capacity
    /\ queue' = Append(queue, u)
    /\ UNCHANGED inside

\* u's permit goes to whoever waited longest ...
HandOver(u) ==
    /\ u \in inside /\ queue # << >>
    /\ inside' = (inside \ {u}) \union {Head(queue)}
    /\ queue' = Tail(queue)

\* ... and back when nobody waits.
Leave(u) ==
    /\ u \in inside /\ queue = << >>
    /\ inside' = inside \ {u}
    /\ UNCHANGED queue

\* Some of those who wait give up.
GiveUp ==
    /\ queue' \in Seq(Users) /\ Subsequence(queue', queue)
    /\ UNCHANGED inside

Next == GiveUp \/ \E u \in Users : Enter(u) \/ Wait(u) \/ HandOver(u) \/ Leave(u)

Spec == Init /\ [][Next]_vars
=============================================================================
