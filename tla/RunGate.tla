------------------------------- MODULE RunGate -------------------------------
(***************************************************************************)
(* Admission of runs to one AgentRuntime: the claim of a run id, the turn   *)
(* order of a session (SessionTurnCoordinator), the permit of the           *)
(* RunConcurrencyGate, and close(). What a run does once it executes is the *)
(* subject of module AgentRun; here it ends at some point.                  *)
(*                                                                          *)
(* JavaScript runs each step to its next await without interruption, so a   *)
(* step below is the code between two awaits. An abort listener runs inside *)
(* the step that aborts.                                                    *)
(***************************************************************************)
EXTENDS Integers, Sequences, FiniteSets

CONSTANTS
    Runs,       \* run ids
    Sessions,   \* session ids
    NoSession,  \* stands for a run without a sessionId
    SessionOf,  \* the session of each run
    Capacity    \* maxConcurrentRuns

ASSUME RunsAssumption ==
    /\ IsFiniteSet(Runs)
    /\ NoSession \notin Sessions
    /\ SessionOf \in [Runs -> Sessions \union {NoSession}]

ASSUME CapacityAssumption == Capacity \in Nat \ {0}

VARIABLES
    phase,    \* phase[r]: how far the run has come
    aborted,  \* runs whose AbortController is aborted
    turns,    \* turns[s]: runs chained on the session's tail, the current turn first
    waiters,  \* runs that wait for a permit, in order of arrival
    active,   \* the gate's count of permits handed out
    permit,   \* runs that acquired a permit and have not released it
    runtime   \* "open" | "closing" | "closed"

gate == <<waiters, active, permit>>
vars == <<phase, aborted, turns, waiters, active, permit, runtime>>

-----------------------------------------------------------------------------
Phases == { "idle",      \* not in activeRuns
            "claimed",   \* in activeRuns, not yet chained or at the gate
            "turn",      \* waits for the session's previous turns
            "permit",    \* waits at the gate
            "executing",
            "finished" } \* execution over, not yet out of activeRuns

Elements(s) == {s[i] : i \in DOMAIN s}

ActiveRuns == {r \in Runs : phase[r] # "idle"}

Settled(r) == phase[r] \in {"idle", "finished"}

Move(r, p) == phase' = [phase EXCEPT ![r] = p]

\* RunConcurrencyGate.acquire() and what run() does with the answer. A run that
\* is aborted executes without a permit, so that it can report its cancellation.
EnterGate(r) ==
    \/ /\ r \in aborted
       /\ Move(r, "executing")
       /\ UNCHANGED gate
    \/ /\ r \notin aborted
       /\ active < Capacity
       /\ active' = active + 1
       /\ permit' = permit \union {r}
       /\ Move(r, "executing")
       /\ UNCHANGED waiters
    \/ /\ r \notin aborted
       /\ active >= Capacity
       /\ waiters' = Append(waiters, r)
       /\ Move(r, "permit")
       /\ UNCHANGED <<active, permit>>

\* Sequence s without its element at position k.
Without(s, k) == [i \in 1..(Len(s) - 1) |-> IF i < k THEN s[i] ELSE s[i + 1]]

\* onAbort of a waiter: it leaves the queue and executes without a permit. Any
\* other run notices its abort later.
Abandon(r) ==
    /\ \/ /\ r \notin Elements(waiters)
          /\ UNCHANGED <<waiters, phase>>
       \/ \E k \in DOMAIN waiters :
            /\ waiters[k] = r
            /\ waiters' = Without(waiters, k)
            /\ Move(r, "executing")
    /\ UNCHANGED <<active, permit>>

-----------------------------------------------------------------------------
\* run(), stream() and resume(): refused when the runtime is closed or the run
\* is active; otherwise a new controller is registered.
Claim(r) ==
    /\ runtime = "open"
    /\ phase[r] = "idle"
    /\ Move(r, "claimed")
    /\ aborted' = aborted \ {r}
    /\ UNCHANGED <<turns, gate, runtime>>

\* executeWithSessionLock(): the run is chained on its session's tail, or goes
\* straight to the gate.
Join(r) ==
    /\ phase[r] = "claimed"
    /\ \/ /\ SessionOf[r] # NoSession
          /\ turns' = [turns EXCEPT ![SessionOf[r]] = Append(@, r)]
          /\ Move(r, "turn")
          /\ UNCHANGED gate
       \/ /\ SessionOf[r] = NoSession
          /\ EnterGate(r)
          /\ UNCHANGED turns
    /\ UNCHANGED <<aborted, runtime>>

\* (Mutant: the previous turn is not awaited.)
TurnStartsAtOnce(r) ==
    /\ phase[r] = "turn"
    /\ EnterGate(r)
    /\ UNCHANGED <<turns, aborted, runtime>>

\* The previous turn of the session has settled.
TurnStarts(r) ==
    /\ phase[r] = "turn"
    /\ Head(turns[SessionOf[r]]) = r
    /\ EnterGate(r)
    /\ UNCHANGED <<turns, aborted, runtime>>

\* RunHandle.cancel(), the caller's signal, or its consumer stopping.
Abort(r) ==
    /\ phase[r] \notin {"idle", "finished"}
    /\ r \notin aborted
    /\ aborted' = aborted \union {r}
    /\ Abandon(r)
    /\ UNCHANGED <<turns, runtime>>

\* (Mutants: no waiter is woken; the last waiter is woken.)
ReleaseWakesNobody(r) ==
    /\ active' = active - 1
    /\ permit' = permit \ {r}
    /\ Move(r, "finished")
    /\ UNCHANGED waiters

ReleaseWakesLast(r) ==
    LET last == waiters[Len(waiters)]
    IN  \/ waiters = << >> /\ ReleaseWakesNobody(r)
        \/ /\ waiters # << >>
           /\ waiters' = SubSeq(waiters, 1, Len(waiters) - 1)
           /\ permit' = (permit \ {r}) \union {last}
           /\ phase' = [phase EXCEPT ![r] = "finished", ![last] = "executing"]
           /\ UNCHANGED active

\* release(): the permit goes to the first waiter that is not aborted; the
\* aborted ones before it are rejected and execute without a permit.
Release(r) ==
    LET live == {i \in DOMAIN waiters : waiters[i] \notin aborted}
        next == CHOOSE i \in live : \A j \in live : i <= j
        refused == IF live = {} THEN Elements(waiters)
                   ELSE {waiters[i] : i \in {j \in DOMAIN waiters : j < next}}
        woken == IF live = {} THEN {} ELSE {waiters[next]}
    IN  /\ active' = IF live = {} THEN active - 1 ELSE active
        /\ waiters' = IF live = {} THEN << >>
                      ELSE SubSeq(waiters, next + 1, Len(waiters))
        /\ permit' = (permit \ {r}) \union woken
        /\ phase' = [q \in Runs |->
                        IF q = r THEN "finished"
                        ELSE IF q \in refused \union woken THEN "executing"
                        ELSE phase[q]]

\* (Mutant: a permit is released that was never acquired.)
FinishAndRelease(r) ==
    /\ phase[r] = "executing"
    /\ Release(r)
    /\ turns' = IF SessionOf[r] = NoSession THEN turns
                ELSE [turns EXCEPT ![SessionOf[r]] = Tail(@)]
    /\ UNCHANGED <<aborted, runtime>>

\* The execution settles: the permit is released and the next turn of the
\* session is free to start.
Finish(r) ==
    /\ phase[r] = "executing"
    /\ \/ r \in permit /\ Release(r)
       \/ r \notin permit /\ Move(r, "finished") /\ UNCHANGED gate
    /\ turns' = IF SessionOf[r] = NoSession THEN turns
                ELSE [turns EXCEPT ![SessionOf[r]] = Tail(@)]
    /\ UNCHANGED <<aborted, runtime>>

\* releaseRun().
ReleaseRun(r) ==
    /\ phase[r] = "finished"
    /\ Move(r, "idle")
    /\ UNCHANGED <<aborted, turns, gate, runtime>>

\* (Mutant: the waiters are dropped but not rejected.)
CloseSilently ==
    /\ runtime = "open"
    /\ runtime' = "closing"
    /\ aborted' = aborted \union ActiveRuns
    /\ waiters' = << >>
    /\ UNCHANGED <<phase, turns, active, permit>>

\* close() refuses new runs and aborts the active ones, so that every waiter
\* leaves the gate and executes without a permit ...
Close ==
    /\ runtime = "open"
    /\ runtime' = "closing"
    /\ aborted' = aborted \union ActiveRuns
    /\ waiters' = << >>
    /\ phase' = [r \in Runs |-> IF phase[r] = "permit" THEN "executing" ELSE phase[r]]
    /\ UNCHANGED <<turns, active, permit>>

\* ... and once all have settled clears activeRuns and closes the event pipeline
\* and the services.
CloseServices ==
    /\ runtime = "closing"
    /\ \A r \in Runs : Settled(r)
    /\ runtime' = "closed"
    /\ phase' = [r \in Runs |-> "idle"]
    /\ UNCHANGED <<aborted, turns, gate>>

-----------------------------------------------------------------------------
Init ==
    /\ phase = [r \in Runs |-> "idle"]
    /\ aborted = {}
    /\ turns = [s \in Sessions |-> << >>]
    /\ waiters = << >>
    /\ active = 0
    /\ permit = {}
    /\ runtime = "open"

\* What the runtime does by itself once a run is claimed.
Progress(r) == Join(r) \/ TurnStarts(r) \/ Finish(r) \/ ReleaseRun(r)

Next ==
    \/ \E r \in Runs : Claim(r) \/ Abort(r) \/ Progress(r)
    \/ Close
    \/ CloseServices

Spec == Init /\ [][Next]_vars

\* The event loop runs what is ready and every execution ends; nobody has to
\* start, cancel or close anything.
FairSpec ==
    /\ Spec
    /\ \A r \in Runs : WF_vars(Progress(r))
    /\ WF_vars(CloseServices)

-----------------------------------------------------------------------------
(* Properties *)

\* Every variable holds a value of its kind.
TypeOK ==
    /\ phase \in [Runs -> Phases]
    /\ aborted \subseteq Runs
    /\ turns \in [Sessions -> Seq(Runs)]
    /\ waiters \in Seq(Runs)
    /\ active \in Nat
    /\ permit \subseteq Runs
    /\ runtime \in {"open", "closing", "closed"}

\* The counter of the gate is the number of permits really held, and within the
\* capacity: no abort, handover or settlement leaks or duplicates a permit.
PermitsAccounted == active = Cardinality(permit) /\ active <= Capacity

\* A permit is never idle while a run waits for one: no wakeup is lost.
NoIdlePermit == waiters # << >> => active = Capacity

\* A run executes without a permit only when it is cancelled.
UnpermittedRunsAreCancelled ==
    \A r \in Runs : phase[r] = "executing" /\ r \notin permit => r \in aborted

\* The gate does its work: permits are exactly accounted for, none is idle while
\* a run waits, and whoever executes without one is cancelled.
GateSound == PermitsAccounted /\ NoIdlePermit /\ UnpermittedRunsAreCancelled

\* At most one turn of a session is at the gate or executing, so that turns of
\* one busy session cannot fill the gate; agentRuntime.ts:1192.
OneTurnPerSession ==
    \A r, q \in Runs :
        /\ phase[r] \in {"permit", "executing"}
        /\ phase[q] \in {"permit", "executing"}
        /\ SessionOf[r] = SessionOf[q]
        /\ SessionOf[r] # NoSession
        => r = q

\* The gate is fair: a run that gets a permit passes over no run that was
\* waiting before it.
PassesOverNobody ==
    \A r \in permit' \ permit, i \in DOMAIN waiters :
        waiters[i] # r /\ waiters[i] \in Elements(waiters') =>
            \E j \in DOMAIN waiters : waiters[j] = r /\ j < i

FirstComeFirstServed == [][PassesOverNobody]_vars

\* RunConcurrencyGate is a "fair, abort-aware gate", agentRuntime.ts:1586: with
\* the permits really held and its queue it behaves as a fair semaphore, and
\* runs that execute without a permit are nothing to it.
Fair == INSTANCE Semaphore WITH Users <- Runs, inside <- permit, queue <- waiters
ImplementsSemaphore == Fair!Spec

\* Every claimed run ends and leaves activeRuns, however busy its session and
\* the gate are, cancelled or not.
RunsSettle == \A r \in Runs : phase[r] # "idle" ~> phase[r] = "idle"

\* close() ends.
CloseEnds == runtime = "closing" ~> runtime = "closed"
=============================================================================
