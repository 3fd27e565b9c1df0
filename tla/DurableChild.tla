---------------------------- MODULE DurableChild ----------------------------
(***************************************************************************)
(* One durable background child (src/src/orchestration/background.ts): its  *)
(* record in the DurableChildStore, and the managers of several processes   *)
(* that start, resume, cancel and finish it. A manager reads the record,    *)
(* and writes it with compareAndSet; between the two other managers act,    *)
(* the process may die, and the lease of a running child may expire.        *)
(*                                                                          *)
(* Children are independent of each other, so one stands for all. Revisions *)
(* advance by one with each write, as compareAndSet demands.                *)
(***************************************************************************)
EXTENDS Integers, FiniteSets

CONSTANTS
    Managers,     \* BackgroundChildManager instances, one per process
    Children,     \* the effect and key a child may be spawned with
    MaxAttempts   \* bound: attempts after which nobody resumes the child

ASSUME ManagersAssumption == IsFiniteSet(Managers)

ASSUME ChildrenAssumption ==
    Children \subseteq [ effect : {"read", "idempotent-write", "side-effect"}, hasKey : BOOLEAN ]

ASSUME BoundAssumption == MaxAttempts \in Nat

VARIABLES
    record,   \* the DurableChildRecord in the store
    flight,   \* flight[m]: the execution of the child in manager m
    cancel,   \* cancel[m]: a cancel() call in manager m
    runs      \* how often ChildRunner.run() was entered for this child

vars == <<record, flight, cancel, runs>>

-----------------------------------------------------------------------------
\* attempt 0 is no attempt. result is the attempt that produced the stored
\* result; leased says that leaseExpiresAt lies in the future; hasKey that there
\* is a non-blank idempotencyKey.
Statuses == {"absent", "queued", "running", "completed", "failed", "cancelled"}

Records == [ revision : Nat, status : Statuses, attempts : Nat,
             leased : BOOLEAN, result : Nat,
             effect : {"read", "idempotent-write", "side-effect"}, hasKey : BOOLEAN ]

Absent == [revision |-> 0, status |-> "absent", attempts |-> 0,
           leased |-> FALSE, result |-> 0, effect |-> "read", hasKey |-> FALSE]

\* seen is the record the execution last read; running the revision and attempt
\* of the running record it wrote.
FlightPCs == {"none", "query", "acquire", "run", "executing",
              "succeeded", "failed", "saveSuccess", "saveFailure"}

Flights == [pc : FlightPCs, seen : Records, revision : Nat, attempt : Nat]

NoFlight == [pc |-> "none", seen |-> Absent, revision |-> 0, attempt |-> 0]

Cancels == [pc : {"none", "query", "save", "done"}, seen : Records]

NoCancel == [pc |-> "none", seen |-> Absent]
CancelDone == [NoCancel EXCEPT !.pc = "done"]

\* assertStaleReplaySafe(). (Mutant: any child may be replayed.)
ReplayAlways(r) == TRUE
ReplaySafe(r) == \/ r.effect = "read"
                 \/ r.effect = "idempotent-write" /\ r.hasKey

\* (Mutant: the revision is not compared.)
Overwrite(expected, next) == record' = [next EXCEPT !.revision = expected + 1]

\* compareAndSet(): next is written when the revision is the expected one.
CompareAndSet(expected, next) ==
    \/ record.revision = expected /\ record' = [next EXCEPT !.revision = expected + 1]
    \/ record.revision # expected /\ UNCHANGED record

SetFlight(m, f) == flight' = [flight EXCEPT ![m] = f]
EndFlight(m) == SetFlight(m, NoFlight)

-----------------------------------------------------------------------------
\* spawn(): create() puts the queued record, and autoStart begins a flight.
Spawn(m) ==
    /\ record.status = "absent"
    /\ \E c \in Children :
         record' = [record EXCEPT !.status = "queued", !.effect = c.effect, !.hasKey = c.hasKey]
    /\ \/ SetFlight(m, [NoFlight EXCEPT !.pc = "query"])
       \/ UNCHANGED flight
    /\ UNCHANGED <<cancel, runs>>

\* resume(), also after a restart: start() unless a flight exists.
Resume(m) ==
    /\ record.status # "absent"
    /\ record.attempts < MaxAttempts
    /\ flight[m].pc = "none"
    /\ SetFlight(m, [NoFlight EXCEPT !.pc = "query"])
    /\ UNCHANGED <<record, cancel, runs>>

\* execute(): a record that has ended, is leased, or may not be replayed ends
\* the flight; otherwise the lease is sought for the record as it was read.
Query(m) ==
    LET mayRun == \/ record.status = "queued"
                  \/ record.status = "running" /\ ~record.leased /\ ReplaySafe(record)
    IN  /\ flight[m].pc = "query"
        /\ \/ mayRun /\ SetFlight(m, [flight[m] EXCEPT !.pc = "acquire", !.seen = record])
           \/ ~mayRun /\ EndFlight(m)
        /\ UNCHANGED <<record, cancel, runs>>

\* (Mutant: the attempt is not counted.)
AcquireUncounted(m) ==
    LET seen == flight[m].seen
    IN  /\ flight[m].pc = "acquire"
        /\ CompareAndSet(seen.revision, [seen EXCEPT !.status = "running", !.leased = TRUE])
        /\ IF record.revision = seen.revision
           THEN SetFlight(m, [flight[m] EXCEPT !.pc = "run",
                                 !.revision = seen.revision + 1, !.attempt = seen.attempts])
           ELSE EndFlight(m)
        /\ UNCHANGED <<cancel, runs>>

\* The lease is written for the record that was read; a conflict ends the flight.
Acquire(m) ==
    LET seen == flight[m].seen
    IN  /\ flight[m].pc = "acquire"
        /\ CompareAndSet(seen.revision,
                [seen EXCEPT !.status = "running", !.attempts = @ + 1, !.leased = TRUE])
        /\ \/ /\ record.revision = seen.revision
              /\ SetFlight(m, [flight[m] EXCEPT !.pc = "run",
                                  !.revision = seen.revision + 1,
                                  !.attempt = seen.attempts + 1])
           \/ /\ record.revision # seen.revision
              /\ EndFlight(m)
        /\ UNCHANGED <<cancel, runs>>

\* The agent is resolved, or not; then the child runs in this process. Its
\* effect on the world happens between here and its end.
BeginRun(m) ==
    /\ flight[m].pc = "run"
    /\ \/ /\ SetFlight(m, [flight[m] EXCEPT !.pc = "executing"])
          /\ runs' = runs + 1
       \/ /\ SetFlight(m, [flight[m] EXCEPT !.pc = "failed"])
          /\ UNCHANGED runs
    /\ UNCHANGED <<record, cancel>>

\* The outcome of ChildRunner.run(): a result, or an error, which is also what
\* cancelTree() of a cancel() in this process leads to.
EndRun(m) ==
    /\ flight[m].pc = "executing"
    /\ \E outcome \in {"succeeded", "failed"} :
         SetFlight(m, [flight[m] EXCEPT !.pc = outcome])
    /\ UNCHANGED <<record, cancel, runs>>

\* The latest record is still the running record this flight wrote. (Mutant:
\* it is running, maybe in another manager.)
IsRunning(m) == record.status = "running"
IsMine(m) == record.status = "running" /\ record.revision = flight[m].revision

\* finishSuccess() and finishFailure(): the latest record is read, and left
\* alone unless it is still the running record this flight wrote. (A failed
\* outcome passes through finishFailure() twice; the second time finds the
\* record changed.)
ReadLatest(m) ==
    /\ flight[m].pc \in {"succeeded", "failed"}
    /\ \/ /\ IsMine(m)
          /\ SetFlight(m, [flight[m] EXCEPT !.seen = record,
                 !.pc = IF @ = "succeeded" THEN "saveSuccess" ELSE "saveFailure"])
       \/ ~IsMine(m) /\ EndFlight(m)
    /\ UNCHANGED <<record, cancel, runs>>

SaveOutcome(m) ==
    LET seen == flight[m].seen
        ended == [seen EXCEPT !.leased = FALSE]
    IN  /\ \/ /\ flight[m].pc = "saveSuccess"
              /\ CompareAndSet(seen.revision,
                    [ended EXCEPT !.status = "completed", !.result = flight[m].attempt])
           \/ /\ flight[m].pc = "saveFailure"
              /\ CompareAndSet(seen.revision, [ended EXCEPT !.status = "failed"])
        /\ EndFlight(m)
        /\ UNCHANGED <<cancel, runs>>

\* A store access of the flight throws, or the result is not JSON. From
\* finishSuccess() this leads to finishFailure(), although the child succeeded.
StoreFails(m) ==
    /\ \/ /\ flight[m].pc \in {"succeeded", "saveSuccess"}
          /\ SetFlight(m, [flight[m] EXCEPT !.pc = "failed"])
       \/ /\ flight[m].pc \in {"query", "acquire", "failed", "saveFailure"}
          /\ EndFlight(m)
    /\ UNCHANGED <<record, cancel, runs>>

\* cancel(): queries and writes until the write succeeds or nothing is to do.
BeginCancel(m) ==
    /\ record.status # "absent"
    /\ cancel[m].pc \in {"none", "done"}
    /\ cancel' = [cancel EXCEPT ![m].pc = "query"]
    /\ UNCHANGED <<record, flight, runs>>

CancelQuery(m) ==
    /\ cancel[m].pc = "query"
    /\ cancel' = [cancel EXCEPT ![m] =
                     IF record.status \in {"completed", "cancelled"} THEN CancelDone
                     ELSE [pc |-> "save", seen |-> record]]
    /\ UNCHANGED <<record, flight, runs>>

\* (Mutants: a conflict is taken for success; the record is not read again.)
CancelSaveOnce(m) ==
    /\ cancel[m].pc = "save"
    /\ CompareAndSet(cancel[m].seen.revision,
                     [cancel[m].seen EXCEPT !.status = "cancelled", !.leased = FALSE])
    /\ cancel' = [cancel EXCEPT ![m] = CancelDone]
    /\ UNCHANGED <<flight, runs>>

CancelSaveStale(m) ==
    LET seen == cancel[m].seen
    IN  /\ cancel[m].pc = "save"
        /\ CompareAndSet(seen.revision, [seen EXCEPT !.status = "cancelled", !.leased = FALSE])
        /\ cancel' = [cancel EXCEPT ![m] = IF record.revision = seen.revision THEN CancelDone ELSE @]
        /\ UNCHANGED <<flight, runs>>

CancelSave(m) ==
    LET seen == cancel[m].seen
    IN  /\ cancel[m].pc = "save"
        /\ CompareAndSet(seen.revision, [seen EXCEPT !.status = "cancelled", !.leased = FALSE])
        /\ cancel' = [cancel EXCEPT ![m] =
                         IF record.revision = seen.revision THEN CancelDone
                         ELSE [pc |-> "query", seen |-> Absent]]
        /\ UNCHANGED <<flight, runs>>

\* The process dies: its flight and its cancel() are gone, the record stays.
Crash(m) ==
    /\ flight[m] # NoFlight \/ cancel[m] # NoCancel
    /\ EndFlight(m)
    /\ cancel' = [cancel EXCEPT ![m] = NoCancel]
    /\ UNCHANGED <<record, runs>>

\* leaseMs have passed. No flight renews its lease while its child runs.
LeaseExpires ==
    /\ record.leased
    /\ record' = [record EXCEPT !.leased = FALSE]
    /\ UNCHANGED <<flight, cancel, runs>>

-----------------------------------------------------------------------------
Init ==
    /\ record = Absent
    /\ flight = [m \in Managers |-> NoFlight]
    /\ cancel = [m \in Managers |-> NoCancel]
    /\ runs = 0

FlightStep(m) ==
    Query(m) \/ Acquire(m) \/ BeginRun(m) \/ EndRun(m) \/ ReadLatest(m) \/ SaveOutcome(m)

CancelStep(m) == CancelQuery(m) \/ CancelSave(m)

Next ==
    \/ \E m \in Managers : \/ Spawn(m) \/ Resume(m) \/ FlightStep(m) \/ StoreFails(m)
                           \/ BeginCancel(m) \/ CancelStep(m) \/ Crash(m)
    \/ LeaseExpires

Spec == Init /\ [][Next]_vars

\* Store accesses return and every child run ends.
FairSpec ==
    Spec /\ \A m \in Managers : WF_vars(FlightStep(m)) /\ WF_vars(CancelStep(m))

-----------------------------------------------------------------------------
(* Properties *)

\* Every variable holds a value of its kind; each run has an attempt of its own.
TypeOK ==
    /\ record \in Records
    /\ flight \in [Managers -> Flights]
    /\ cancel \in [Managers -> Cancels]
    /\ runs \in 0..record.attempts

\* ADR-005: a child that may have committed a side effect is never replayed,
\* whatever managers resume it, whenever they crash and the lease expires.
SideEffectRunsOnce ==
    \/ record.effect = "side-effect"
    \/ record.effect = "idempotent-write" /\ ~record.hasKey
    => runs <= 1

\* A result is stored by the flight that holds the latest attempt: a worker
\* that lost its lease to another one cannot publish what it computed.
ResultOfLatestAttempt ==
    record.status = "completed" => record.result = record.attempts /\ record.attempts > 0

\* Two managers execute the child at the same time only when the earlier lease
\* has been lost: at most one of them holds the current attempt.
OneCurrentAttempt ==
    \A m, n \in Managers :
        /\ flight[m].pc \in {"run", "executing", "succeeded", "failed"}
        /\ flight[n].pc \in {"run", "executing", "succeeded", "failed"}
        /\ flight[m].attempt = flight[n].attempt
        => m = n

\* The latest attempt, held by one flight only, decides the child's result.
LatestAttemptWins == ResultOfLatestAttempt /\ OneCurrentAttempt

\* A child that completed or was cancelled stays so: no late worker, replay or
\* cancel() changes it. A failed child can only still be marked cancelled.
EndedIsFinal ==
    [][/\ record.status \in {"completed", "cancelled"} => record' = record
       /\ record.status = "failed" => record'.status \in {"failed", "cancelled"}]_vars

\* The record, attempts and runs of the managers together lead the one life of a
\* child that ChildLifecycle describes.
Lifecycle == INSTANCE ChildLifecycle WITH
    status <- record.status, replayable <- ReplaySafe(record),
    attempts <- record.attempts, runs <- runs

\* Managers that race, crash, lose leases and cancel implement that life: no
\* attempt without right, no run without an attempt, no change after the end.
ImplementsLifecycle == Lifecycle!Spec

\* Once cancel() has returned the child has ended, and not as a failure: no
\* worker that was running it can still turn it into one, or restart it.
CancelTakesEffect ==
    \A m \in Managers : cancel[m].pc = "done" => record.status \in {"completed", "cancelled"}

\* cancel() ends, however many writes compete with it.
CancelEnds ==
    \A m \in Managers : cancel[m].pc \in {"query", "save"} ~> cancel[m].pc \in {"none", "done"}
=============================================================================
