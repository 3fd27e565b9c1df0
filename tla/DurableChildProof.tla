------------------------- MODULE DurableChildProof -------------------------
(***************************************************************************)
(* Proofs about DurableChild for any number of managers and attempts.       *)
(*                                                                          *)
(* The argument: a record that a manager has read and that still has its    *)
(* revision is still that record but for the lease, so compareAndSet()      *)
(* changes what the manager believes it changes; and an attempt belongs to  *)
(* the one flight whose compareAndSet() counted it.                         *)
(***************************************************************************)
EXTENDS DurableChild, FiniteSetTheorems, TLAPS

\* The steps of a flight that owns an attempt.
Holding == {"run", "executing", "succeeded", "failed", "saveSuccess", "saveFailure"}

Ended == {"completed", "cancelled"}

\* Nothing happens to a child that was not spawned.
AbsentInv ==
    record.status = "absent" =>
        /\ record = Absent
        /\ \A m \in Managers : flight[m] = NoFlight /\ cancel[m] = NoCancel

\* A queued child has had no attempt, only a running one is leased, and a child
\* that may not be replayed has at most one attempt.
RecordInv ==
    /\ record.status \in {"absent", "queued"} => record.attempts = 0
    /\ record.leased => record.status = "running"
    /\ ResultOfLatestAttempt
    /\ ~ReplaySafe(record) => record.attempts <= 1

\* The two records are of children that may be replayed alike.
SameEffect(r, s) == r.effect = s.effect /\ r.hasKey = s.hasKey

\* s is the stored record, but for its lease, unless the revision has moved on.
Snapshot(s) ==
    /\ s.revision <= record.revision
    /\ s.revision = record.revision =>
         s.status = record.status /\ s.attempts = record.attempts /\ SameEffect(s, record)

\* What a flight knows of the record it read and of the one it wrote.
FlightOK(m) ==
    /\ flight[m].pc \in {"acquire", "saveSuccess", "saveFailure"} => Snapshot(flight[m].seen)
    /\ flight[m].pc = "acquire" =>
         \/ flight[m].seen.status = "queued"
         \/ flight[m].seen.status = "running" /\ ReplaySafe(flight[m].seen)
    /\ flight[m].pc \in Holding =>
         /\ 1 <= flight[m].attempt /\ flight[m].attempt <= record.attempts
         /\ flight[m].revision <= record.revision
         /\ flight[m].revision = record.revision =>
              record.status = "running" /\ record.attempts = flight[m].attempt
    /\ flight[m].pc \in {"saveSuccess", "saveFailure"} =>
         flight[m].seen.revision = flight[m].revision

CancelOK(m) ==
    /\ cancel[m].pc = "save" => Snapshot(cancel[m].seen) /\ cancel[m].seen.status \notin Ended
    /\ cancel[m].pc = "done" => record.status \in Ended

ManagersInv == \A m \in Managers : FlightOK(m) /\ CancelOK(m)

\* No two flights own the same attempt.
AttemptsOwned ==
    \A m, n \in Managers :
        /\ flight[m].pc \in Holding /\ flight[n].pc \in Holding
        /\ flight[m].attempt = flight[n].attempt
        => m = n

\* Each attempt is run at most once: those about to run are not yet counted.
AboutToRun == {m \in Managers : flight[m].pc = "run"}
RunsCounted == runs + Cardinality(AboutToRun) <= record.attempts

Types ==
    /\ record \in Records
    /\ flight \in [Managers -> Flights]
    /\ cancel \in [Managers -> Cancels]
    /\ runs \in Nat

IInv == Types /\ AbsentInv /\ RecordInv /\ ManagersInv /\ AttemptsOwned /\ RunsCounted

-----------------------------------------------------------------------------
(* How the record changes, and what the other managers keep of it *)

\* A step leaves the record alone, writes its next revision, or ends its lease.
RecordMoves ==
    \/ record' = record
    \/ /\ record'.revision = record.revision + 1
       /\ record'.attempts \in {record.attempts, record.attempts + 1}
       /\ SameEffect(record', record)
       /\ record.status \in Ended => record'.status \in Ended
    \/ record' = [record EXCEPT !.leased = FALSE]

\* A manager whose flight does not move keeps what it knows of the record.
LEMMA FlightKept ==
  ASSUME Types, record' \in Records, RecordMoves, NEW m \in Managers, FlightOK(m),
         flight'[m] = flight[m]
  PROVE  FlightOK(m)'
<1>1. flight[m] \in Flights /\ flight[m].seen \in Records
  BY DEF Types, Flights
<1>2. Snapshot(flight[m].seen) => Snapshot(flight[m].seen)'
  BY <1>1 DEF Types, Records, RecordMoves, Snapshot, SameEffect
<1>3. CASE record' = record
  BY <1>3, <1>2 DEF FlightOK, Snapshot
<1>4. CASE record' = [record EXCEPT !.leased = FALSE]
  BY <1>2, <1>4 DEF FlightOK, Types, Records, Snapshot
<1>5. CASE /\ record'.revision = record.revision + 1
           /\ record'.attempts \in {record.attempts, record.attempts + 1}
  BY <1>1, <1>2, <1>5 DEF FlightOK, Types, Records, Flights, Snapshot
<1> QED
  BY <1>3, <1>4, <1>5 DEF RecordMoves

\* So does one whose cancel() does not move.
LEMMA CancelKept ==
  ASSUME Types, record' \in Records, RecordMoves, NEW m \in Managers, CancelOK(m),
         cancel'[m] = cancel[m]
  PROVE  CancelOK(m)'
<1>1. cancel[m].seen \in Records
  BY DEF Types, Cancels
<1>2. Snapshot(cancel[m].seen) => Snapshot(cancel[m].seen)'
  BY <1>1 DEF Types, Records, RecordMoves, Snapshot, SameEffect
<1>3. record.status \in Ended => record'.status \in Ended
  BY DEF RecordMoves, Types, Records
<1> QED
  BY <1>2, <1>3 DEF CancelOK, Snapshot

\* At most one more run, by a manager that was about to run, or at most one more
\* attempt, by a manager that will be about to run.
LEMMA CountKept ==
  ASSUME Types, RunsCounted, record' \in Records, runs' \in Nat, NEW m \in Managers,
         \/ /\ AboutToRun' \subseteq AboutToRun
            /\ runs' = runs /\ record'.attempts >= record.attempts
         \/ /\ m \in AboutToRun /\ AboutToRun' = AboutToRun \ {m}
            /\ runs' = runs + 1 /\ record'.attempts = record.attempts
         \/ /\ AboutToRun' = AboutToRun \union {m}
            /\ runs' = runs /\ record'.attempts = record.attempts + 1
  PROVE  RunsCounted'
<1>1. IsFiniteSet(AboutToRun) /\ Cardinality(AboutToRun) \in Nat
  BY ManagersAssumption, FS_Subset, FS_CardinalityType DEF AboutToRun
<1>2. record.attempts \in Nat /\ record'.attempts \in Nat /\ runs \in Nat
  BY DEF Types, Records
<1>3. CASE AboutToRun' \subseteq AboutToRun /\ runs' = runs /\ record'.attempts >= record.attempts
  <2>1. IsFiniteSet(AboutToRun') /\ Cardinality(AboutToRun') <= Cardinality(AboutToRun)
    BY <1>1, <1>3, FS_Subset
  <2>2. Cardinality(AboutToRun') \in Nat
    BY <2>1, FS_CardinalityType
  <2> QED
    BY <1>1, <1>2, <1>3, <2>1, <2>2 DEF RunsCounted
<1>4. CASE /\ m \in AboutToRun /\ AboutToRun' = AboutToRun \ {m}
           /\ runs' = runs + 1 /\ record'.attempts = record.attempts
  <2>1. Cardinality(AboutToRun') = Cardinality(AboutToRun) - 1
    BY <1>1, <1>4, FS_RemoveElement
  <2> QED
    BY <1>1, <1>2, <1>4, <2>1 DEF RunsCounted
<1>5. CASE /\ AboutToRun' = AboutToRun \union {m}
           /\ runs' = runs /\ record'.attempts = record.attempts + 1
  <2>1. Cardinality(AboutToRun') = Cardinality(AboutToRun)
        \/ Cardinality(AboutToRun') = Cardinality(AboutToRun) + 1
    BY <1>1, <1>5, FS_AddElement
  <2> QED
    BY <1>1, <1>2, <1>5, <2>1 DEF RunsCounted
<1> QED
  BY <1>3, <1>4, <1>5

-----------------------------------------------------------------------------
(* Steps of a flight *)

\* A flight starts or ends, begins to seek the lease, or goes on with its attempt.
FlightMoves(m) ==
    \/ flight'[m].pc \in {"none", "query"}
    \/ /\ flight'[m].pc = "acquire" /\ flight'[m].seen = record
       /\ record.status = "queued" \/ (record.status = "running" /\ ReplaySafe(record))
    \/ /\ flight[m].pc \in Holding /\ flight'[m].pc \in Holding
       /\ flight'[m].attempt = flight[m].attempt
       /\ flight'[m].revision = flight[m].revision
       /\ flight'[m].pc \in {"saveSuccess", "saveFailure"} =>
            flight'[m].seen = record /\ record.revision = flight[m].revision

\* A step of one flight that leaves the record alone keeps the invariant.
LEMMA FlightMovesKeep ==
  ASSUME IInv, NEW m \in Managers, UNCHANGED <<record, cancel>>, record.status # "absent",
         NEW f \in Flights, flight' = [flight EXCEPT ![m] = f], FlightMoves(m),
         runs' \in Nat, RunsCounted'
  PROVE  IInv'
<1>1. /\ flight' \in [Managers -> Flights] /\ flight'[m] = f
      /\ \A n \in Managers \ {m} : flight'[n] = flight[n]
  BY DEF IInv, Types
<1>2. Types'
  BY <1>1 DEF IInv, Types
<1>3. AbsentInv' /\ RecordInv'
  BY DEF IInv, AbsentInv, RecordInv, ResultOfLatestAttempt
<1>4. ManagersInv'
  <2>1. RecordMoves /\ record' \in Records
    BY DEF RecordMoves, IInv, Types
  <2>2. \A n \in Managers : CancelOK(n)'
    BY <2>1, CancelKept DEF IInv, ManagersInv
  <2>3. \A n \in Managers \ {m} : FlightOK(n)'
    BY <1>1, <2>1, FlightKept DEF IInv, ManagersInv
  <2>4. FlightOK(m)'
    BY <1>1 DEF IInv, ManagersInv, FlightMoves, FlightOK, Snapshot, SameEffect, Holding, Types, Records
  <2> QED
    BY <2>2, <2>3, <2>4 DEF ManagersInv
<1>5. AttemptsOwned'
  BY <1>1 DEF IInv, AttemptsOwned, FlightMoves, Holding
<1> QED
  BY <1>2, <1>3, <1>4, <1>5 DEF IInv

\* A flight that ends without writing.
LEMMA FlightEnds ==
  ASSUME IInv, NEW m \in Managers, EndFlight(m), UNCHANGED <<record, cancel, runs>>,
         record.status # "absent"
  PROVE  IInv'
<1>1. NoFlight \in Flights /\ NoFlight.pc = "none"
  BY DEF Flights, FlightPCs, NoFlight, Absent, Records, Statuses
<1>2. flight' = [flight EXCEPT ![m] = NoFlight] /\ flight'[m] = NoFlight
  BY DEF EndFlight, SetFlight, IInv, Types
<1>3. AboutToRun' \subseteq AboutToRun
  BY <1>1, <1>2 DEF IInv, Types, AboutToRun
<1>4. runs' \in Nat /\ RunsCounted'
  BY <1>3, CountKept DEF IInv, Types, Records
<1> QED
  BY <1>1, <1>2, <1>4, FlightMovesKeep DEF FlightMoves

\* The steps of a flight that read and remember, but do not write the record.
LEMMA ReadingSteps ==
  ASSUME IInv, NEW m \in Managers,
         Resume(m) \/ Query(m) \/ BeginRun(m) \/ EndRun(m) \/ ReadLatest(m) \/ StoreFails(m)
  PROVE  IInv'
<1>0. /\ flight[m] \in Flights /\ flight[m].seen \in Records /\ record \in Records
      /\ runs \in Nat /\ RunsCounted /\ NoFlight \in Flights
  BY DEF IInv, Types, Flights, FlightPCs, NoFlight, Absent, Records, Statuses
<1>1. flight[m].pc # "none" => record.status # "absent"
  BY DEF IInv, AbsentInv, NoFlight
<1>2. ASSUME NEW f \in Flights, SetFlight(m, f)
      PROVE  /\ flight' = [flight EXCEPT ![m] = f] /\ flight'[m] = f
             /\ f.pc # "run" => AboutToRun' = AboutToRun \ {m}
  BY <1>2 DEF SetFlight, IInv, Types, AboutToRun
<1>3. ASSUME NEW f \in Flights, SetFlight(m, f), f.pc # "run",
             UNCHANGED <<record, cancel, runs>>, record.status # "absent", FlightMoves(m)
      PROVE  IInv'
  <2>1. RunsCounted'
    BY <1>0, <1>2, <1>3, CountKept DEF IInv, Records
  <2> QED
    BY <1>0, <1>2, <1>3, <2>1, FlightMovesKeep
<1>4. ASSUME EndFlight(m), UNCHANGED <<record, cancel, runs>>, record.status # "absent"
      PROVE  IInv'
  BY <1>4, FlightEnds
<1>5. CASE Resume(m)
  <2> DEFINE f == [NoFlight EXCEPT !.pc = "query"]
  <2>1. f \in Flights /\ SetFlight(m, f) /\ f.pc = "query"
    BY <1>0, <1>5 DEF Resume, Flights, FlightPCs, NoFlight
  <2>2. UNCHANGED <<record, cancel, runs>> /\ record.status # "absent"
    BY <1>5 DEF Resume
  <2> HIDE DEF f
  <2> QED
    BY <1>2, <1>3, <2>1, <2>2 DEF FlightMoves
<1>6. CASE Query(m)
  <2>1. UNCHANGED <<record, cancel, runs>> /\ record.status # "absent"
    BY <1>1, <1>6 DEF Query
  <2>2. CASE SetFlight(m, [flight[m] EXCEPT !.pc = "acquire", !.seen = record])
             /\ (record.status = "queued" \/ (record.status = "running" /\ ReplaySafe(record)))
    <3> DEFINE f == [flight[m] EXCEPT !.pc = "acquire", !.seen = record]
    <3>1. f \in Flights /\ f.pc = "acquire" /\ f.seen = record
      BY <1>0 DEF Flights, FlightPCs
    <3> HIDE DEF f
    <3> QED
      BY <1>2, <1>3, <2>1, <2>2, <3>1 DEF FlightMoves, f
  <2> QED
    BY <1>4, <1>6, <2>1, <2>2 DEF Query
<1>7. ASSUME flight[m].pc \in Holding, NEW pc \in Holding \ {"run", "saveSuccess", "saveFailure"},
             SetFlight(m, [flight[m] EXCEPT !.pc = pc]), UNCHANGED <<record, cancel>>
      PROVE  /\ FlightMoves(m) /\ [flight[m] EXCEPT !.pc = pc] \in Flights
             /\ record.status # "absent" /\ [flight[m] EXCEPT !.pc = pc].pc = pc
  <2> DEFINE f == [flight[m] EXCEPT !.pc = pc]
  <2>1. f \in Flights /\ f.pc = pc /\ f.attempt = flight[m].attempt /\ f.revision = flight[m].revision
    BY <1>0, <1>7 DEF Flights, FlightPCs, Holding
  <2> HIDE DEF f
  <2>2. flight'[m] = f
    BY <1>2, <1>7, <2>1 DEF f
  <2> QED
    BY <1>1, <1>7, <2>1, <2>2 DEF FlightMoves, Holding, f
<1>8. CASE BeginRun(m)
  <2>1. flight[m].pc = "run" /\ UNCHANGED <<record, cancel>>
    BY <1>8 DEF BeginRun
  <2>2. CASE SetFlight(m, [flight[m] EXCEPT !.pc = "executing"]) /\ runs' = runs + 1
    <3>1. FlightMoves(m) /\ [flight[m] EXCEPT !.pc = "executing"] \in Flights
          /\ record.status # "absent" /\ [flight[m] EXCEPT !.pc = "executing"].pc = "executing"
      BY <1>7, <2>1, <2>2 DEF Holding
    <3>2. AboutToRun' = AboutToRun \ {m} /\ m \in AboutToRun
      BY <1>2, <2>1, <2>2, <3>1 DEF AboutToRun
    <3>3. runs' \in Nat /\ RunsCounted'
      BY <1>0, <2>1, <2>2, <3>2, CountKept DEF IInv, Records
    <3> QED
      BY <1>2, <2>1, <2>2, <3>1, <3>3, FlightMovesKeep
  <2>3. CASE SetFlight(m, [flight[m] EXCEPT !.pc = "failed"]) /\ UNCHANGED runs
    BY <1>3, <1>7, <2>1, <2>3 DEF Holding
  <2> QED
    BY <1>8, <2>2, <2>3 DEF BeginRun
<1>9. CASE EndRun(m)
  BY <1>3, <1>7, <1>9 DEF EndRun, Holding
<1>10. CASE ReadLatest(m)
  <2>1. flight[m].pc \in {"succeeded", "failed"} /\ UNCHANGED <<record, cancel, runs>>
    BY <1>10 DEF ReadLatest
  <2>2. CASE IsMine(m) /\ SetFlight(m, [flight[m] EXCEPT !.seen = record,
               !.pc = IF @ = "succeeded" THEN "saveSuccess" ELSE "saveFailure"])
    <3> DEFINE f == [flight[m] EXCEPT !.seen = record,
                       !.pc = IF @ = "succeeded" THEN "saveSuccess" ELSE "saveFailure"]
    <3>1. /\ f \in Flights /\ f.pc \in {"saveSuccess", "saveFailure"} /\ f.seen = record
          /\ f.attempt = flight[m].attempt /\ f.revision = flight[m].revision
      BY <1>0, <2>1 DEF Flights, FlightPCs
    <3>2. SetFlight(m, f)
      BY <2>2
    <3> HIDE DEF f
    <3> QED
      BY <1>1, <1>2, <1>3, <2>1, <2>2, <3>1, <3>2 DEF FlightMoves, IsMine, Holding
  <2> QED
    BY <1>1, <1>4, <1>10, <2>1, <2>2 DEF ReadLatest
<1>11. CASE StoreFails(m)
  <2>1. UNCHANGED <<record, cancel, runs>> /\ record.status # "absent"
    BY <1>1, <1>11 DEF StoreFails
  <2> QED
    BY <1>3, <1>4, <1>7, <1>11, <2>1 DEF StoreFails, Holding
<1> QED
  BY <1>5, <1>6, <1>8, <1>9, <1>10, <1>11

-----------------------------------------------------------------------------
(* Steps that write the record *)

\* What compareAndSet() is given is a record again.
LEMMA RunningRecord ==
  ASSUME NEW s \in Records, NEW revision \in Nat, NEW attempts \in Nat
  PROVE  [s EXCEPT !.status = "running", !.attempts = attempts, !.leased = TRUE,
                   !.revision = revision] \in Records
BY DEF Records, Statuses

\* So is the record of a completed child.
LEMMA CompletedRecord ==
  ASSUME NEW s \in Records, NEW revision \in Nat, NEW attempt \in Nat
  PROVE  [s EXCEPT !.leased = FALSE, !.status = "completed", !.result = attempt,
                   !.revision = revision] \in Records
BY DEF Records, Statuses

\* So is the record of a failed or cancelled child.
LEMMA EndedRecord ==
  ASSUME NEW s \in Records, NEW revision \in Nat, NEW status \in Statuses
  PROVE  [s EXCEPT !.status = status, !.leased = FALSE, !.revision = revision] \in Records
BY DEF Records, Statuses

\* Manager m writes or ends something; the others keep what they know.
LEMMA OthersKeep ==
  ASSUME IInv, NEW m \in Managers, record' \in Records, RecordMoves,
         \A n \in Managers \ {m} : flight'[n] = flight[n] /\ cancel'[n] = cancel[n],
         FlightOK(m)', CancelOK(m)'
  PROVE  ManagersInv'
<1>1. \A n \in Managers \ {m} : FlightOK(n)'
  BY FlightKept DEF IInv, ManagersInv
<1>2. \A n \in Managers \ {m} : CancelOK(n)'
  BY CancelKept DEF IInv, ManagersInv
<1> QED
  BY <1>1, <1>2 DEF ManagersInv

\* The lease is taken by the one manager whose snapshot is current; the attempt
\* it counts is a new one.
LEMMA AcquireStep == ASSUME IInv, NEW m \in Managers, Acquire(m) PROVE IInv'
<1> DEFINE seen == flight[m].seen
           next == [seen EXCEPT !.status = "running", !.attempts = @ + 1, !.leased = TRUE,
                                !.revision = seen.revision + 1]
           f == [flight[m] EXCEPT !.pc = "run", !.revision = seen.revision + 1,
                                  !.attempt = seen.attempts + 1]
<1>0. /\ flight[m] \in Flights /\ seen \in Records /\ record \in Records /\ runs \in Nat
      /\ flight[m].pc = "acquire" /\ UNCHANGED <<cancel, runs>> /\ record.status # "absent"
  BY DEF Acquire, IInv, Types, Flights, AbsentInv, NoFlight
<1>1. CASE record.revision # seen.revision
  <2>1. UNCHANGED record /\ EndFlight(m)
    BY <1>1 DEF Acquire, CompareAndSet
  <2> QED
    BY <1>0, <2>1, FlightEnds
<1>2. CASE record.revision = seen.revision
  <2>1. record' = next /\ flight' = [flight EXCEPT ![m] = f]
    BY <1>0, <1>2 DEF Acquire, CompareAndSet, SetFlight, Records
  <2>2. /\ seen.attempts = record.attempts
        /\ SameEffect(seen, record)
        /\ record.status = "queued" \/ (record.status = "running" /\ ReplaySafe(record))
    BY <1>0, <1>2 DEF IInv, ManagersInv, FlightOK, Snapshot, SameEffect, ReplaySafe
  <2>3. /\ record' \in Records /\ record'.revision = record.revision + 1
        /\ record'.attempts = record.attempts + 1 /\ record'.status = "running"
        /\ SameEffect(record', record)
    <3> HIDE DEF seen
    <3>1. next \in Records
      <4>1. seen.revision + 1 \in Nat /\ seen.attempts + 1 \in Nat
        BY <1>0 DEF Records
      <4> QED
        BY <1>0, <4>1, RunningRecord DEF next
    <3>2. /\ next.revision = seen.revision + 1 /\ next.attempts = seen.attempts + 1
          /\ next.status = "running" /\ next.effect = seen.effect /\ next.hasKey = seen.hasKey
      BY <1>0 DEF Records
    <3> QED
      BY <1>2, <2>1, <2>2, <3>1, <3>2 DEF SameEffect
  <2>4. /\ f \in Flights /\ f.pc = "run"
        /\ f.revision = record'.revision /\ f.attempt = record'.attempts
    BY <1>0, <1>2, <2>2, <2>3 DEF Flights, FlightPCs, Records
  <2> HIDE DEF f, next
  <2>5. /\ flight' \in [Managers -> Flights] /\ flight'[m] = f
        /\ \A n \in Managers \ {m} : flight'[n] = flight[n]
    BY <2>1, <2>4 DEF IInv, Types
  <2>6. RecordMoves
    BY <2>2, <2>3 DEF RecordMoves, Ended
  <2>7. RecordInv'
    BY <1>0, <2>2, <2>3
       DEF IInv, RecordInv, ResultOfLatestAttempt, Records, SameEffect, ReplaySafe
  <2>8. ManagersInv'
    <3>1. /\ flight'[m].pc = "run" /\ flight'[m].revision = record'.revision
          /\ flight'[m].attempt = record'.attempts /\ record'.attempts >= 1
      BY <1>0, <2>3, <2>4, <2>5 DEF Records
    <3>2. record'.revision <= record'.revision /\ record'.attempts <= record'.attempts
      BY <2>3 DEF Records
    <3>3. FlightOK(m)'
      BY <2>3, <3>1, <3>2 DEF FlightOK, Holding
    <3>4. CancelOK(m)'
      BY <1>0, <2>3, <2>6, CancelKept DEF IInv, ManagersInv
    <3> QED
      BY <1>0, <2>3, <2>5, <2>6, <3>3, <3>4, OthersKeep
  <2>9. AttemptsOwned'
    <3>1. \A n \in Managers \ {m} : flight'[n].pc \in Holding => flight'[n].attempt <= record.attempts
      BY <2>5 DEF IInv, ManagersInv, FlightOK
    <3>2. \A n \in Managers \ {m} : flight'[n].pc \in Holding => flight'[n].attempt # flight'[m].attempt
      <4>1. \A n \in Managers : flight[n].attempt \in Nat
        BY DEF IInv, Types, Flights
      <4> QED
        BY <1>0, <2>3, <2>4, <2>5, <3>1, <4>1 DEF Records
    <3> QED
      BY <2>5, <3>2 DEF IInv, AttemptsOwned
  <2>10. RunsCounted'
    <3>1. AboutToRun' = AboutToRun \union {m}
      BY <2>4, <2>5 DEF AboutToRun
    <3> QED
      BY <1>0, <2>3, <3>1, CountKept DEF IInv
  <2> QED
    BY <1>0, <2>3, <2>5, <2>7, <2>8, <2>9, <2>10 DEF IInv, Types, AbsentInv
<1> QED
  BY <1>1, <1>2

\* An outcome is written by the flight that wrote the running record.
LEMMA SaveOutcomeStep == ASSUME IInv, NEW m \in Managers, SaveOutcome(m) PROVE IInv'
<1> DEFINE seen == flight[m].seen
<1>0. /\ flight[m] \in Flights /\ seen \in Records /\ record \in Records /\ runs \in Nat
      /\ flight[m].pc \in {"saveSuccess", "saveFailure"} /\ UNCHANGED <<cancel, runs>>
      /\ EndFlight(m) /\ record.status # "absent"
  BY DEF SaveOutcome, IInv, Types, Flights, AbsentInv, NoFlight
<1>1. CASE record.revision # seen.revision
  <2>1. UNCHANGED record
    BY <1>1 DEF SaveOutcome, CompareAndSet
  <2> QED
    BY <1>0, <2>1, FlightEnds
<1>2. CASE record.revision = seen.revision
  <2>1. /\ record.status = "running" /\ seen.attempts = record.attempts
        /\ SameEffect(seen, record)
        /\ flight[m].attempt = record.attempts /\ 1 <= record.attempts
    BY <1>0, <1>2 DEF IInv, ManagersInv, FlightOK, Snapshot, Holding
  <2>2. /\ record' \in Records /\ record'.revision = record.revision + 1
        /\ record'.attempts = record.attempts /\ record'.leased = FALSE
        /\ SameEffect(record', record)
        /\ \/ record'.status = "completed" /\ record'.result = record.attempts
           \/ record'.status = "failed"
    <3> DEFINE completed == [seen EXCEPT !.leased = FALSE, !.status = "completed",
                               !.result = flight[m].attempt, !.revision = seen.revision + 1]
               failed == [seen EXCEPT !.status = "failed", !.leased = FALSE,
                               !.revision = seen.revision + 1]
    <3>0. flight[m].attempt \in Nat
      BY <1>0 DEF Flights
    <3>4. record' \in {completed, failed}
      BY <1>0, <1>2 DEF SaveOutcome, CompareAndSet, Records
    <3>5. seen.revision + 1 \in Nat
      BY <1>0 DEF Records
    <3> HIDE DEF seen
    <3>1. /\ completed.revision = seen.revision + 1
          /\ completed.attempts = seen.attempts /\ completed.leased = FALSE
          /\ completed.status = "completed" /\ completed.result = flight[m].attempt
          /\ SameEffect(completed, seen)
      BY <1>0 DEF Records, SameEffect
    <3>2. /\ failed.revision = seen.revision + 1 /\ failed.attempts = seen.attempts
          /\ failed.leased = FALSE /\ failed.status = "failed" /\ SameEffect(failed, seen)
      BY <1>0 DEF Records, SameEffect
    <3>6. completed \in Records
      BY <1>0, <3>0, <3>5, CompletedRecord
    <3>7. failed \in Records
      <4>1. "failed" \in Statuses
        BY DEF Statuses
      <4> QED
        BY <1>0, <3>5, <4>1, EndedRecord
    <3> HIDE DEF completed, failed
    <3> QED
      BY <1>2, <2>1, <3>1, <3>2, <3>4, <3>6, <3>7 DEF SameEffect
  <2>3. NoFlight \in Flights /\ NoFlight.pc = "none"
    BY DEF Flights, FlightPCs, NoFlight, Absent, Records, Statuses
  <2>4. /\ flight' \in [Managers -> Flights] /\ flight'[m] = NoFlight
        /\ \A n \in Managers \ {m} : flight'[n] = flight[n]
    BY <1>0, <2>3 DEF EndFlight, SetFlight, IInv, Types
  <2>5. RecordMoves
    BY <2>1, <2>2 DEF RecordMoves, Ended
  <2>6. RecordInv'
    BY <1>0, <2>1, <2>2
       DEF IInv, RecordInv, ResultOfLatestAttempt, Records, SameEffect, ReplaySafe
  <2>7. ManagersInv'
    <3>1. FlightOK(m)'
      BY <2>3, <2>4 DEF FlightOK, Holding
    <3>2. CancelOK(m)'
      BY <1>0, <2>2, <2>5, CancelKept DEF IInv, ManagersInv
    <3> QED
      BY <1>0, <2>2, <2>4, <2>5, <3>1, <3>2, OthersKeep
  <2>8. AttemptsOwned'
    BY <2>3, <2>4 DEF IInv, AttemptsOwned, Holding
  <2>9. RunsCounted'
    <3>1. AboutToRun' \subseteq AboutToRun
      BY <2>3, <2>4 DEF AboutToRun
    <3> QED
      BY <1>0, <2>2, <3>1, CountKept DEF IInv, Records
  <2> QED
    BY <1>0, <2>2, <2>4, <2>6, <2>7, <2>8, <2>9 DEF IInv, Types, AbsentInv
<1> QED
  BY <1>1, <1>2

\* Nobody knows of the child before it is spawned.
LEMMA SpawnStep == ASSUME IInv, NEW m \in Managers, Spawn(m) PROVE IInv'
<1>0. PICK c \in Children :
        record' = [record EXCEPT !.status = "queued", !.effect = c.effect, !.hasKey = c.hasKey]
  BY DEF Spawn
<1>1. /\ record = Absent
      /\ record' = [Absent EXCEPT !.status = "queued", !.effect = c.effect, !.hasKey = c.hasKey]
      /\ \A n \in Managers : flight[n] = NoFlight /\ cancel[n] = NoCancel
      /\ UNCHANGED <<cancel, runs>>
  BY <1>0 DEF Spawn, IInv, AbsentInv
<1>2. /\ record' \in Records /\ record'.status = "queued" /\ record'.attempts = 0
      /\ record'.leased = FALSE /\ record.attempts = 0
  BY <1>1, ChildrenAssumption DEF Absent, Records, Statuses
<1>3. [NoFlight EXCEPT !.pc = "query"] \in Flights /\ [NoFlight EXCEPT !.pc = "query"].pc = "query"
      /\ NoFlight.pc = "none" /\ NoCancel.pc = "none"
  BY DEF Flights, FlightPCs, NoFlight, Absent, Records, Statuses, NoCancel
<1>4. /\ flight' \in [Managers -> Flights]
      /\ \A n \in Managers : flight'[n].pc \in {"none", "query"} /\ cancel'[n].pc = "none"
  <2> DEFINE queried == [NoFlight EXCEPT !.pc = "query"]
  <2>1. queried \in Flights /\ queried.pc = "query"
    BY <1>3
  <2> HIDE DEF queried
  <2>2. flight \in [Managers -> Flights] /\ \A n \in Managers : flight[n].pc = "none"
    BY <1>1, <1>3 DEF IInv, Types
  <2>3. flight' = [flight EXCEPT ![m] = queried] \/ flight' = flight
    BY DEF Spawn, SetFlight, queried
  <2>4. \A n \in Managers : cancel'[n].pc = "none"
    BY <1>1, <1>3
  <2> QED
    BY <2>1, <2>2, <2>3, <2>4
<1>5. RecordInv'
  BY <1>2 DEF RecordInv, ResultOfLatestAttempt
<1>6. ManagersInv'
  BY <1>4 DEF ManagersInv, FlightOK, CancelOK, Holding
<1>7. AttemptsOwned'
  BY <1>4 DEF AttemptsOwned, Holding
<1>8. RunsCounted'
  <2>1. AboutToRun' \subseteq AboutToRun
    BY <1>4 DEF AboutToRun
  <2> QED
    BY <1>1, <1>2, <2>1, CountKept DEF IInv, Types
<1> QED
  BY <1>1, <1>2, <1>4, <1>5, <1>6, <1>7, <1>8 DEF IInv, Types, AbsentInv

\* The steps of cancel() that do not write the record.
LEMMA CancelReads ==
  ASSUME IInv, NEW m \in Managers, BeginCancel(m) \/ CancelQuery(m)
  PROVE  IInv'
<1>1. /\ UNCHANGED <<record, flight, runs>> /\ record \in Records
      /\ record.status # "absent" /\ CancelDone.pc = "done"
  BY DEF BeginCancel, CancelQuery, IInv, Types, AbsentInv, NoCancel, CancelDone
<1>2. /\ CancelDone \in Cancels /\ [pc |-> "save", seen |-> record] \in Cancels
      /\ cancel[m] \in Cancels /\ [cancel[m] EXCEPT !.pc = "query"] \in Cancels
  <2>1. Absent \in Records
    BY DEF Absent, Records, Statuses
  <2>2. CancelDone \in Cancels
    BY <2>1 DEF Cancels, CancelDone, NoCancel
  <2>3. [pc |-> "save", seen |-> record] \in Cancels
    BY <1>1 DEF Cancels
  <2>4. cancel[m] \in Cancels
    BY DEF IInv, Types
  <2> QED
    BY <2>2, <2>3, <2>4 DEF Cancels
<1>3. /\ cancel' \in [Managers -> Cancels]
      /\ \A n \in Managers \ {m} : cancel'[n] = cancel[n]
      /\ \/ cancel'[m].pc = "query"
         \/ cancel'[m].pc = "done" /\ record.status \in Ended
         \/ /\ cancel'[m].pc = "save" /\ cancel'[m].seen = record
            /\ record.status \notin Ended
  BY <1>1, <1>2 DEF BeginCancel, CancelQuery, IInv, Types, Ended, Cancels
<1>4. RecordMoves
  BY <1>1 DEF RecordMoves
<1>5. FlightOK(m)' /\ CancelOK(m)'
  BY <1>1, <1>3 DEF IInv, ManagersInv, FlightOK, CancelOK, Snapshot, SameEffect, Records
<1>6. ManagersInv'
  BY <1>1, <1>3, <1>4, <1>5, OthersKeep
<1>7. RecordInv' /\ AttemptsOwned' /\ RunsCounted'
  BY <1>1 DEF IInv, RecordInv, ResultOfLatestAttempt, AttemptsOwned, RunsCounted, AboutToRun
<1> QED
  BY <1>1, <1>3, <1>6, <1>7 DEF IInv, Types, AbsentInv

\* cancel() writes over the record it read, or starts again.
LEMMA CancelSaveStep == ASSUME IInv, NEW m \in Managers, CancelSave(m) PROVE IInv'
<1> DEFINE seen == cancel[m].seen
<1>1. /\ UNCHANGED <<flight, runs>> /\ record \in Records /\ seen \in Records
      /\ record.status # "absent" /\ cancel[m].pc = "save"
  BY DEF CancelSave, IInv, Types, AbsentInv, NoCancel, Cancels
<1>2. /\ CancelDone \in Cancels /\ [pc |-> "query", seen |-> Absent] \in Cancels
      /\ CancelDone.pc = "done"
  BY DEF Cancels, CancelDone, NoCancel, Absent, Records, Statuses
<1>3. /\ cancel' \in [Managers -> Cancels]
      /\ \A n \in Managers \ {m} : cancel'[n] = cancel[n]
  BY <1>2 DEF CancelSave, IInv, Types
<1>4. CASE record.revision # seen.revision
  <2>1. UNCHANGED record /\ cancel'[m].pc = "query"
    BY <1>4 DEF CancelSave, CompareAndSet, IInv, Types
  <2>2. FlightOK(m)' /\ CancelOK(m)' /\ RecordMoves
    BY <1>1, <2>1 DEF IInv, ManagersInv, FlightOK, CancelOK, Snapshot, RecordMoves
  <2>3. ManagersInv'
    BY <1>1, <1>3, <2>1, <2>2, OthersKeep
  <2>4. RecordInv' /\ AttemptsOwned' /\ RunsCounted'
    BY <1>1, <2>1 DEF IInv, RecordInv, ResultOfLatestAttempt, AttemptsOwned, RunsCounted, AboutToRun
  <2> QED
    BY <1>1, <1>3, <2>1, <2>3, <2>4 DEF IInv, Types, AbsentInv
<1>5. CASE record.revision = seen.revision
  <2> DEFINE next == [seen EXCEPT !.status = "cancelled", !.leased = FALSE,
                                  !.revision = seen.revision + 1]
  <2>1. /\ record' = next
        /\ cancel'[m].pc = "done" /\ seen.attempts = record.attempts /\ SameEffect(seen, record)
    BY <1>1, <1>2, <1>5 DEF CancelSave, CompareAndSet, IInv, Types, ManagersInv, CancelOK, Snapshot
  <2>2. /\ record' \in Records /\ record'.status = "cancelled" /\ record'.leased = FALSE
        /\ record'.attempts = record.attempts /\ record'.revision = record.revision + 1
        /\ SameEffect(record', record)
    <3> HIDE DEF seen
    <3>1. seen.revision + 1 \in Nat /\ "cancelled" \in Statuses
      BY <1>1 DEF Records, Statuses
    <3>2. next \in Records
      BY <1>1, <3>1, EndedRecord
    <3>3. /\ next.status = "cancelled" /\ next.leased = FALSE /\ next.attempts = seen.attempts
          /\ next.revision = seen.revision + 1 /\ SameEffect(next, seen)
      BY <1>1 DEF Records, SameEffect
    <3> QED
      BY <1>5, <2>1, <3>2, <3>3 DEF SameEffect
  <2>3. RecordMoves
    BY <2>2 DEF RecordMoves, Ended
  <2>4. RecordInv'
    BY <1>1, <2>2
       DEF IInv, RecordInv, ResultOfLatestAttempt, Records, SameEffect, ReplaySafe
  <2>5. ManagersInv'
    <3>1. FlightOK(m)'
      BY <1>1, <2>2, <2>3, FlightKept DEF IInv, ManagersInv
    <3>2. CancelOK(m)'
      BY <2>1, <2>2 DEF CancelOK, Ended
    <3> QED
      BY <1>1, <1>3, <2>2, <2>3, <3>1, <3>2, OthersKeep
  <2>6. AttemptsOwned'
    BY <1>1 DEF IInv, AttemptsOwned
  <2>7. RunsCounted'
    BY <1>1, <2>2 DEF IInv, RunsCounted, AboutToRun
  <2> QED
    BY <1>1, <1>3, <2>2, <2>4, <2>5, <2>6, <2>7 DEF IInv, Types, AbsentInv
<1> QED
  BY <1>4, <1>5

\* The process of a manager dies.
LEMMA CrashStep == ASSUME IInv, NEW m \in Managers, Crash(m) PROVE IInv'
<1>1. NoFlight \in Flights /\ NoFlight.pc = "none" /\ NoCancel \in Cancels /\ NoCancel.pc = "none"
  BY DEF Flights, FlightPCs, NoFlight, Absent, Records, Statuses, NoCancel, Cancels
<1>2. /\ UNCHANGED <<record, runs>> /\ record \in Records /\ record.status # "absent"
      /\ flight' \in [Managers -> Flights] /\ flight'[m] = NoFlight
      /\ cancel' \in [Managers -> Cancels] /\ cancel'[m] = NoCancel
      /\ \A n \in Managers \ {m} : flight'[n] = flight[n] /\ cancel'[n] = cancel[n]
  BY <1>1 DEF Crash, EndFlight, SetFlight, IInv, Types, AbsentInv
<1>3. RecordMoves
  BY <1>2 DEF RecordMoves
<1>4. FlightOK(m)' /\ CancelOK(m)'
  BY <1>1, <1>2 DEF FlightOK, CancelOK, Holding
<1>5. ManagersInv'
  BY <1>2, <1>3, <1>4, OthersKeep
<1>6. RecordInv' /\ AttemptsOwned'
  BY <1>1, <1>2 DEF IInv, RecordInv, ResultOfLatestAttempt, AttemptsOwned, Holding
<1>7. RunsCounted'
  <2>1. AboutToRun' \subseteq AboutToRun
    BY <1>1, <1>2 DEF AboutToRun
  <2> QED
    BY <1>2, <2>1, CountKept DEF IInv, Types, Records
<1> QED
  BY <1>2, <1>5, <1>6, <1>7 DEF IInv, Types, AbsentInv

\* A lease ends; only the record's lease changes.
LEMMA LeaseStep == ASSUME IInv, LeaseExpires PROVE IInv'
<1>1. /\ UNCHANGED <<flight, cancel, runs>> /\ record' = [record EXCEPT !.leased = FALSE]
      /\ record.status = "running" /\ RecordMoves
  BY DEF LeaseExpires, RecordMoves, IInv, RecordInv
<1>2. /\ record' \in Records /\ record'.status = record.status /\ record'.leased = FALSE
      /\ record'.attempts = record.attempts /\ SameEffect(record', record)
  BY <1>1 DEF IInv, Types, Records, SameEffect
<1>3. RecordInv' /\ AttemptsOwned' /\ RunsCounted'
  BY <1>1, <1>2 DEF IInv, RecordInv, ResultOfLatestAttempt, AttemptsOwned, RunsCounted,
     AboutToRun, SameEffect, ReplaySafe
<1>4. ManagersInv'
  BY <1>1, <1>2, FlightKept, CancelKept DEF IInv, ManagersInv
<1> QED
  BY <1>1, <1>2, <1>3, <1>4 DEF IInv, Types, AbsentInv

-----------------------------------------------------------------------------
(* The theorems *)

\* The invariant holds before the child is spawned.
LEMMA InitIInv == Init => IInv
<1> SUFFICES ASSUME Init PROVE IInv
  OBVIOUS
<1>1. NoFlight \in Flights /\ NoFlight.pc = "none" /\ NoCancel \in Cancels /\ NoCancel.pc = "none"
      /\ Absent \in Records /\ Absent.status = "absent" /\ Absent.attempts = 0
      /\ Absent.leased = FALSE
  BY DEF Flights, FlightPCs, NoFlight, Absent, Records, Statuses, NoCancel, Cancels
<1>2. /\ \A m \in Managers : flight[m] = NoFlight /\ cancel[m] = NoCancel
      /\ record = Absent /\ runs = 0
  BY DEF Init
<1>3. Types
  BY <1>1 DEF Init, Types
<1>4. RecordInv
  BY <1>1, <1>2 DEF RecordInv, ResultOfLatestAttempt
<1>5. ManagersInv /\ AttemptsOwned
  BY <1>1, <1>2 DEF ManagersInv, FlightOK, CancelOK, AttemptsOwned, Holding
<1>6. RunsCounted
  <2>1. AboutToRun = {}
    BY <1>1, <1>2 DEF AboutToRun
  <2> QED
    BY <1>1, <1>2, <2>1, FS_EmptySet DEF RunsCounted
<1> QED
  BY <1>2, <1>3, <1>4, <1>5, <1>6 DEF IInv, AbsentInv

\* Every step keeps the invariant.
LEMMA NextIInv == IInv /\ [Next]_vars => IInv'
<1> SUFFICES ASSUME IInv, [Next]_vars PROVE IInv'
  OBVIOUS
<1>1. ASSUME NEW m \in Managers,
             Spawn(m) \/ Resume(m) \/ FlightStep(m) \/ StoreFails(m)
             \/ BeginCancel(m) \/ CancelStep(m) \/ Crash(m)
      PROVE  IInv'
  BY <1>1, SpawnStep, ReadingSteps, AcquireStep, SaveOutcomeStep, CancelReads,
     CancelSaveStep, CrashStep DEF FlightStep, CancelStep
<1>2. CASE UNCHANGED vars
  BY <1>2 DEF vars, IInv, Types, AbsentInv, RecordInv, ResultOfLatestAttempt, ManagersInv,
     FlightOK, CancelOK, Snapshot, SameEffect, ReplaySafe, AttemptsOwned, RunsCounted, AboutToRun
<1> QED
  BY <1>1, <1>2, LeaseStep DEF Next

\* The invariant the theorems follow from holds in every reachable state.
THEOREM SpecIInv == Spec => []IInv
<1> QED
  BY InitIInv, NextIInv, PTL DEF Spec

\* Every variable has its type, and each run has an attempt of its own.
THEOREM DurableChildTypeOK == Spec => []TypeOK
<1>1. IInv => TypeOK
  <2> SUFFICES ASSUME IInv PROVE TypeOK
    OBVIOUS
  <2>1. Cardinality(AboutToRun) \in Nat
    BY ManagersAssumption, FS_Subset, FS_CardinalityType DEF AboutToRun
  <2> QED
    BY <2>1 DEF IInv, Types, RunsCounted, TypeOK, Records
<1> QED
  BY <1>1, SpecIInv, PTL

\* However many managers resume it, crash and lose their leases, a child with a
\* side effect, or an idempotent write without a key, is run at most once.
THEOREM SideEffectsRunOnce == Spec => []SideEffectRunsOnce
<1>1. IInv => SideEffectRunsOnce
  <2> SUFFICES ASSUME IInv, ~ReplaySafe(record) PROVE runs <= 1
    BY DEF SideEffectRunsOnce, ReplaySafe
  <2>1. Cardinality(AboutToRun) \in Nat
    BY ManagersAssumption, FS_Subset, FS_CardinalityType DEF AboutToRun
  <2> QED
    BY <2>1 DEF IInv, Types, RunsCounted, RecordInv, Records
<1> QED
  BY <1>1, SpecIInv, PTL

\* The stored result is that of the latest attempt, which one flight owns.
THEOREM LatestAttemptDecides == Spec => []LatestAttemptWins
<1>1. IInv => LatestAttemptWins
  BY DEF IInv, RecordInv, AttemptsOwned, Holding, LatestAttemptWins, OneCurrentAttempt
<1> QED
  BY <1>1, SpecIInv, PTL

\* When cancel() has returned the child has ended, and not as a failure.
THEOREM CancelIsEffective == Spec => []CancelTakesEffect
<1>1. IInv => CancelTakesEffect
  BY DEF IInv, ManagersInv, CancelOK, Ended, CancelTakesEffect
<1> QED
  BY <1>1, SpecIInv, PTL

\* The writes of a step, seen from the record it finds.
LEMMA StatusMoves ==
  ASSUME IInv, Next
  PROVE  \/ record' = record
         \/ record.status \in {"absent", "queued", "running"}
         \/ record.status = "failed" /\ record'.status = "cancelled"
<1>1. ASSUME NEW m \in Managers, Acquire(m), record.revision = flight[m].seen.revision
      PROVE  record.status \in {"queued", "running"}
  BY <1>1 DEF Acquire, IInv, ManagersInv, FlightOK, Snapshot
<1>2. ASSUME NEW m \in Managers, SaveOutcome(m), record.revision = flight[m].seen.revision
      PROVE  record.status = "running"
  BY <1>2 DEF SaveOutcome, IInv, ManagersInv, FlightOK, Holding
<1>3. ASSUME NEW m \in Managers, CancelSave(m), record.revision = cancel[m].seen.revision
      PROVE  record.status \notin Ended /\ record'.status = "cancelled"
  <2> DEFINE seen == cancel[m].seen
             next == [seen EXCEPT !.status = "cancelled", !.leased = FALSE,
                                  !.revision = seen.revision + 1]
  <2>1. seen \in Records /\ record' = next
    BY <1>3 DEF CancelSave, CompareAndSet, IInv, Types, Cancels
  <2>2. next.status = "cancelled"
    <3> HIDE DEF seen
    <3> QED
      BY <2>1 DEF Records
  <2> QED
    BY <1>3, <2>1, <2>2 DEF CancelSave, IInv, ManagersInv, CancelOK, Snapshot
<1>4. record.status \in Statuses
  BY DEF IInv, Types, Records
<1>5. ASSUME NEW m \in Managers,
             Acquire(m) \/ SaveOutcome(m) \/ CancelSave(m), record' # record
      PROVE  \/ Acquire(m) /\ record.revision = flight[m].seen.revision
             \/ SaveOutcome(m) /\ record.revision = flight[m].seen.revision
             \/ CancelSave(m) /\ record.revision = cancel[m].seen.revision
  BY <1>5 DEF Acquire, SaveOutcome, CancelSave, CompareAndSet
<1>6. ASSUME NEW m \in Managers,
             \/ Resume(m) \/ Query(m) \/ BeginRun(m) \/ EndRun(m) \/ ReadLatest(m)
             \/ StoreFails(m) \/ BeginCancel(m) \/ CancelQuery(m) \/ Crash(m)
      PROVE  record' = record
  BY <1>6 DEF Resume, Query, BeginRun, EndRun, ReadLatest, StoreFails, BeginCancel,
     CancelQuery, Crash
<1>7. LeaseExpires => record.status = "running"
  BY DEF LeaseExpires, IInv, RecordInv
<1> QED
  BY <1>1, <1>2, <1>3, <1>4, <1>5, <1>6, <1>7
     DEF Next, FlightStep, CancelStep, Spawn, Statuses, Ended

\* No late worker, replay or cancel() changes a child that completed or was
\* cancelled, and a failed one can only be marked cancelled.
THEOREM EndedStays == Spec => EndedIsFinal
<1>1. IInv /\ [Next]_vars =>
        /\ record.status \in {"completed", "cancelled"} => record' = record
        /\ record.status = "failed" => record'.status \in {"failed", "cancelled"}
  BY StatusMoves DEF vars
<1> QED
  BY <1>1, SpecIInv, PTL DEF Spec, EndedIsFinal

-----------------------------------------------------------------------------
(* The managers implement the one life of a child *)

\* A lease that is taken begins an attempt.
LEMMA AcquireWrites ==
  ASSUME IInv, NEW m \in Managers, Acquire(m), record.revision = flight[m].seen.revision
  PROVE  /\ record'.status = "running" /\ record'.attempts = record.attempts + 1
         /\ SameEffect(record', record) /\ UNCHANGED runs
         /\ record.status = "queued" \/ (record.status = "running" /\ ReplaySafe(record))
<1> DEFINE seen == flight[m].seen
           next == [seen EXCEPT !.status = "running", !.attempts = @ + 1, !.leased = TRUE,
                                !.revision = seen.revision + 1]
<1>1. seen \in Records /\ flight[m].pc = "acquire" /\ UNCHANGED runs
  BY DEF Acquire, IInv, Types, Flights
<1>2. record' = next
  BY DEF Acquire, CompareAndSet
<1>3. /\ seen.attempts = record.attempts /\ SameEffect(seen, record)
      /\ record.status = "queued" \/ (record.status = "running" /\ ReplaySafe(record))
  BY <1>1 DEF IInv, ManagersInv, FlightOK, Snapshot, SameEffect, ReplaySafe
<1>4. next.status = "running" /\ next.attempts = seen.attempts + 1 /\ SameEffect(next, seen)
  <2> HIDE DEF seen
  <2> QED
    BY <1>1 DEF Records, SameEffect
<1> QED
  BY <1>1, <1>2, <1>3, <1>4 DEF SameEffect

\* An outcome that is stored ends the running child.
LEMMA OutcomeWrites ==
  ASSUME IInv, NEW m \in Managers, SaveOutcome(m), record.revision = flight[m].seen.revision
  PROVE  /\ record'.status \in {"completed", "failed"} /\ record'.attempts = record.attempts
         /\ SameEffect(record', record) /\ UNCHANGED runs /\ record.status = "running"
<1> DEFINE seen == flight[m].seen
           completed == [seen EXCEPT !.leased = FALSE, !.status = "completed",
                           !.result = flight[m].attempt, !.revision = seen.revision + 1]
           failed == [seen EXCEPT !.status = "failed", !.leased = FALSE,
                           !.revision = seen.revision + 1]
<1>1. /\ seen \in Records /\ flight[m].pc \in {"saveSuccess", "saveFailure"} /\ UNCHANGED runs
  BY DEF SaveOutcome, IInv, Types, Flights
<1>2. record' \in {completed, failed}
  BY <1>1 DEF SaveOutcome, CompareAndSet, Records
<1>3. record.status = "running" /\ seen.attempts = record.attempts /\ SameEffect(seen, record)
  BY <1>1 DEF IInv, ManagersInv, FlightOK, Snapshot, Holding
<1>4. /\ completed.status = "completed" /\ completed.attempts = seen.attempts
      /\ failed.status = "failed" /\ failed.attempts = seen.attempts
      /\ SameEffect(completed, seen) /\ SameEffect(failed, seen)
  <2> HIDE DEF seen
  <2> QED
    BY <1>1 DEF Records, SameEffect
<1> HIDE DEF completed, failed
<1> QED
  BY <1>1, <1>2, <1>3, <1>4 DEF SameEffect

\* cancel() overrides what has not ended.
LEMMA CancelWrites ==
  ASSUME IInv, NEW m \in Managers, CancelSave(m), record.revision = cancel[m].seen.revision
  PROVE  /\ record'.status = "cancelled" /\ record'.attempts = record.attempts
         /\ SameEffect(record', record) /\ UNCHANGED runs
         /\ record.status \in {"queued", "running", "failed"}
<1> DEFINE seen == cancel[m].seen
           next == [seen EXCEPT !.status = "cancelled", !.leased = FALSE,
                                !.revision = seen.revision + 1]
<1>1. seen \in Records /\ cancel[m].pc = "save" /\ UNCHANGED runs /\ record' = next
  BY DEF CancelSave, CompareAndSet, IInv, Types, Cancels
<1>2. /\ seen.attempts = record.attempts /\ SameEffect(seen, record)
      /\ record.status \in Statuses /\ record.status # "absent" /\ record.status \notin Ended
  BY <1>1 DEF IInv, Types, Records, AbsentInv, NoCancel, ManagersInv, CancelOK, Snapshot
<1>3. next.status = "cancelled" /\ next.attempts = seen.attempts /\ SameEffect(next, seen)
  <2> HIDE DEF seen
  <2> QED
    BY <1>1 DEF Records, SameEffect
<1> QED
  BY <1>1, <1>2, <1>3 DEF SameEffect, Statuses, Ended

\* A run that begins is covered by an attempt that has not run yet.
LEMMA RunsBehind ==
  ASSUME IInv, NEW m \in Managers, flight[m].pc = "run"
  PROVE  runs < record.attempts
<1>1. IsFiniteSet(AboutToRun) /\ Cardinality(AboutToRun) \in Nat
  BY ManagersAssumption, FS_Subset, FS_CardinalityType DEF AboutToRun
<1>2. m \in AboutToRun
  BY DEF AboutToRun
<1>3. Cardinality(AboutToRun) # 0
  BY <1>1, <1>2, FS_EmptySet
<1> QED
  BY <1>1, <1>3 DEF IInv, Types, Records, RunsCounted

\* Each step of a manager is a step of the child's life, or none.
LEMMA StepsOfLife == ASSUME IInv, Next PROVE [Lifecycle!Next]_(Lifecycle!vars)
<1> USE DEF Lifecycle!vars, Lifecycle!Next
<1>1. ASSUME UNCHANGED runs, record'.status = record.status,
             record'.attempts = record.attempts, SameEffect(record', record)
      PROVE  UNCHANGED (Lifecycle!vars)
  BY <1>1 DEF SameEffect, ReplaySafe
<1>2. ASSUME UNCHANGED <<record, runs>> PROVE UNCHANGED (Lifecycle!vars)
  BY <1>2
<1>3. ASSUME NEW m \in Managers, Spawn(m) PROVE Lifecycle!Spawn
  <2>1. PICK c \in Children :
          record' = [record EXCEPT !.status = "queued", !.effect = c.effect, !.hasKey = c.hasKey]
    BY <1>3 DEF Spawn
  <2>2. record'.status = "queued" /\ record'.attempts = record.attempts
    BY <2>1 DEF IInv, Types, Records
  <2>3. ReplaySafe(record') \in BOOLEAN
    BY DEF ReplaySafe
  <2> QED
    BY <1>3, <2>2, <2>3 DEF Spawn, Lifecycle!Spawn
<1>4. ASSUME NEW m \in Managers, Acquire(m) PROVE Lifecycle!Attempt \/ UNCHANGED (Lifecycle!vars)
  <2>1. CASE record.revision = flight[m].seen.revision
    BY <1>4, <2>1, AcquireWrites DEF Lifecycle!Attempt, SameEffect, ReplaySafe
  <2>2. CASE record.revision # flight[m].seen.revision
    BY <1>2, <1>4, <2>2 DEF Acquire, CompareAndSet
  <2> QED
    BY <2>1, <2>2
<1>5. ASSUME NEW m \in Managers, BeginRun(m) PROVE Lifecycle!Enter \/ UNCHANGED (Lifecycle!vars)
  BY <1>2, <1>5, RunsBehind DEF BeginRun, Lifecycle!Enter
<1>6. ASSUME NEW m \in Managers, SaveOutcome(m) PROVE Lifecycle!Finish \/ UNCHANGED (Lifecycle!vars)
  <2>1. CASE record.revision = flight[m].seen.revision
    BY <1>6, <2>1, OutcomeWrites DEF Lifecycle!Finish, SameEffect, ReplaySafe
  <2>2. CASE record.revision # flight[m].seen.revision
    BY <1>2, <1>6, <2>2 DEF SaveOutcome, CompareAndSet
  <2> QED
    BY <2>1, <2>2
<1>7. ASSUME NEW m \in Managers, CancelSave(m) PROVE Lifecycle!Cancel \/ UNCHANGED (Lifecycle!vars)
  <2>1. CASE record.revision = cancel[m].seen.revision
    BY <1>7, <2>1, CancelWrites DEF Lifecycle!Cancel, SameEffect, ReplaySafe
  <2>2. CASE record.revision # cancel[m].seen.revision
    BY <1>2, <1>7, <2>2 DEF CancelSave, CompareAndSet
  <2> QED
    BY <2>1, <2>2
<1>8. ASSUME NEW m \in Managers,
             \/ Resume(m) \/ Query(m) \/ EndRun(m) \/ ReadLatest(m)
             \/ StoreFails(m) \/ BeginCancel(m) \/ CancelQuery(m) \/ Crash(m)
      PROVE  UNCHANGED <<record, runs>>
  BY <1>8 DEF Resume, Query, EndRun, ReadLatest, StoreFails, BeginCancel, CancelQuery, Crash
<1>9. LeaseExpires => UNCHANGED (Lifecycle!vars)
  <2> SUFFICES ASSUME LeaseExpires PROVE UNCHANGED (Lifecycle!vars)
    OBVIOUS
  <2>1. /\ UNCHANGED runs /\ record'.status = record.status
        /\ record'.attempts = record.attempts /\ SameEffect(record', record)
    BY DEF LeaseExpires, IInv, Types, Records, SameEffect
  <2> QED
    BY <1>1, <2>1
<1> QED
  BY <1>2, <1>3, <1>4, <1>5, <1>6, <1>7, <1>8, <1>9 DEF Next, FlightStep, CancelStep

\* For any number of managers: together they lead a child through the one life
\* that ChildLifecycle describes.
THEOREM LifecycleImplemented == Spec => ImplementsLifecycle
<1>1. Init => Lifecycle!Init
  BY DEF Init, Absent, Lifecycle!Init, ReplaySafe
<1>2. IInv /\ [Next]_vars => [Lifecycle!Next]_(Lifecycle!vars)
  <2> SUFFICES ASSUME IInv, [Next]_vars PROVE [Lifecycle!Next]_(Lifecycle!vars)
    OBVIOUS
  <2>1. CASE UNCHANGED vars
    BY <2>1 DEF vars, Lifecycle!vars
  <2> QED
    BY <2>1, StepsOfLife
<1> QED
  BY <1>1, <1>2, SpecIInv, PTL DEF Spec, ImplementsLifecycle, Lifecycle!Spec
=============================================================================
