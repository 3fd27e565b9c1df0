---------------------------- MODULE RunGateProof ----------------------------
(***************************************************************************)
(* Proofs about RunGate for any number of runs, sessions and permits.       *)
(*                                                                          *)
(* The inductive invariant IInv adds to the properties what they rest on:   *)
(* waiters wait, each once, and none of them is aborted, so that release()  *)
(* always wakes the first; the turns of a session are exactly its runs that *)
(* have joined and not ended, and only the first of them is past its wait.  *)
(***************************************************************************)
EXTENDS RunGate, FiniteSetTheorems, SequenceTheorems, TLAPS

\* Only executing runs hold permits.
HoldersExecute == \A r \in permit : phase[r] = "executing"

\* A run waits at one place of the queue, and leaves it when it is aborted.
WaitersWait ==
    /\ \A i \in DOMAIN waiters : phase[waiters[i]] = "permit" /\ waiters[i] \notin aborted
    /\ \A i, j \in DOMAIN waiters : waiters[i] = waiters[j] => i = j

Joined(r) == SessionOf[r] # NoSession /\ phase[r] \in {"turn", "permit", "executing"}

\* The chain of a session's tail holds the runs that have joined it, each once.
TurnsJoined ==
    /\ \A s \in Sessions : \A i \in DOMAIN turns[s] :
         SessionOf[turns[s][i]] = s /\ Joined(turns[s][i])
    /\ \A s \in Sessions : \A i, j \in DOMAIN turns[s] : turns[s][i] = turns[s][j] => i = j
    /\ \A r \in Runs : Joined(r) => \E i \in DOMAIN turns[SessionOf[r]] : turns[SessionOf[r]][i] = r

\* A run at the gate or beyond is the first of its session's chain.
CurrentTurnFirst ==
    \A r \in Runs : Joined(r) /\ phase[r] # "turn" => turns[SessionOf[r]][1] = r

GateInv == GateSound /\ HoldersExecute /\ WaitersWait
TurnInv == TurnsJoined /\ CurrentTurnFirst
IInv == TypeOK /\ GateInv /\ TurnInv

-----------------------------------------------------------------------------
(* What the operations of the gate do *)

\* The set of permit holders is finite, so that it can be counted.
LEMMA PermitFinite == TypeOK => IsFiniteSet(permit)
  BY RunsAssumption, FS_Subset DEF TypeOK

\* A run that has a session has one of the sessions.
LEMMA SessionOfType ==
  \A r \in Runs : SessionOf[r] # NoSession => SessionOf[r] \in Sessions
  BY RunsAssumption

\* Without(s, k) is a sequence of the other elements of s, in order.
LEMMA WithoutProperties ==
  ASSUME NEW S, NEW s \in Seq(S), NEW k \in DOMAIN s
  PROVE  /\ Without(s, k) \in Seq(S)
         /\ DOMAIN Without(s, k) = 1..(Len(s) - 1)
         /\ \A i \in 1..(Len(s) - 1) :
              Without(s, k)[i] = s[IF i < k THEN i ELSE i + 1]
         /\ Without(s, k) # << >> => s # << >>
  BY DEF Without

\* Entering the gate keeps it sound.
LEMMA EnterGateSound ==
  ASSUME TypeOK, GateInv, NEW r \in Runs, phase[r] \in {"claimed", "turn"},
         EnterGate(r), UNCHANGED aborted
  PROVE  /\ phase' \in [Runs -> Phases]
         /\ waiters' \in Seq(Runs) /\ active' \in Nat /\ permit' \subseteq Runs
         /\ GateInv'
         /\ phase'[r] \in {"permit", "executing"}
         /\ \A q \in Runs \ {r} : phase'[q] = phase[q]
<1>1. r \notin permit
  BY DEF GateInv, HoldersExecute
<1>2. \A i \in DOMAIN waiters : waiters[i] # r
  BY DEF GateInv, WaitersWait
<1>3. CASE r \in aborted /\ Move(r, "executing") /\ UNCHANGED gate
  BY <1>1, <1>2, <1>3 DEF TypeOK, GateInv, GateSound, PermitsAccounted, NoIdlePermit,
     UnpermittedRunsAreCancelled, HoldersExecute, WaitersWait, Move, Phases, gate
<1>4. CASE /\ r \notin aborted /\ active < Capacity /\ active' = active + 1
           /\ permit' = permit \union {r} /\ Move(r, "executing") /\ UNCHANGED waiters
  <2>1. Cardinality(permit') = Cardinality(permit) + 1
    BY <1>1, <1>4, PermitFinite, FS_AddElement
  <2>2. waiters = << >>
    BY <1>4 DEF TypeOK, GateInv, GateSound, NoIdlePermit
  <2> QED
    BY <1>1, <1>2, <1>4, <2>1, <2>2, CapacityAssumption DEF TypeOK, GateInv, GateSound,
       PermitsAccounted, NoIdlePermit, UnpermittedRunsAreCancelled, HoldersExecute,
       WaitersWait, Move, Phases
<1>5. CASE /\ r \notin aborted /\ active >= Capacity /\ waiters' = Append(waiters, r)
           /\ Move(r, "permit") /\ UNCHANGED <<active, permit>>
  <2>1. active = Capacity
    BY <1>5, CapacityAssumption DEF TypeOK, GateInv, GateSound, PermitsAccounted
  <2>2. phase' \in [Runs -> Phases] /\ waiters' \in Seq(Runs)
    BY <1>5 DEF TypeOK, Move, Phases
  <2>3. WaitersWait'
    BY <1>2, <1>5 DEF TypeOK, GateInv, WaitersWait, Move
  <2> QED
    BY <1>1, <1>5, <2>1, <2>2, <2>3 DEF TypeOK, GateInv, GateSound, PermitsAccounted,
       NoIdlePermit, UnpermittedRunsAreCancelled, HoldersExecute, Move
<1> QED
  BY <1>3, <1>4, <1>5 DEF EnterGate

\* release() meets no aborted waiter: it wakes the first, if there is one.
LEMMA ReleaseWakesFirst ==
  ASSUME TypeOK, WaitersWait, NEW r \in Runs, Release(r)
  PROVE  \/ /\ waiters = << >> /\ waiters' = << >>
            /\ active' = active - 1 /\ permit' = permit \ {r}
            /\ phase' = [q \in Runs |-> IF q = r THEN "finished" ELSE phase[q]]
         \/ /\ waiters # << >> /\ waiters' = Tail(waiters)
            /\ active' = active /\ permit' = (permit \ {r}) \union {waiters[1]}
            /\ phase' = [q \in Runs |-> IF q = r THEN "finished"
                                        ELSE IF q = waiters[1] THEN "executing" ELSE phase[q]]
<1> DEFINE live == {i \in DOMAIN waiters : waiters[i] \notin aborted}
           next == CHOOSE i \in live : \A j \in live : i <= j
<1>1. live = DOMAIN waiters
  BY DEF WaitersWait
<1>2. CASE waiters = << >>
  <2>1. live = {} /\ Elements(waiters) = {}
    BY <1>1, <1>2 DEF Elements
  <2> QED
    BY <1>2, <2>1 DEF Release
<1>3. CASE waiters # << >>
  <2>1. live # {} /\ next = 1
    <3>1. 1 \in live /\ \A j \in live : 1 <= j
      BY <1>1, <1>3 DEF TypeOK
    <3>2. \A i \in live : (\A j \in live : i <= j) => i = 1
      BY <1>1, <3>1 DEF TypeOK
    <3> QED
      BY <3>1, <3>2
  <2>2. {waiters[i] : i \in {j \in DOMAIN waiters : j < next}} = {}
    BY <2>1 DEF TypeOK
  <2>3. SubSeq(waiters, next + 1, Len(waiters)) = Tail(waiters)
    <3> HIDE DEF next
    <3>1. next + 1 = 2
      BY <2>1
    <3>2. Tail(waiters) = SubSeq(waiters, 2, Len(waiters))
      BY <1>3, TailIsSubSeq DEF TypeOK
    <3> QED
      BY <3>1, <3>2
  <2> QED
    BY <1>3, <2>1, <2>2, <2>3 DEF Release
<1> QED
  BY <1>2, <1>3

\* The end of an execution keeps the gate sound: the permit goes to the first
\* waiter or back to the count.
LEMMA FinishSound ==
  ASSUME TypeOK, GateInv, NEW r \in Runs, Finish(r)
  PROVE  /\ phase' \in [Runs -> Phases]
         /\ waiters' \in Seq(Runs) /\ active' \in Nat /\ permit' \subseteq Runs
         /\ GateInv'
         /\ phase'[r] = "finished"
         /\ \A q \in Runs \ {r} : \/ phase'[q] = phase[q]
                                  \/ phase[q] = "permit" /\ phase'[q] = "executing"
<1>0. phase[r] = "executing" /\ aborted' = aborted
  BY DEF Finish
<1>1. \A i \in DOMAIN waiters : waiters[i] # r
  BY <1>0 DEF GateInv, WaitersWait
<1>2. CASE r \notin permit /\ Move(r, "finished") /\ UNCHANGED gate
  BY <1>0, <1>1, <1>2 DEF TypeOK, GateInv, GateSound, PermitsAccounted, NoIdlePermit,
     UnpermittedRunsAreCancelled, HoldersExecute, WaitersWait, Move, Phases, gate
<1>3. CASE r \in permit /\ Release(r)
  <2>1. IsFiniteSet(permit) /\ Cardinality(permit \ {r}) = active - 1 /\ active # 0
    BY <1>3, PermitFinite, FS_RemoveElement, FS_EmptySet
       DEF TypeOK, GateInv, GateSound, PermitsAccounted
  <2>2. CASE /\ waiters = << >> /\ waiters' = << >>
             /\ active' = active - 1 /\ permit' = permit \ {r}
             /\ phase' = [q \in Runs |-> IF q = r THEN "finished" ELSE phase[q]]
    BY <1>0, <2>1, <2>2, CapacityAssumption DEF TypeOK, GateInv, GateSound, PermitsAccounted,
       NoIdlePermit, UnpermittedRunsAreCancelled, HoldersExecute, WaitersWait, Phases
  <2>3. CASE /\ waiters # << >> /\ waiters' = Tail(waiters)
             /\ active' = active /\ permit' = (permit \ {r}) \union {waiters[1]}
             /\ phase' = [q \in Runs |-> IF q = r THEN "finished"
                                          ELSE IF q = waiters[1] THEN "executing" ELSE phase[q]]
    <3>1. /\ waiters[1] \in Runs \ {r} /\ waiters[1] \notin permit
          /\ phase[waiters[1]] = "permit" /\ waiters[1] \notin aborted
      BY <1>1, <2>3 DEF TypeOK, GateInv, WaitersWait, HoldersExecute
    <3>2. Cardinality(permit') = active
      <4>1. IsFiniteSet(permit \ {r})
        BY <2>1, FS_RemoveElement
      <4>2. Cardinality(permit') = Cardinality(permit \ {r}) + 1
        BY <4>1, <2>3, <3>1, FS_AddElement
      <4> QED
        BY <2>1, <4>2 DEF TypeOK
    <3>3. waiters' \in Seq(Runs) /\ phase' \in [Runs -> Phases]
      BY <2>3, <3>1 DEF TypeOK, Phases
    <3>4. WaitersWait'
      <4>1. \A i \in DOMAIN waiters' : i + 1 \in DOMAIN waiters /\ waiters'[i] = waiters[i + 1]
        BY <2>3 DEF TypeOK
      <4>2. \A i \in DOMAIN waiters' : waiters[i + 1] # waiters[1] /\ waiters[i + 1] \in Runs
        BY <4>1, <2>3 DEF TypeOK, GateInv, WaitersWait
      <4> QED
        BY <1>0, <1>1, <2>3, <4>1, <4>2 DEF TypeOK, GateInv, WaitersWait
    <3>5. GateSound' /\ HoldersExecute'
      BY <1>0, <2>3, <3>1, <3>2, <3>3 DEF TypeOK, GateInv, GateSound, PermitsAccounted,
         NoIdlePermit, UnpermittedRunsAreCancelled, HoldersExecute
    <3> QED
      BY <1>0, <2>3, <3>1, <3>3, <3>4, <3>5 DEF TypeOK, GateInv
  <2> QED
    BY <1>3, <2>2, <2>3, ReleaseWakesFirst DEF GateInv
<1> QED
  BY <1>2, <1>3 DEF Finish

\* An abort takes a waiter out of the queue and keeps the gate sound.
LEMMA AbortSound ==
  ASSUME TypeOK, GateInv, NEW r \in Runs, Abort(r)
  PROVE  /\ phase' \in [Runs -> Phases] /\ waiters' \in Seq(Runs)
         /\ GateInv'
         /\ \A q \in Runs : \/ phase'[q] = phase[q]
                            \/ phase[q] = "permit" /\ phase'[q] = "executing"
<1>0. active' = active /\ permit' = permit /\ aborted' = aborted \union {r}
  BY DEF Abort, Abandon
<1>1. CASE r \notin Elements(waiters) /\ UNCHANGED <<waiters, phase>>
  BY <1>0, <1>1 DEF TypeOK, GateInv, GateSound, PermitsAccounted, NoIdlePermit,
     UnpermittedRunsAreCancelled, HoldersExecute, WaitersWait, Elements
<1>2. CASE \E k \in DOMAIN waiters : /\ waiters[k] = r /\ waiters' = Without(waiters, k)
                                     /\ Move(r, "executing")
  <2>1. PICK k \in DOMAIN waiters : /\ waiters[k] = r /\ waiters' = Without(waiters, k)
                                    /\ Move(r, "executing")
    BY <1>2
  <2>2. /\ waiters' \in Seq(Runs) /\ DOMAIN waiters' = 1..(Len(waiters) - 1)
        /\ \A i \in DOMAIN waiters' : waiters'[i] = waiters[IF i < k THEN i ELSE i + 1]
        /\ waiters # << >>
    <3>1. waiters \in Seq(Runs)
      BY DEF TypeOK
    <3>2. /\ Without(waiters, k) \in Seq(Runs)
          /\ DOMAIN Without(waiters, k) = 1..(Len(waiters) - 1)
          /\ \A i \in 1..(Len(waiters) - 1) :
               Without(waiters, k)[i] = waiters[IF i < k THEN i ELSE i + 1]
      BY <3>1, WithoutProperties
    <3>3. waiters # << >>
      BY <2>1
    <3> QED
      BY <2>1, <3>2, <3>3
  <2>3. phase[r] = "permit" /\ phase' = [phase EXCEPT ![r] = "executing"] /\ r \notin permit
    BY <2>1 DEF GateInv, WaitersWait, Move, HoldersExecute
  <2>4. \A i \in DOMAIN waiters' :
           /\ (IF i < k THEN i ELSE i + 1) \in DOMAIN waiters
           /\ waiters'[i] \in Runs \ {r}
    <3> SUFFICES ASSUME NEW i \in DOMAIN waiters'
                 PROVE /\ (IF i < k THEN i ELSE i + 1) \in DOMAIN waiters
                       /\ waiters'[i] \in Runs \ {r}
      OBVIOUS
    <3>1. (IF i < k THEN i ELSE i + 1) \in DOMAIN waiters \ {k}
      BY <2>2 DEF TypeOK
    <3> QED
      BY <2>1, <2>2, <3>1 DEF TypeOK, GateInv, WaitersWait
  <2>5. WaitersWait'
    <3>1. \A i \in DOMAIN waiters' : phase'[waiters'[i]] = "permit" /\ waiters'[i] \notin aborted'
      BY <1>0, <2>2, <2>3, <2>4 DEF TypeOK, GateInv, WaitersWait
    <3>2. \A i, j \in DOMAIN waiters' : waiters'[i] = waiters'[j] => i = j
      BY <2>1, <2>2, <2>4 DEF TypeOK, GateInv, WaitersWait
    <3> QED
      BY <3>1, <3>2 DEF WaitersWait
  <2>6. GateSound' /\ HoldersExecute'
    BY <1>0, <2>2, <2>3 DEF TypeOK, GateInv, GateSound, PermitsAccounted, NoIdlePermit,
       UnpermittedRunsAreCancelled, HoldersExecute
  <2> QED
    BY <2>2, <2>3, <2>5, <2>6 DEF TypeOK, GateInv, Phases
<1> QED
  BY <1>1, <1>2 DEF Abort, Abandon

\* close() empties the queue and keeps the gate sound.
LEMMA CloseSound ==
  ASSUME TypeOK, GateInv, Close
  PROVE  /\ phase' \in [Runs -> Phases]
         /\ GateInv'
         /\ \A q \in Runs : \/ phase'[q] = phase[q]
                            \/ phase[q] = "permit" /\ phase'[q] = "executing"
  BY DEF TypeOK, GateInv, GateSound, PermitsAccounted, NoIdlePermit, WaitersWait,
     UnpermittedRunsAreCancelled, HoldersExecute, Close, ActiveRuns, Phases

-----------------------------------------------------------------------------
(* What the operations do to the turns of the sessions *)

\* A step that leaves the chains alone and lets no run join, start or end its turn.
LEMMA TurnsKept ==
  ASSUME TypeOK, TurnInv, UNCHANGED turns,
         \A q \in Runs : \/ phase'[q] = phase[q]
                         \/ phase[q] = "permit" /\ phase'[q] = "executing"
                         \/ ~Joined(q) /\ ~Joined(q)'
  PROVE  TurnInv'
<1>1. \A q \in Runs : Joined(q)' <=> Joined(q)
  BY DEF Joined
<1>2. \A q \in Runs : Joined(q) => (phase'[q] = "turn" <=> phase[q] = "turn")
  BY DEF Joined
<1>3. \A s \in Sessions : turns[s] \in Seq(Runs)
  BY DEF TypeOK
<1>4. TurnsJoined'
  BY <1>1, <1>3 DEF TurnInv, TurnsJoined
<1>5. CurrentTurnFirst'
  BY <1>1, <1>2 DEF TurnInv, CurrentTurnFirst
<1> QED
  BY <1>4, <1>5 DEF TurnInv

\* A run that joins its session goes to the end of the chain.
LEMMA JoinTurns ==
  ASSUME TypeOK, TurnInv, NEW r \in Runs, phase[r] = "claimed", SessionOf[r] # NoSession,
         turns' = [turns EXCEPT ![SessionOf[r]] = Append(@, r)], Move(r, "turn")
  PROVE  turns' \in [Sessions -> Seq(Runs)] /\ TurnInv'
<1> DEFINE s == SessionOf[r]
<1>1. s \in Sessions /\ turns[s] \in Seq(Runs)
  BY SessionOfType DEF TypeOK
<1>2. ~Joined(r) /\ Joined(r)' /\ phase'[r] = "turn"
  BY DEF Joined, Move, TypeOK
<1>3. \A q \in Runs \ {r} : phase'[q] = phase[q] /\ (Joined(q)' <=> Joined(q))
  BY DEF Joined, Move, TypeOK
<1>4. turns' \in [Sessions -> Seq(Runs)]
  BY <1>1 DEF TypeOK
<1>5. \A i \in DOMAIN turns[s] : turns[s][i] \in Runs \ {r}
  BY <1>1, <1>2 DEF TurnInv, TurnsJoined
<1>6. /\ DOMAIN turns'[s] = DOMAIN turns[s] \union {Len(turns[s]) + 1}
      /\ \A i \in DOMAIN turns[s] : turns'[s][i] = turns[s][i]
      /\ turns'[s][Len(turns[s]) + 1] = r
      /\ Len(turns[s]) + 1 \notin DOMAIN turns[s]
  BY <1>1 DEF TypeOK
<1>7. \A t \in Sessions \ {s} : turns'[t] = turns[t] /\ turns[t] \in Seq(Runs)
  BY <1>1 DEF TypeOK
<1>8. \A t \in Sessions \ {s} : \A i \in DOMAIN turns[t] : turns[t][i] \in Runs \ {r}
  BY <1>7 DEF TurnInv, TurnsJoined
<1>9. TurnsJoined'
  <2>1. (\A t \in Sessions : \A i \in DOMAIN turns[t] :
            SessionOf[turns[t][i]] = t /\ Joined(turns[t][i]))'
    <3> SUFFICES ASSUME NEW t \in Sessions, NEW i \in DOMAIN turns'[t]
                 PROVE  SessionOf[turns'[t][i]] = t /\ (\E q \in Runs : q = turns'[t][i] /\ Joined(q)')
      BY DEF Joined
    <3>1. CASE t # s
      BY <1>3, <1>7, <1>8, <3>1 DEF TurnInv, TurnsJoined
    <3>2. CASE t = s /\ i \in DOMAIN turns[s]
      BY <1>1, <1>3, <1>5, <1>6, <3>2 DEF TurnInv, TurnsJoined
    <3>3. CASE t = s /\ i = Len(turns[s]) + 1
      BY <1>2, <1>6, <3>3
    <3> QED
      BY <1>6, <3>1, <3>2, <3>3
  <2>2. \A t \in Sessions : \A i, j \in DOMAIN turns'[t] : turns'[t][i] = turns'[t][j] => i = j
    BY <1>1, <1>5, <1>6, <1>7 DEF TurnInv, TurnsJoined
  <2>3. \A q \in Runs : Joined(q)' =>
           \E i \in DOMAIN turns'[SessionOf[q]] : turns'[SessionOf[q]][i] = q
    <3> SUFFICES ASSUME NEW q \in Runs, Joined(q)'
                 PROVE  \E i \in DOMAIN turns'[SessionOf[q]] : turns'[SessionOf[q]][i] = q
      OBVIOUS
    <3>1. CASE q = r
      BY <1>6, <3>1
    <3>2. CASE q # r
      <4>1. Joined(q) /\ SessionOf[q] \in Sessions
        BY <1>3, <3>2, SessionOfType DEF Joined
      <4>2. PICK i \in DOMAIN turns[SessionOf[q]] : turns[SessionOf[q]][i] = q
        BY <4>1 DEF TurnInv, TurnsJoined
      <4> QED
        BY <1>6, <1>7, <4>1, <4>2
    <3> QED
      BY <3>1, <3>2
  <2> QED
    BY <2>1, <2>2, <2>3 DEF TurnsJoined
<1>10. CurrentTurnFirst'
  <2> SUFFICES ASSUME NEW q \in Runs, Joined(q)', phase'[q] # "turn"
               PROVE  turns'[SessionOf[q]][1] = q
    BY DEF CurrentTurnFirst
  <2>1. q # r /\ Joined(q) /\ phase[q] # "turn" /\ SessionOf[q] \in Sessions
    BY <1>2, <1>3, SessionOfType DEF Joined
  <2>2. turns[SessionOf[q]][1] = q
    BY <2>1 DEF TurnInv, CurrentTurnFirst
  <2>3. 1 \in DOMAIN turns[SessionOf[q]]
    <3>1. \E i \in DOMAIN turns[SessionOf[q]] : turns[SessionOf[q]][i] = q
      BY <2>1 DEF TurnInv, TurnsJoined
    <3>2. turns[SessionOf[q]] \in Seq(Runs)
      BY <2>1 DEF TypeOK
    <3> QED
      BY <3>1, <3>2
  <2> QED
    BY <1>6, <1>7, <2>1, <2>2, <2>3
<1> QED
  BY <1>4, <1>9, <1>10 DEF TurnInv

\* The first run of a chain starts its turn.
LEMMA StartTurn ==
  ASSUME TypeOK, TurnInv, NEW r \in Runs, phase[r] = "turn", Head(turns[SessionOf[r]]) = r,
         UNCHANGED turns, phase'[r] \in {"permit", "executing"},
         \A q \in Runs \ {r} : phase'[q] = phase[q]
  PROVE  TurnInv'
<1>1. \A q \in Runs : Joined(q)' <=> Joined(q)
  BY DEF Joined
<1>2. \A s \in Sessions : turns[s] \in Seq(Runs)
  BY DEF TypeOK
<1>3. TurnsJoined'
  BY <1>1, <1>2 DEF TurnInv, TurnsJoined
<1>4. CurrentTurnFirst'
  BY <1>1 DEF TurnInv, CurrentTurnFirst
<1> QED
  BY <1>3, <1>4 DEF TurnInv

\* Tail(q) is q one place to the left.
LEMMA TailProperties ==
  ASSUME NEW S, NEW q \in Seq(S), q # << >>
  PROVE  /\ \A i \in DOMAIN Tail(q) : i + 1 \in DOMAIN q /\ Tail(q)[i] = q[i + 1]
         /\ \A i \in DOMAIN q : i = 1 \/ (i - 1 \in DOMAIN Tail(q) /\ Tail(q)[i - 1] = q[i])
  OBVIOUS

\* A turn that ends leaves the head of its chain to the next run.
LEMMA FinishTurn ==
  ASSUME TypeOK, TurnInv, NEW r \in Runs, phase[r] = "executing", phase'[r] = "finished",
         turns' = IF SessionOf[r] = NoSession THEN turns
                  ELSE [turns EXCEPT ![SessionOf[r]] = Tail(@)],
         \A q \in Runs \ {r} : \/ phase'[q] = phase[q]
                               \/ phase[q] = "permit" /\ phase'[q] = "executing"
  PROVE  turns' \in [Sessions -> Seq(Runs)] /\ TurnInv'
<1>1. CASE SessionOf[r] = NoSession
  <2>1. ~Joined(r) /\ ~Joined(r)'
    BY <1>1 DEF Joined
  <2> QED
    BY <1>1, <2>1, TurnsKept DEF TypeOK
<1>2. CASE SessionOf[r] # NoSession
  <2> DEFINE s == SessionOf[r]
  <2>1. s \in Sessions /\ turns[s] \in Seq(Runs)
    BY <1>2, SessionOfType DEF TypeOK
  <2>2. Joined(r) /\ ~Joined(r)' /\ turns[s][1] = r
    BY <1>2 DEF TurnInv, CurrentTurnFirst, Joined
  <2>3. \A q \in Runs \ {r} : (Joined(q)' <=> Joined(q)) /\ (phase'[q] = "turn" <=> phase[q] = "turn")
    BY DEF Joined
  <2>4. turns[s] # << >>
    BY <2>1, <2>2 DEF TurnInv, TurnsJoined
  <2>5. /\ turns'[s] = Tail(turns[s]) /\ turns'[s] \in Seq(Runs)
        /\ \A t \in Sessions \ {s} : turns'[t] = turns[t]
        /\ turns' \in [Sessions -> Seq(Runs)]
    BY <1>2, <2>1, <2>4 DEF TypeOK
  <2>6. /\ \A i \in DOMAIN turns'[s] : i + 1 \in DOMAIN turns[s] /\ turns'[s][i] = turns[s][i + 1]
        /\ \A i \in DOMAIN turns[s] : i = 1 \/ (i - 1 \in DOMAIN turns'[s] /\ turns'[s][i - 1] = turns[s][i])
    <3> HIDE DEF s
    <3>1. /\ \A i \in DOMAIN Tail(turns[s]) : i + 1 \in DOMAIN turns[s] /\ Tail(turns[s])[i] = turns[s][i + 1]
          /\ \A i \in DOMAIN turns[s] :
               i = 1 \/ (i - 1 \in DOMAIN Tail(turns[s]) /\ Tail(turns[s])[i - 1] = turns[s][i])
      BY <2>1, <2>4, TailProperties
    <3> QED
      BY <2>5, <3>1
  <2>7. \A i \in DOMAIN turns'[s] : turns'[s][i] \in Runs \ {r}
    <3>1. \A i \in DOMAIN turns[s] : turns[s][i] \in Runs /\ (i # 1 => turns[s][i] # r)
      <4>1. 1 \in DOMAIN turns[s]
        BY <2>1, <2>4
      <4> QED
        BY <2>1, <2>2, <4>1 DEF TurnInv, TurnsJoined
    <3>2. \A i \in DOMAIN turns'[s] : i + 1 # 1
      BY <2>5
    <3> QED
      BY <2>6, <3>1, <3>2
  <2>8. \A t \in Sessions \ {s} : \A i \in DOMAIN turns[t] : turns[t][i] \in Runs \ {r}
    BY DEF TypeOK, TurnInv, TurnsJoined
  <2>9. TurnsJoined'
    <3>1. (\A t \in Sessions : \A i \in DOMAIN turns[t] :
              SessionOf[turns[t][i]] = t /\ Joined(turns[t][i]))'
      <4> SUFFICES ASSUME NEW t \in Sessions, NEW i \in DOMAIN turns'[t]
                   PROVE  SessionOf[turns'[t][i]] = t /\ (\E q \in Runs : q = turns'[t][i] /\ Joined(q)')
        BY DEF Joined
      <4>1. CASE t # s
        BY <2>3, <2>5, <2>8, <4>1 DEF TurnInv, TurnsJoined
      <4>2. CASE t = s
        BY <2>1, <2>3, <2>6, <2>7, <4>2 DEF TurnInv, TurnsJoined
      <4> QED
        BY <4>1, <4>2
    <3>2. \A t \in Sessions : \A i, j \in DOMAIN turns'[t] : turns'[t][i] = turns'[t][j] => i = j
      <4> SUFFICES ASSUME NEW t \in Sessions, NEW i \in DOMAIN turns'[t], NEW j \in DOMAIN turns'[t],
                          turns'[t][i] = turns'[t][j]
                   PROVE  i = j
        OBVIOUS
      <4>1. CASE t # s
        BY <2>5, <4>1 DEF TurnInv, TurnsJoined
      <4>2. CASE t = s
        <5>1. i + 1 = j + 1
          BY <2>1, <2>6, <4>2 DEF TurnInv, TurnsJoined
        <5>2. i \in Nat /\ j \in Nat
          BY <2>5, <4>2
        <5> QED
          BY <5>1, <5>2
      <4> QED
        BY <4>1, <4>2
    <3>3. \A q \in Runs : Joined(q)' =>
             \E i \in DOMAIN turns'[SessionOf[q]] : turns'[SessionOf[q]][i] = q
      <4> SUFFICES ASSUME NEW q \in Runs, Joined(q)'
                   PROVE  \E i \in DOMAIN turns'[SessionOf[q]] : turns'[SessionOf[q]][i] = q
        OBVIOUS
      <4>1. q # r /\ Joined(q) /\ SessionOf[q] \in Sessions
        BY <2>2, <2>3, SessionOfType DEF Joined
      <4>2. PICK i \in DOMAIN turns[SessionOf[q]] : turns[SessionOf[q]][i] = q
        BY <4>1 DEF TurnInv, TurnsJoined
      <4>3. CASE SessionOf[q] # s
        BY <2>5, <4>1, <4>2, <4>3
      <4>4. CASE SessionOf[q] = s
        <5>1. i # 1
          BY <2>2, <4>1, <4>2, <4>4
        <5> QED
          BY <2>6, <4>2, <4>4, <5>1
      <4> QED
        BY <4>3, <4>4
    <3> QED
      BY <3>1, <3>2, <3>3 DEF TurnsJoined
  <2>10. CurrentTurnFirst'
    <3> SUFFICES ASSUME NEW q \in Runs, Joined(q)', phase'[q] # "turn"
                 PROVE  turns'[SessionOf[q]][1] = q
      BY DEF CurrentTurnFirst
    <3>1. q # r /\ Joined(q) /\ phase[q] # "turn" /\ SessionOf[q] \in Sessions
      BY <2>2, <2>3, SessionOfType DEF Joined
    <3>2. turns[SessionOf[q]][1] = q
      BY <3>1 DEF TurnInv, CurrentTurnFirst
    <3> QED
      BY <2>2, <2>5, <3>1, <3>2
  <2> QED
    BY <2>5, <2>9, <2>10 DEF TurnInv
<1> QED
  BY <1>1, <1>2

-----------------------------------------------------------------------------
(* The invariant and what follows from it *)

\* The invariant holds before any run is claimed.
LEMMA InitIInv == Init => IInv
<1> SUFFICES ASSUME Init PROVE IInv
  OBVIOUS
<1>1. TypeOK
  BY DEF Init, TypeOK, Phases
<1>2. GateInv
  BY FS_EmptySet, CapacityAssumption DEF Init, GateInv, GateSound, PermitsAccounted,
     NoIdlePermit, UnpermittedRunsAreCancelled, HoldersExecute, WaitersWait
<1>3. TurnInv
  BY DEF Init, TurnInv, TurnsJoined, CurrentTurnFirst, Joined
<1> QED
  BY <1>1, <1>2, <1>3 DEF IInv

\* Every step keeps the invariant.
LEMMA NextIInv == IInv /\ [Next]_vars => IInv'
<1> SUFFICES ASSUME IInv, [Next]_vars PROVE IInv'
  OBVIOUS
<1>0. TypeOK /\ GateInv /\ TurnInv
  BY DEF IInv
<1>1. ASSUME NEW r \in Runs, Claim(r) PROVE IInv'
  <2>1. TypeOK'
    BY <1>0, <1>1 DEF Claim, TypeOK, Move, gate, Phases
  <2>2. GateInv'
    <3>1. r \notin permit /\ \A i \in DOMAIN waiters : waiters[i] # r
      BY <1>0, <1>1 DEF GateInv, HoldersExecute, WaitersWait, Claim
    <3> QED
      BY <1>0, <1>1, <3>1 DEF Claim, Move, gate, TypeOK, GateInv, GateSound, PermitsAccounted,
         NoIdlePermit, UnpermittedRunsAreCancelled, HoldersExecute, WaitersWait
  <2>3. TurnInv'
    <3>1. UNCHANGED turns /\ \A q \in Runs : phase'[q] = phase[q] \/ (~Joined(q) /\ ~Joined(q)')
      BY <1>0, <1>1 DEF Claim, Move, TypeOK, Joined
    <3> QED
      BY <1>0, <3>1, TurnsKept
  <2> QED
    BY <2>1, <2>2, <2>3 DEF IInv
<1>2. ASSUME NEW r \in Runs, Join(r) PROVE IInv'
  <2>1. CASE /\ SessionOf[r] # NoSession
             /\ turns' = [turns EXCEPT ![SessionOf[r]] = Append(@, r)]
             /\ Move(r, "turn") /\ UNCHANGED gate
    <3>1. phase[r] = "claimed" /\ UNCHANGED <<aborted, runtime>>
      BY <1>2 DEF Join
    <3>2. turns' \in [Sessions -> Seq(Runs)] /\ TurnInv'
      BY <1>0, <2>1, <3>1, JoinTurns
    <3>3. TypeOK'
      BY <1>0, <2>1, <3>1, <3>2 DEF TypeOK, Move, gate, Phases
    <3>4. r \notin permit /\ \A i \in DOMAIN waiters : waiters[i] # r
      BY <1>0, <3>1 DEF GateInv, HoldersExecute, WaitersWait
    <3>5. GateInv'
      BY <1>0, <2>1, <3>1, <3>4 DEF Move, gate, TypeOK, GateInv, GateSound, PermitsAccounted,
         NoIdlePermit, UnpermittedRunsAreCancelled, HoldersExecute, WaitersWait
    <3> QED
      BY <3>2, <3>3, <3>5 DEF IInv
  <2>2. CASE SessionOf[r] = NoSession /\ EnterGate(r) /\ UNCHANGED turns
    <3>1. phase[r] = "claimed" /\ UNCHANGED <<aborted, runtime>>
      BY <1>2 DEF Join
    <3>2. /\ phase' \in [Runs -> Phases]
          /\ waiters' \in Seq(Runs) /\ active' \in Nat /\ permit' \subseteq Runs
          /\ GateInv'
          /\ \A q \in Runs \ {r} : phase'[q] = phase[q]
      BY <1>0, <2>2, <3>1, EnterGateSound
    <3>3. ~Joined(r) /\ ~Joined(r)'
      BY <2>2 DEF Joined
    <3>4. TurnInv'
      BY <1>0, <2>2, <3>2, <3>3, TurnsKept
    <3> QED
      BY <1>0, <2>2, <3>1, <3>2, <3>4 DEF IInv, TypeOK
  <2> QED
    BY <1>2, <2>1, <2>2 DEF Join
<1>3. ASSUME NEW r \in Runs, TurnStarts(r) PROVE IInv'
  <2>1. /\ phase[r] = "turn" /\ Head(turns[SessionOf[r]]) = r /\ EnterGate(r)
        /\ UNCHANGED <<turns, aborted, runtime>>
    BY <1>3 DEF TurnStarts
  <2>2. /\ phase' \in [Runs -> Phases]
        /\ waiters' \in Seq(Runs) /\ active' \in Nat /\ permit' \subseteq Runs
        /\ GateInv'
        /\ phase'[r] \in {"permit", "executing"}
        /\ \A q \in Runs \ {r} : phase'[q] = phase[q]
    BY <1>0, <2>1, EnterGateSound
  <2>3. TurnInv'
    BY <1>0, <2>1, <2>2, StartTurn
  <2> QED
    BY <1>0, <2>1, <2>2, <2>3 DEF IInv, TypeOK
<1>4. ASSUME NEW r \in Runs, Abort(r) PROVE IInv'
  <2>1. /\ phase' \in [Runs -> Phases] /\ waiters' \in Seq(Runs)
        /\ GateInv'
        /\ \A q \in Runs : \/ phase'[q] = phase[q]
                           \/ phase[q] = "permit" /\ phase'[q] = "executing"
    BY <1>0, <1>4, AbortSound
  <2>2. /\ aborted' = aborted \union {r} /\ UNCHANGED <<turns, runtime, active, permit>>
    BY <1>4 DEF Abort, Abandon
  <2>3. TurnInv'
    BY <1>0, <2>1, <2>2, TurnsKept
  <2> QED
    BY <1>0, <2>1, <2>2, <2>3 DEF IInv, TypeOK
<1>5. ASSUME NEW r \in Runs, Finish(r) PROVE IInv'
  <2>1. /\ phase' \in [Runs -> Phases]
        /\ waiters' \in Seq(Runs) /\ active' \in Nat /\ permit' \subseteq Runs
        /\ GateInv'
        /\ phase'[r] = "finished"
        /\ \A q \in Runs \ {r} : \/ phase'[q] = phase[q]
                                 \/ phase[q] = "permit" /\ phase'[q] = "executing"
    BY <1>0, <1>5, FinishSound
  <2>2. /\ phase[r] = "executing" /\ UNCHANGED <<aborted, runtime>>
        /\ turns' = IF SessionOf[r] = NoSession THEN turns
                    ELSE [turns EXCEPT ![SessionOf[r]] = Tail(@)]
    BY <1>5 DEF Finish
  <2>3. turns' \in [Sessions -> Seq(Runs)] /\ TurnInv'
    BY <1>0, <2>1, <2>2, FinishTurn
  <2> QED
    BY <1>0, <2>1, <2>2, <2>3 DEF IInv, TypeOK
<1>6. ASSUME NEW r \in Runs, ReleaseRun(r) PROVE IInv'
  <2>1. /\ phase[r] = "finished" /\ UNCHANGED <<aborted, turns, gate, runtime>>
        /\ phase' \in [Runs -> Phases] /\ phase'[r] = "idle"
        /\ \A q \in Runs \ {r} : phase'[q] = phase[q]
    BY <1>0, <1>6 DEF ReleaseRun, Move, TypeOK, Phases
  <2>2. r \notin permit /\ \A i \in DOMAIN waiters : waiters[i] # r
    BY <1>0, <2>1 DEF GateInv, HoldersExecute, WaitersWait
  <2>3. GateInv'
    BY <1>0, <2>1, <2>2 DEF gate, TypeOK, GateInv, GateSound, PermitsAccounted,
       NoIdlePermit, UnpermittedRunsAreCancelled, HoldersExecute, WaitersWait
  <2>4. ~Joined(r) /\ ~Joined(r)'
    BY <2>1 DEF Joined
  <2>5. TurnInv'
    BY <1>0, <2>1, <2>4, TurnsKept
  <2> QED
    BY <1>0, <2>1, <2>3, <2>5 DEF IInv, TypeOK, gate
<1>7. ASSUME Close PROVE IInv'
  <2>1. /\ phase' \in [Runs -> Phases]
        /\ GateInv'
        /\ \A q \in Runs : \/ phase'[q] = phase[q]
                           \/ phase[q] = "permit" /\ phase'[q] = "executing"
    BY <1>0, <1>7, CloseSound
  <2>2. TurnInv'
    BY <1>0, <1>7, <2>1, TurnsKept DEF Close
  <2> QED
    BY <1>0, <1>7, <2>1, <2>2 DEF IInv, TypeOK, Close, ActiveRuns
<1>8. ASSUME CloseServices PROVE IInv'
  <2>1. /\ \A r \in Runs : phase[r] \in {"idle", "finished"} /\ phase'[r] = "idle"
        /\ UNCHANGED <<aborted, turns, gate>> /\ TypeOK'
    BY <1>0, <1>8 DEF CloseServices, Settled, TypeOK, gate, Phases
  <2>2. permit = {} /\ waiters = << >>
    <3>1. \A r \in permit : r \in Runs /\ phase[r] = "executing"
      BY <1>0 DEF TypeOK, GateInv, HoldersExecute
    <3>2. waiters # << >> => waiters[1] \in Runs /\ phase[waiters[1]] = "permit"
      BY <1>0 DEF TypeOK, GateInv, WaitersWait
    <3> QED
      BY <2>1, <3>1, <3>2
  <2>3. GateInv'
    BY <1>0, <2>1, <2>2 DEF gate, TypeOK, GateInv, GateSound, PermitsAccounted,
       NoIdlePermit, UnpermittedRunsAreCancelled, HoldersExecute, WaitersWait
  <2>4. \A q \in Runs : ~Joined(q) /\ ~Joined(q)'
    BY <2>1 DEF Joined
  <2>5. TurnInv'
    BY <1>0, <2>1, <2>4, TurnsKept
  <2> QED
    BY <2>1, <2>3, <2>5 DEF IInv
<1>9. CASE UNCHANGED vars
  <2>1. TypeOK'
    BY <1>0, <1>9 DEF vars, gate, TypeOK
  <2>2. GateInv'
    BY <1>0, <1>9 DEF vars, gate, GateInv, GateSound, PermitsAccounted,
       NoIdlePermit, UnpermittedRunsAreCancelled, HoldersExecute, WaitersWait
  <2>3. TurnInv'
    BY <1>0, <1>9, TurnsKept DEF vars, gate
  <2> QED
    BY <2>1, <2>2, <2>3 DEF IInv
<1> QED
  BY <1>1, <1>2, <1>3, <1>4, <1>5, <1>6, <1>7, <1>8, <1>9 DEF Next, Progress

\* The invariant the theorems follow from holds in every reachable state.
THEOREM SpecIInv == Spec => []IInv
  BY InitIInv, NextIInv, PTL DEF Spec

\* Type correctness for any runs, sessions and capacity.
THEOREM RunGateTypeOK == Spec => []TypeOK
<1>1. IInv => TypeOK
  BY DEF IInv
<1> QED
  BY <1>1, SpecIInv, PTL

\* The gate never leaks, duplicates or idles a permit, and only cancelled runs
\* execute without one.
THEOREM GateIsSound == Spec => []GateSound
<1>1. IInv => GateSound
  BY DEF IInv, GateInv
<1> QED
  BY <1>1, SpecIInv, PTL

\* Turns of one session never overlap, and never occupy more than one place at
\* the gate: the comment of executeWithSessionLock().
THEOREM TurnsDoNotOverlap == Spec => []OneTurnPerSession
<1>1. IInv => OneTurnPerSession
  BY DEF IInv, TurnInv, CurrentTurnFirst, Joined, OneTurnPerSession
<1> QED
  BY <1>1, SpecIInv, PTL

\* Permits go out in order of arrival.
THEOREM PermitsInOrder == Spec => FirstComeFirstServed
<1>1. IInv /\ [Next]_vars => [PassesOverNobody]_vars
  <2> SUFFICES ASSUME IInv, [Next]_vars PROVE PassesOverNobody
    OBVIOUS
  <2>0. TypeOK /\ GateInv
    BY DEF IInv
  <2>1. \/ permit' \subseteq permit
        \/ waiters = << >>
        \/ waiters # << >> /\ permit' \ permit \subseteq {waiters[1]}
    <3>1. ASSUME NEW r \in Runs, EnterGate(r) PROVE permit' \subseteq permit \/ waiters = << >>
      <4>1. active < Capacity => waiters = << >>
        BY <2>0, CapacityAssumption DEF TypeOK, GateInv, GateSound, NoIdlePermit
      <4> QED
        BY <3>1, <4>1 DEF EnterGate, gate
    <3>2. ASSUME NEW r \in Runs, Join(r) PROVE permit' \subseteq permit \/ waiters = << >>
      BY <3>1, <3>2 DEF Join, gate
    <3>3. ASSUME NEW r \in Runs, TurnStarts(r) PROVE permit' \subseteq permit \/ waiters = << >>
      BY <3>1, <3>3 DEF TurnStarts
    <3>4. ASSUME NEW r \in Runs, Finish(r)
          PROVE  \/ permit' \subseteq permit
                 \/ waiters # << >> /\ permit' \ permit \subseteq {waiters[1]}
      <4>1. CASE Release(r)
        BY <2>0, <4>1, ReleaseWakesFirst DEF GateInv
      <4>2. CASE UNCHANGED gate
        BY <4>2 DEF gate
      <4> QED
        BY <3>4, <4>1, <4>2 DEF Finish
    <3>5. ASSUME NEW r \in Runs, Claim(r) \/ Abort(r) \/ ReleaseRun(r) PROVE permit' = permit
      BY <3>5 DEF Claim, Abort, Abandon, ReleaseRun, gate
    <3>6. Close \/ CloseServices \/ UNCHANGED vars => permit' = permit
      BY DEF Close, CloseServices, vars, gate
    <3> QED
      BY <3>2, <3>3, <3>4, <3>5, <3>6 DEF Next, Progress
  <2>2. waiters # << >> => \A i \in DOMAIN waiters : i \in Nat /\ (i = 1 \/ 1 < i) /\ 1 \in DOMAIN waiters
    BY <2>0 DEF TypeOK
  <2>3. waiters = << >> => DOMAIN waiters = {}
    OBVIOUS
  <2> QED
    BY <2>1, <2>2, <2>3 DEF PassesOverNobody
<1> QED
  BY <1>1, SpecIInv, PTL DEF Spec, FirstComeFirstServed


-----------------------------------------------------------------------------
(* The gate is a fair semaphore *)

LEMMA SameCount == Fair!Cardinality(permit) = Cardinality(permit)
  BY DEF Fair!Cardinality, Cardinality

\* A run comes to the gate: it is let in, waits, or passes by.
LEMMA EnterImplements ==
  ASSUME TypeOK, GateInv, NEW r \in Runs, phase[r] \in {"claimed", "turn"}, EnterGate(r)
  PROVE  Fair!Next \/ UNCHANGED <<permit, waiters>>
<1>1. r \notin permit /\ ~Fair!Waits(r)
  BY DEF GateInv, HoldersExecute, WaitersWait, Fair!Waits
<1>2. active = Cardinality(permit) /\ active \in Nat /\ active <= Capacity
  BY DEF TypeOK, GateInv, GateSound, PermitsAccounted
<1>3. CASE r \in aborted /\ UNCHANGED gate
  BY <1>3 DEF gate
<1>4. CASE active < Capacity /\ permit' = permit \union {r} /\ UNCHANGED waiters
  <2>1. waiters = << >>
    BY <1>2, <1>4, CapacityAssumption DEF GateInv, GateSound, NoIdlePermit
  <2>2. Fair!Enter(r)
    BY <1>1, <1>2, <1>4, <2>1, SameCount DEF Fair!Enter
  <2> QED
    BY <2>2 DEF Fair!Next
<1>5. CASE active >= Capacity /\ waiters' = Append(waiters, r) /\ UNCHANGED <<active, permit>>
  <2>1. Cardinality(permit) = Capacity
    BY <1>2, <1>5, CapacityAssumption
  <2>2. Fair!Wait(r)
    BY <1>1, <1>5, <2>1, SameCount DEF Fair!Wait
  <2> QED
    BY <2>2 DEF Fair!Next
<1> QED
  BY <1>3, <1>4, <1>5 DEF EnterGate

\* The end of an execution: its permit is handed over or returned, if it had one.
LEMMA FinishImplements ==
  ASSUME TypeOK, GateInv, NEW r \in Runs, Finish(r)
  PROVE  Fair!Next \/ UNCHANGED <<permit, waiters>>
<1>1. CASE r \in permit /\ Release(r)
  <2>1. WaitersWait /\ (waiters # << >> => Head(waiters) = waiters[1])
    BY DEF GateInv, TypeOK
  <2>2. \/ waiters = << >> /\ waiters' = << >> /\ permit' = permit \ {r}
        \/ /\ waiters # << >> /\ waiters' = Tail(waiters)
           /\ permit' = (permit \ {r}) \union {waiters[1]}
    BY <1>1, <2>1, ReleaseWakesFirst
  <2>3. Fair!Leave(r) \/ Fair!HandOver(r)
    BY <1>1, <2>1, <2>2 DEF Fair!Leave, Fair!HandOver
  <2> QED
    BY <2>3 DEF Fair!Next
<1>2. CASE r \notin permit /\ UNCHANGED gate
  BY <1>2 DEF gate
<1> QED
  BY <1>1, <1>2 DEF Finish

\* An abort listener takes its run out of the queue and leaves the others in order.
LEMMA AbortImplements ==
  ASSUME TypeOK, NEW r \in Runs, Abort(r)
  PROVE  Fair!Next \/ UNCHANGED <<permit, waiters>>
<1>1. permit' = permit
  BY DEF Abort, Abandon
<1>2. CASE UNCHANGED waiters
  BY <1>1, <1>2
<1>3. CASE \E k \in DOMAIN waiters : waiters' = Without(waiters, k)
  <2>1. PICK k \in DOMAIN waiters : waiters' = Without(waiters, k)
    BY <1>3
  <2>2. waiters \in Seq(Runs) /\ Len(waiters) \in Nat /\ DOMAIN waiters = 1..Len(waiters)
    BY DEF TypeOK
  <2>3. /\ waiters' \in Seq(Runs) /\ DOMAIN waiters' = 1..(Len(waiters) - 1)
        /\ \A i \in 1..(Len(waiters) - 1) : waiters'[i] = waiters[IF i < k THEN i ELSE i + 1]
    BY <2>1, <2>2, WithoutProperties
  <2> DEFINE at == [i \in 1..(Len(waiters) - 1) |-> IF i < k THEN i ELSE i + 1]
  <2>4. /\ at \in [1..(Len(waiters) - 1) -> 1..Len(waiters)]
        /\ \A i, j \in 1..(Len(waiters) - 1) : i < j => at[i] < at[j]
    BY <2>2
  <2>5. \A i \in 1..(Len(waiters) - 1) : waiters'[i] = waiters[at[i]]
    BY <2>3
  <2> HIDE DEF at
  <2>6. Fair!Subsequence(waiters', waiters)
    BY <2>2, <2>3, <2>4, <2>5 DEF Fair!Subsequence
  <2> QED
    BY <1>1, <2>3, <2>6 DEF Fair!Next, Fair!GiveUp
<1> QED
  BY <1>2, <1>3 DEF Abort, Abandon

\* close(): everybody who waits gives up.
LEMMA CloseImplements ==
  ASSUME Close PROVE Fair!Next
<1>1. permit' = permit /\ waiters' = << >>
  BY DEF Close
<1>2. Fair!Subsequence(waiters', waiters)
  <2> DEFINE at == [i \in {} |-> i]
  <2>1. DOMAIN waiters' = {} /\ at \in [{} -> DOMAIN waiters]
    BY <1>1
  <2> QED
    BY <2>1 DEF Fair!Subsequence
<1> QED
  BY <1>1, <1>2 DEF Fair!Next, Fair!GiveUp

LEMMA StepImplements == IInv /\ [Next]_vars => [Fair!Next]_<<permit, waiters>>
<1> SUFFICES ASSUME IInv, [Next]_vars PROVE Fair!Next \/ UNCHANGED <<permit, waiters>>
  OBVIOUS
<1>0. TypeOK /\ GateInv
  BY DEF IInv
<1>1. ASSUME NEW r \in Runs, Join(r) PROVE Fair!Next \/ UNCHANGED <<permit, waiters>>
  <2>1. phase[r] = "claimed" /\ (EnterGate(r) \/ UNCHANGED gate)
    BY <1>1 DEF Join
  <2> QED
    BY <1>0, <2>1, EnterImplements DEF gate
<1>2. ASSUME NEW r \in Runs, TurnStarts(r) PROVE Fair!Next \/ UNCHANGED <<permit, waiters>>
  BY <1>0, <1>2, EnterImplements DEF TurnStarts
<1>3. ASSUME NEW r \in Runs, Claim(r) \/ ReleaseRun(r) PROVE UNCHANGED <<permit, waiters>>
  BY <1>3 DEF Claim, ReleaseRun, gate
<1>4. CloseServices \/ UNCHANGED vars => UNCHANGED <<permit, waiters>>
  BY DEF CloseServices, vars, gate
<1> QED
  BY <1>0, <1>1, <1>2, <1>3, <1>4, FinishImplements, AbortImplements, CloseImplements DEF Next, Progress

\* For any runs, sessions and capacity the gate behaves as a fair semaphore: a permit is taken
\* at once only when nobody waits, goes from who releases it to whoever waited longest, and a
\* cancelled waiter leaves the others in their order.
THEOREM GateIsFair == Spec => ImplementsSemaphore
<1>1. Init => Fair!Init
  BY DEF Init, Fair!Init
<1>2. IInv /\ [Next]_vars => [Fair!Next]_(Fair!vars)
  BY StepImplements DEF Fair!vars
<1> QED
  BY <1>1, <1>2, SpecIInv, PTL DEF Spec, ImplementsSemaphore, Fair!Spec
=============================================================================
