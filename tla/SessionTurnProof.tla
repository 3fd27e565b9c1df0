-------------------------- MODULE SessionTurnProof --------------------------
(***************************************************************************)
(* Proofs about SessionTurn for any number of clients, turns, edits and     *)
(* crashes.                                                                 *)
(*                                                                          *)
(* The invariant has three layers. LocalInv speaks of one client at a time. *)
(* LockInv says that the two lock files belong to the clients that rely on  *)
(* them, until a lock is lost (raced). SavedInv relates the copies of the   *)
(* session that clients hold, and the writes under way, to the file.        *)
(***************************************************************************)
EXTENDS SessionTurn, TLAPS

Acquiring == {"open", "stat", "rm"}
Writing == {"check", "write", "unlock"}
SaveKinds == {"checkpoint", "final", "append"}
TurnKinds == {"checkpoint", "final", "touch"}

\* A save that has not been compared with the file yet, and a turn between its
\* load and its final save.
Saving(p) == p.kind \in SaveKinds /\ p.pc \in Acquiring \union {"check"}
InLoop(p) == p.pc \in {"reread", "run"} \/ p.kind \in {"checkpoint", "final"}

\* Where a client can be with which kind of write, and what it has by then.
ProcOK(p) ==
    /\ p \in Procs
    /\ p.pc = "idle" => p = Idle(p.snap)
    /\ p.pc \in Acquiring => p.kind # "none"
    /\ p.pc = "token" => p.kind = "turn"
    /\ p.pc \in Writing => p.kind \in SaveKinds \union {"touch", "edit"}
    /\ p.pc \in {"load", "reread", "run", "release"} => p.leased /\ p.kind = "none"
    /\ p.pc = "unlink" => ~ p.leased /\ p.kind = "none"
    /\ p.kind = "turn" => p.pc \in Acquiring \union {"token"}
    /\ p.kind \in TurnKinds => p.leased
    /\ p.kind \in {"turn", "edit", "append"} => ~ p.leased
    /\ p.kind # "none" => p.pc \in Acquiring \union Writing \union {"token"}
    /\ p.ok => p.pc = "unlock"
    /\ p.pc = "write" \/ p.ok => p.next.rev > 0
    /\ InLoop(p) => p.snap.rev > 0 /\ p.job \in ToSet(p.conv)
    /\ Saving(p) => p.next.rev > 0
    /\ Saving(p) /\ p.kind \in {"checkpoint", "final"} => p.next.msgs = p.conv

LocalInv ==
    /\ TypeOK
    /\ \A c \in Clients : ProcOK(proc[c])

-----------------------------------------------------------------------------
\* The types of everything but the clients.
WorldOK ==
    /\ file \in Sessions
    /\ lock \in [Locks -> [owner : Clients \union {Dead, Free}, stale : BOOLEAN]]
    /\ jobs \in [turns : 0..MaxTurns, extras : 0..MaxExtras]
    /\ crashes \in 0..MaxCrashes
    /\ acked \subseteq Jobs
    /\ raced \in BOOLEAN

LEMMA EmptyTyped == << >> \in Seq(Jobs) /\ 0 \in Jobs /\ Missing \in Sessions
<1>1. MaxTurns + MaxExtras \in Nat
  BY BoundsAssumption
<1>2. 0 \in Jobs
  BY <1>1 DEF Jobs
<1> QED
  BY <1>2 DEF Missing, Sessions

LEMMA IdleOK == \A s \in Sessions : ProcOK(Idle(s))
<1> SUFFICES ASSUME NEW s \in Sessions PROVE ProcOK(Idle(s))
  OBVIOUS
<1> DEFINE p == Idle(s)
<1>1. p \in Procs
  BY EmptyTyped DEF Idle, Procs, PCs, Kinds
<1>2. p.pc = "idle" /\ p.kind = "none" /\ p.snap = s /\ ~ p.ok /\ ~ p.leased
  BY DEF Idle
<1>3. p = Idle(p.snap)
  BY <1>2
<1> HIDE DEF p
<1> QED
  BY <1>1, <1>2, <1>3 DEF ProcOK, Acquiring, Writing, SaveKinds, TurnKinds, Saving, InLoop

\* A client moves to a state that is all right by itself.
LEMMA MoveKeeps ==
  ASSUME LocalInv, WorldOK', NEW c \in Clients, NEW p, ProcOK(p), Goto(c, p)
  PROVE  LocalInv'
<1>1. p \in Procs
  BY DEF ProcOK
<1>2. \A d \in Clients : proc'[d] = IF d = c THEN p ELSE proc[d]
  BY DEF LocalInv, TypeOK, Goto
<1>3. proc' \in [Clients -> Procs]
  BY <1>1 DEF LocalInv, TypeOK, Goto
<1>4. \A d \in Clients : ProcOK(proc'[d])
  BY <1>2 DEF LocalInv
<1>5. \A d \in Clients : proc'[d].pc = "idle" => proc'[d] = Idle(proc'[d].snap)
  BY <1>4 DEF ProcOK
<1> QED
  BY <1>3, <1>4, <1>5 DEF LocalInv, TypeOK, WorldOK, At

\* The write of a client has settled, or it has given up waiting for the lock.
LEMMA SettledOK ==
  ASSUME NEW p, ProcOK(p), NEW ok \in BOOLEAN,
         p.kind \in SaveKinds \union {"touch", "edit"},
         ok => p.next.rev > 0
  PROVE  ProcOK(Settled(p, ok))
<1> DEFINE q == [p EXCEPT !.snap = IF ok THEN p.next ELSE @, !.next = Missing, !.ok = FALSE]
<1>1. p \in Procs
  BY DEF ProcOK
<1>2. q \in Procs /\ q.job = p.job /\ q.conv = p.conv /\ q.leased = p.leased /\ ~ q.ok
      /\ q.snap = (IF ok THEN p.next ELSE p.snap) /\ q.next = Missing /\ q.kind = p.kind
  BY <1>1, EmptyTyped DEF Procs
<1> HIDE DEF q
<1>3. CASE p.kind = "checkpoint"
  <2> DEFINE r == [q EXCEPT !.pc = "run", !.kind = "none"]
  <2>1. Settled(p, ok) = r
    BY <1>3 DEF Settled, q
  <2>2. r \in Procs /\ r.pc = "run" /\ r.kind = "none" /\ r.snap = q.snap /\ r.job = q.job
        /\ r.conv = q.conv /\ r.leased = q.leased /\ ~ r.ok
    BY <1>2 DEF Procs, PCs, Kinds
  <2>3. r.leased /\ r.snap.rev > 0 /\ r.job \in ToSet(r.conv)
    BY <1>2, <2>2, <1>3 DEF ProcOK, TurnKinds, InLoop
  <2> HIDE DEF r
  <2> QED
    BY <2>1, <2>2, <2>3 DEF ProcOK, Acquiring, Writing, SaveKinds, TurnKinds, Saving, InLoop
<1>4. CASE p.kind = "final" /\ ok
  <2> DEFINE r == [q EXCEPT !.pc = "open", !.kind = "touch"]
  <2>1. Settled(p, ok) = r
    BY <1>4 DEF Settled, q
  <2>2. r \in Procs /\ r.pc = "open" /\ r.kind = "touch" /\ r.leased = q.leased /\ ~ r.ok
    BY <1>2 DEF Procs, PCs, Kinds
  <2>3. r.leased
    BY <1>2, <2>2, <1>4 DEF ProcOK, TurnKinds
  <2> HIDE DEF r
  <2> QED
    BY <2>1, <2>2, <2>3 DEF ProcOK, Acquiring, Writing, SaveKinds, TurnKinds, Saving, InLoop
<1>5. CASE (p.kind = "final" /\ ~ ok) \/ p.kind = "touch"
  <2> DEFINE r == [q EXCEPT !.pc = "release", !.kind = "none"]
  <2>1. Settled(p, ok) = r
    BY <1>5 DEF Settled, q
  <2>2. r \in Procs /\ r.pc = "release" /\ r.kind = "none" /\ r.leased = q.leased /\ ~ r.ok
    BY <1>2 DEF Procs, PCs, Kinds
  <2>3. r.leased
    BY <1>2, <2>2, <1>5 DEF ProcOK, TurnKinds
  <2> HIDE DEF r
  <2> QED
    BY <2>1, <2>2, <2>3 DEF ProcOK, Acquiring, Writing, SaveKinds, TurnKinds, Saving, InLoop
<1>6. CASE p.kind \notin {"checkpoint", "final", "touch"}
  <2>1. Settled(p, ok) = Idle(q.snap)
    BY <1>6 DEF Settled, q
  <2>2. q.snap \in Sessions
    BY <1>2 DEF Procs
  <2> QED
    BY <2>1, <2>2, IdleOK
<1> QED
  BY <1>3, <1>4, <1>5, <1>6

\* Appending to a transcript keeps what it has and adds one job.
LEMMA ToSetAppend ==
  ASSUME NEW s \in Seq(Jobs), NEW j \in Jobs
  PROVE  Append(s, j) \in Seq(Jobs) /\ ToSet(Append(s, j)) = ToSet(s) \union {j}
<1>1. Append(s, j) \in Seq(Jobs) /\ DOMAIN Append(s, j) = 1..(Len(s) + 1)
      /\ DOMAIN s = 1..Len(s) /\ Len(s) \in Nat
  OBVIOUS
<1>2. \A i \in 1..(Len(s) + 1) : Append(s, j)[i] = IF i = Len(s) + 1 THEN j ELSE s[i]
  OBVIOUS
<1>3. ASSUME NEW x \in ToSet(Append(s, j)) PROVE x \in ToSet(s) \union {j}
  <2>1. PICK i \in 1..(Len(s) + 1) : x = Append(s, j)[i]
    BY <1>1, <1>3 DEF ToSet
  <2>2. i # Len(s) + 1 => i \in 1..Len(s)
    BY <1>1
  <2> QED
    BY <1>1, <1>2, <2>1, <2>2 DEF ToSet
<1>4. ASSUME NEW x \in ToSet(s) PROVE x \in ToSet(Append(s, j))
  <2>1. PICK i \in 1..Len(s) : x = s[i]
    BY <1>1, <1>4 DEF ToSet
  <2>2. i \in 1..(Len(s) + 1) /\ i # Len(s) + 1
    BY <1>1
  <2> QED
    BY <1>1, <1>2, <2>1, <2>2 DEF ToSet
<1>5. j \in ToSet(Append(s, j))
  <2>1. Len(s) + 1 \in 1..(Len(s) + 1)
    BY <1>1
  <2> QED
    BY <1>1, <1>2, <2>1 DEF ToSet
<1> QED
  BY <1>1, <1>3, <1>4, <1>5

\* Removing a lock file keeps the types.
LEMMA RemoveTyped ==
  ASSUME LocalInv, NEW c \in Clients, NEW f \in Locks, RemoveLock(c, f)
  PROVE  /\ lock' \in [Locks -> [owner : Clients \union {Dead, Free}, stale : BOOLEAN]]
         /\ raced' \in BOOLEAN
<1>1. NoLock \in [owner : Clients \union {Dead, Free}, stale : BOOLEAN]
  BY DEF NoLock
<1> QED
  BY <1>1 DEF RemoveLock, LocalInv, TypeOK

\* The number of a job that begins.
LEMMA JobTyped ==
  ASSUME LocalInv
  PROVE  /\ jobs.turns < MaxTurns => jobs.turns + jobs.extras + 1 \in Jobs
         /\ jobs.extras < MaxExtras => jobs.turns + jobs.extras + 1 \in Jobs
<1>1. jobs.turns \in 0..MaxTurns /\ jobs.extras \in 0..MaxExtras
  BY DEF LocalInv, TypeOK
<1> QED
  BY <1>1, BoundsAssumption DEF Jobs

LEMMA MoreTyped ==
  ASSUME LocalInv, OneMore
  PROVE  jobs' \in [turns : 0..MaxTurns, extras : 0..MaxExtras]
<1>1. jobs.turns \in 0..MaxTurns /\ jobs.extras \in 0..MaxExtras /\ jobs.extras < MaxExtras
  BY DEF LocalInv, TypeOK, OneMore
<1>2. jobs.extras + 1 \in 0..MaxExtras
  BY <1>1, BoundsAssumption
<1> QED
  BY <1>2 DEF LocalInv, TypeOK, OneMore

\* A client that begins or waits is not in a turn and writes nothing.
LEMMA OpenOK ==
  ASSUME NEW q \in Procs, q.pc \in Acquiring, q.kind \in {"turn", "edit", "append", "touch"},
         q.kind = "touch" <=> q.leased, q.kind = "append" => q.next.rev > 0, ~ q.ok
  PROVE  ProcOK(q)
BY DEF ProcOK, Acquiring, Writing, SaveKinds, TurnKinds, Saving, InLoop

LEMMA BeginKeeps ==
  ASSUME LocalInv, NEW c \in Clients, Begin(c)
  PROVE  LocalInv'
<1> DEFINE job == jobs.turns + jobs.extras + 1
<1>0. proc[c] \in Procs /\ ProcOK(proc[c])
  BY DEF LocalInv, TypeOK
<1>1. CASE BeginTurn(c)
  <2> DEFINE q == [proc[c] EXCEPT !.pc = "open", !.kind = "turn", !.job = job]
  <2>1. job \in Jobs /\ Goto(c, q) /\ At(c, "idle")
    BY <1>1, JobTyped DEF BeginTurn, IsOpen
  <2>2. jobs' \in [turns : 0..MaxTurns, extras : 0..MaxExtras]
    <3>1. jobs.turns \in 0..MaxTurns /\ jobs.turns < MaxTurns
      BY <1>1 DEF LocalInv, TypeOK, BeginTurn
    <3>2. jobs.turns + 1 \in 0..MaxTurns
      BY <3>1, BoundsAssumption
    <3> QED
      BY <1>1, <3>2 DEF LocalInv, TypeOK, BeginTurn
  <2>3. ~ proc[c].leased /\ ~ proc[c].ok
    BY <1>0, <2>1 DEF ProcOK, At, Idle
  <2>4. q \in Procs /\ q.pc = "open" /\ q.kind = "turn" /\ ~ q.leased /\ ~ q.ok
    BY <1>0, <2>1, <2>3 DEF Procs, PCs, Kinds
  <2> HIDE DEF q
  <2>5. ProcOK(q)
    BY <2>4, OpenOK DEF Acquiring
  <2>6. WorldOK'
    BY <1>1, <2>2 DEF BeginTurn, LocalInv, TypeOK, WorldOK
  <2> QED
    BY <2>1, <2>5, <2>6, MoveKeeps
<1>2. CASE BeginEdit(c)
  <2> DEFINE q == [proc[c] EXCEPT !.pc = "open", !.kind = "edit", !.job = job]
  <2>1. job \in Jobs /\ Goto(c, q) /\ At(c, "idle")
    BY <1>2, JobTyped DEF BeginEdit, IsOpen, OneMore
  <2>3. ~ proc[c].leased /\ ~ proc[c].ok
    BY <1>0, <2>1 DEF ProcOK, At, Idle
  <2>4. q \in Procs /\ q.pc = "open" /\ q.kind = "edit" /\ ~ q.leased /\ ~ q.ok
    BY <1>0, <2>1, <2>3 DEF Procs, PCs, Kinds
  <2> HIDE DEF q
  <2>5. ProcOK(q)
    BY <2>4, OpenOK DEF Acquiring
  <2>6. WorldOK'
    BY <1>2, MoreTyped DEF BeginEdit, LocalInv, TypeOK, WorldOK
  <2> QED
    BY <2>1, <2>5, <2>6, MoveKeeps
<1>3. CASE BeginAppend(c)
  <2> DEFINE s == [proc[c].snap EXCEPT !.msgs = Append(@, job)]
             q == [proc[c] EXCEPT !.pc = "open", !.kind = "append", !.job = job, !.next = s]
  <2>1. job \in Jobs /\ Goto(c, q) /\ At(c, "idle") /\ proc[c].snap.rev > 0
    BY <1>3, JobTyped DEF BeginAppend, IsOpen, OneMore
  <2>2. proc[c].snap \in Sessions
    BY <1>0 DEF Procs
  <2>3. s \in Sessions /\ s.rev > 0
    BY <2>1, <2>2, ToSetAppend DEF Sessions
  <2> HIDE DEF s
  <2>4. ~ proc[c].leased /\ ~ proc[c].ok
    BY <1>0, <2>1 DEF ProcOK, At, Idle
  <2>5. q \in Procs /\ q.pc = "open" /\ q.kind = "append" /\ ~ q.leased /\ ~ q.ok /\ q.next = s
    BY <1>0, <2>1, <2>3, <2>4 DEF Procs, PCs, Kinds
  <2> HIDE DEF q
  <2>6. ProcOK(q)
    BY <2>3, <2>5, OpenOK DEF Acquiring
  <2>7. WorldOK'
    BY <1>3, MoreTyped DEF BeginAppend, LocalInv, TypeOK, WorldOK
  <2> QED
    BY <2>1, <2>6, <2>7, MoveKeeps
<1>4. CASE Delete(c)
  BY <1>4, MoreTyped, EmptyTyped DEF Delete, LocalInv, TypeOK, At
<1> QED
  BY <1>1, <1>2, <1>3, <1>4 DEF Begin

\* A client that waits for a lock goes on waiting.
LEMMA WaitOK ==
  ASSUME NEW p, ProcOK(p), p.pc \in Acquiring, NEW pc \in Acquiring
  PROVE  ProcOK([p EXCEPT !.pc = pc])
<1> DEFINE q == [p EXCEPT !.pc = pc]
<1>1. p \in Procs
  BY DEF ProcOK
<1>2. q \in Procs /\ q.pc = pc /\ q.kind = p.kind /\ q.job = p.job /\ q.snap = p.snap
      /\ q.conv = p.conv /\ q.next = p.next /\ q.ok = p.ok /\ q.leased = p.leased
  BY <1>1 DEF Procs, PCs, Acquiring
<1> HIDE DEF q
<1>3. ProcOK(q)
  BY <1>2 DEF ProcOK, Acquiring, Writing, SaveKinds, TurnKinds, Saving, InLoop
<1> QED
  BY <1>3 DEF q

\* What a client retries from is all right by itself.
LEMMA RetryMoves ==
  ASSUME LocalInv, NEW c \in Clients, proc[c].pc \in Acquiring, Retry(c)
  PROVE  \E p : ProcOK(p) /\ Goto(c, p)
<1>0. ProcOK(proc[c])
  BY DEF LocalInv
<1>1. CASE Goto(c, [proc[c] EXCEPT !.pc = "open"])
  BY <1>0, <1>1, WaitOK DEF Acquiring
<1>2. CASE Wanted(proc[c]) = "write" /\ Goto(c, Settled(proc[c], FALSE))
  <2>1. proc[c].kind \in SaveKinds \union {"touch", "edit"}
    BY <1>0, <1>2 DEF ProcOK, Procs, Kinds, Wanted, SaveKinds
  <2> QED
    BY <1>0, <1>2, <2>1, SettledOK
<1> QED
  BY <1>1, <1>2 DEF Retry

LEMMA LockFile ==
  ASSUME NEW p
  PROVE  Wanted(p) \in Locks
BY DEF Wanted, Locks

LEMMA AcquireKeeps ==
  ASSUME LocalInv, NEW c \in Clients, Open(c) \/ Stat(c) \/ RemoveStale(c) \/ AbortWait(c)
  PROVE  LocalInv'
<1> DEFINE f == Wanted(proc[c])
<1>0. proc[c] \in Procs /\ ProcOK(proc[c]) /\ f \in Locks
  BY LockFile DEF LocalInv, TypeOK
<1>1. CASE Open(c)
  <2>0. proc[c].pc = "open"
    BY <1>1 DEF Open, At
  <2>1. CASE lock[f].owner = Free
    <3> DEFINE pc == IF f = "turn" THEN "token" ELSE "check"
               q == [proc[c] EXCEPT !.pc = pc]
    <3>1. Goto(c, q) /\ lock' = [lock EXCEPT ![f] = [owner |-> c, stale |-> FALSE]]
      BY <1>1, <2>1 DEF Open
    <3>2. WorldOK'
      BY <1>0, <1>1, <3>1 DEF Open, LocalInv, TypeOK, WorldOK
    <3>3. pc = (IF proc[c].kind = "turn" THEN "token" ELSE "check")
      BY DEF Wanted
    <3> HIDE DEF pc
    <3>4. q \in Procs /\ q.pc = pc /\ q.kind = proc[c].kind /\ q.job = proc[c].job
          /\ q.snap = proc[c].snap /\ q.conv = proc[c].conv /\ q.next = proc[c].next
          /\ q.ok = proc[c].ok /\ q.leased = proc[c].leased
      BY <1>0, <3>3 DEF Procs, PCs
    <3> HIDE DEF q
    <3>5. proc[c].kind \in Kinds
      BY <1>0 DEF Procs
    <3>6. ProcOK(q)
      BY <1>0, <2>0, <3>3, <3>4, <3>5
      DEF ProcOK, Kinds, Acquiring, Writing, SaveKinds, TurnKinds, Saving, InLoop
    <3> QED
      BY <3>1, <3>2, <3>6, MoveKeeps
  <2>2. CASE lock[f].owner # Free
    <3>1. Goto(c, [proc[c] EXCEPT !.pc = "stat"])
      BY <1>1, <2>2 DEF Open
    <3>2. WorldOK'
      BY <1>1, <2>2 DEF Open, LocalInv, TypeOK, WorldOK
    <3> QED
      BY <1>0, <2>0, <3>1, <3>2, WaitOK, MoveKeeps DEF Acquiring
  <2> QED
    BY <2>1, <2>2
<1>2. CASE Stat(c)
  <2>0. proc[c].pc \in Acquiring /\ WorldOK'
    BY <1>2 DEF Stat, At, Acquiring, LocalInv, TypeOK, WorldOK
  <2>1. CASE Goto(c, [proc[c] EXCEPT !.pc = "rm"])
    BY <1>0, <2>0, <2>1, WaitOK, MoveKeeps DEF Acquiring
  <2>2. CASE Retry(c)
    BY <2>0, <2>2, RetryMoves, MoveKeeps
  <2> QED
    BY <1>2, <2>1, <2>2 DEF Stat
<1>3. CASE RemoveStale(c)
  <2>0. proc[c].pc \in Acquiring /\ RemoveLock(c, f) /\ Retry(c)
    BY <1>3 DEF RemoveStale, At, Acquiring
  <2>1. WorldOK'
    BY <1>0, <1>3, <2>0, RemoveTyped DEF RemoveStale, LocalInv, TypeOK, WorldOK
  <2> QED
    BY <2>0, <2>1, RetryMoves, MoveKeeps
<1>4. CASE AbortWait(c)
  <2>1. WorldOK' /\ Goto(c, Idle(proc[c].snap))
    BY <1>4 DEF AbortWait, LocalInv, TypeOK, WorldOK
  <2> QED
    BY <1>0, <2>1, IdleOK, MoveKeeps DEF Procs
<1> QED
  BY <1>1, <1>2, <1>3, <1>4

\* A turn between two of its writes.
LEMMA TurnOK ==
  ASSUME NEW q \in Procs, q.leased, q.kind = "none", ~ q.ok,
         \/ q.pc \in {"load", "release"}
         \/ q.pc \in {"reread", "run"} /\ q.snap.rev > 0 /\ q.job \in ToSet(q.conv)
  PROVE  ProcOK(q)
BY DEF ProcOK, Acquiring, Writing, SaveKinds, TurnKinds, Saving, InLoop

LEMMA TurnKeeps ==
  ASSUME LocalInv, NEW c \in Clients,
         WriteToken(c) \/ LoadSession(c) \/ Checkpoint(c) \/ NextBatch(c) \/ Finish(c)
         \/ FailTurn(c) \/ Release(c) \/ Unlink(c) \/ Crash(c)
  PROVE  LocalInv'
<1>0. proc[c] \in Procs /\ ProcOK(proc[c]) /\ file \in Sessions
  BY DEF LocalInv, TypeOK
<1>a. proc[c].snap \in Sessions /\ proc[c].conv \in Seq(Jobs) /\ proc[c].job \in Jobs
  BY <1>0 DEF Procs
<1>b. "turn" \in Locks /\ "write" \in Locks
  BY DEF Locks
<1>1. CASE WriteToken(c)
  <2>1. CASE RemoveLock(c, "turn") /\ Goto(c, Idle(proc[c].snap))
    <3>1. WorldOK'
      BY <1>b, <1>1, <2>1, RemoveTyped DEF WriteToken, LocalInv, TypeOK, WorldOK
    <3> QED
      BY <1>a, <2>1, <3>1, IdleOK, MoveKeeps
  <2>2. CASE Goto(c, [proc[c] EXCEPT !.pc = "load", !.kind = "none", !.leased = TRUE])
             /\ UNCHANGED <<lock, raced>>
    <3> DEFINE q == [proc[c] EXCEPT !.pc = "load", !.kind = "none", !.leased = TRUE]
    <3>1. WorldOK' /\ Goto(c, q) /\ proc[c].pc = "token"
      BY <1>1, <2>2 DEF WriteToken, At, LocalInv, TypeOK, WorldOK
    <3>2. q \in Procs /\ q.pc = "load" /\ q.kind = "none" /\ q.leased /\ q.ok = proc[c].ok
      BY <1>0 DEF Procs, PCs, Kinds
    <3>3. ~ proc[c].ok
      BY <1>0, <3>1 DEF ProcOK
    <3> HIDE DEF q
    <3> QED
      BY <3>1, <3>2, <3>3, TurnOK, MoveKeeps
  <2> QED
    BY <1>1, <2>1, <2>2 DEF WriteToken
<1>2. CASE LoadSession(c)
  <2>0. WorldOK' /\ proc[c].pc = "load"
    BY <1>2 DEF LoadSession, At, LocalInv, TypeOK, WorldOK
  <2>a. ~ proc[c].ok /\ proc[c].leased /\ proc[c].kind = "none"
    BY <1>0, <2>0 DEF ProcOK
  <2>1. CASE file.rev > 0
    <3> DEFINE conv == Append(file.msgs, proc[c].job)
               q == [proc[c] EXCEPT !.pc = "reread", !.snap = file, !.conv = conv]
    <3>1. Goto(c, q)
      BY <1>2, <2>1 DEF LoadSession
    <3>2. file.msgs \in Seq(Jobs)
      BY <1>0 DEF Sessions
    <3>3. conv \in Seq(Jobs) /\ proc[c].job \in ToSet(conv)
      BY <1>a, <3>2, ToSetAppend
    <3> HIDE DEF conv
    <3>4. q \in Procs /\ q.pc = "reread" /\ q.kind = proc[c].kind /\ q.leased = proc[c].leased
          /\ q.ok = proc[c].ok /\ q.snap = file /\ q.conv = conv /\ q.job = proc[c].job
      BY <1>0, <3>3 DEF Procs, PCs, Kinds
    <3> HIDE DEF q
    <3>5. ProcOK(q)
      BY <2>1, <2>a, <3>3, <3>4, TurnOK
    <3> QED
      BY <2>0, <3>1, <3>5, MoveKeeps
  <2>2. CASE file.rev = 0
    <3> DEFINE q == [proc[c] EXCEPT !.pc = "release"]
    <3>1. Goto(c, q)
      BY <1>2, <2>2 DEF LoadSession
    <3>2. q \in Procs /\ q.pc = "release" /\ q.kind = proc[c].kind /\ q.leased = proc[c].leased
          /\ q.ok = proc[c].ok
      BY <1>0 DEF Procs, PCs, Kinds
    <3> HIDE DEF q
    <3> QED
      BY <2>0, <2>a, <3>1, <3>2, TurnOK, MoveKeeps
  <2> QED
    BY <1>2, <2>1, <2>2 DEF LoadSession
<1>3. CASE Checkpoint(c)
  <2>0. WorldOK' /\ proc[c].pc = "reread"
    BY <1>3 DEF Checkpoint, At, LocalInv, TypeOK, WorldOK
  <2>a. ~ proc[c].ok /\ proc[c].leased /\ proc[c].kind = "none"
        /\ proc[c].snap.rev > 0 /\ proc[c].job \in ToSet(proc[c].conv)
    BY <1>0, <2>0 DEF ProcOK, InLoop
  <2>1. CASE file.rev > 0
    <3> DEFINE n == [file EXCEPT !.msgs = proc[c].conv]
               q == [proc[c] EXCEPT !.pc = "open", !.kind = "checkpoint", !.next = n]
    <3>1. Goto(c, q)
      BY <1>3, <2>1 DEF Checkpoint
    <3>2. n \in Sessions /\ n.rev > 0 /\ n.msgs = proc[c].conv
      BY <1>0, <1>a, <2>1 DEF Sessions
    <3> HIDE DEF n
    <3>3. q \in Procs /\ q.pc = "open" /\ q.kind = "checkpoint" /\ q.leased = proc[c].leased
          /\ q.ok = proc[c].ok /\ q.snap = proc[c].snap /\ q.conv = proc[c].conv
          /\ q.job = proc[c].job /\ q.next = n
      BY <1>0, <3>2 DEF Procs, PCs, Kinds
    <3> HIDE DEF q
    <3>4. ProcOK(q)
      BY <2>a, <3>2, <3>3
      DEF ProcOK, Acquiring, Writing, SaveKinds, TurnKinds, Saving, InLoop
    <3> QED
      BY <2>0, <3>1, <3>4, MoveKeeps
  <2>2. CASE file.rev = 0
    <3> DEFINE q == [proc[c] EXCEPT !.pc = "run"]
    <3>1. Goto(c, q)
      BY <1>3, <2>2 DEF Checkpoint
    <3>2. q \in Procs /\ q.pc = "run" /\ q.kind = proc[c].kind /\ q.leased = proc[c].leased
          /\ q.ok = proc[c].ok /\ q.snap = proc[c].snap /\ q.conv = proc[c].conv
          /\ q.job = proc[c].job
      BY <1>0 DEF Procs, PCs, Kinds
    <3> HIDE DEF q
    <3> QED
      BY <2>0, <2>a, <3>1, <3>2, TurnOK, MoveKeeps
  <2> QED
    BY <1>3, <2>1, <2>2 DEF Checkpoint
<1>4. CASE NextBatch(c)
  <2> DEFINE q == [proc[c] EXCEPT !.pc = "reread"]
  <2>1. WorldOK' /\ Goto(c, q) /\ proc[c].pc = "run"
    BY <1>4, MoreTyped DEF NextBatch, At, LocalInv, TypeOK, WorldOK
  <2>2. q \in Procs /\ q.pc = "reread" /\ q.kind = proc[c].kind /\ q.leased = proc[c].leased
        /\ q.ok = proc[c].ok /\ q.snap = proc[c].snap /\ q.conv = proc[c].conv
        /\ q.job = proc[c].job
    BY <1>0 DEF Procs, PCs, Kinds
  <2>3. ~ proc[c].ok /\ proc[c].leased /\ proc[c].kind = "none"
        /\ proc[c].snap.rev > 0 /\ proc[c].job \in ToSet(proc[c].conv)
    BY <1>0, <2>1 DEF ProcOK, InLoop
  <2> HIDE DEF q
  <2> QED
    BY <2>1, <2>2, <2>3, TurnOK, MoveKeeps
<1>5. CASE Finish(c)
  <2> DEFINE n == [proc[c].snap EXCEPT !.msgs = proc[c].conv]
             q == [proc[c] EXCEPT !.pc = "open", !.kind = "final", !.next = n]
  <2>1. WorldOK' /\ Goto(c, q) /\ proc[c].pc = "run"
    BY <1>5 DEF Finish, At, LocalInv, TypeOK, WorldOK
  <2>2. ~ proc[c].ok /\ proc[c].leased /\ proc[c].kind = "none"
        /\ proc[c].snap.rev > 0 /\ proc[c].job \in ToSet(proc[c].conv)
    BY <1>0, <2>1 DEF ProcOK, InLoop
  <2>3. n \in Sessions /\ n.rev > 0 /\ n.msgs = proc[c].conv
    BY <1>a, <2>2 DEF Sessions
  <2> HIDE DEF n
  <2>4. q \in Procs /\ q.pc = "open" /\ q.kind = "final" /\ q.leased = proc[c].leased
        /\ q.ok = proc[c].ok /\ q.snap = proc[c].snap /\ q.conv = proc[c].conv
        /\ q.job = proc[c].job /\ q.next = n
    BY <1>0, <2>3 DEF Procs, PCs, Kinds
  <2> HIDE DEF q
  <2>5. ProcOK(q)
    BY <2>2, <2>3, <2>4
    DEF ProcOK, Acquiring, Writing, SaveKinds, TurnKinds, Saving, InLoop
  <2> QED
    BY <2>1, <2>5, MoveKeeps
<1>6. CASE FailTurn(c)
  <2> DEFINE q == [proc[c] EXCEPT !.pc = "release"]
  <2>1. WorldOK' /\ Goto(c, q) /\ proc[c].pc = "run"
    BY <1>6 DEF FailTurn, At, LocalInv, TypeOK, WorldOK
  <2>2. q \in Procs /\ q.pc = "release" /\ q.kind = proc[c].kind /\ q.leased = proc[c].leased
        /\ q.ok = proc[c].ok
    BY <1>0 DEF Procs, PCs, Kinds
  <2>3. ~ proc[c].ok /\ proc[c].leased /\ proc[c].kind = "none"
    BY <1>0, <2>1 DEF ProcOK
  <2> HIDE DEF q
  <2> QED
    BY <2>1, <2>2, <2>3, TurnOK, MoveKeeps
<1>7. CASE Release(c)
  <2> DEFINE q == [proc[c] EXCEPT !.pc = "unlink", !.leased = FALSE]
  <2>1. WorldOK' /\ proc[c].pc = "release"
    BY <1>7 DEF Release, At, LocalInv, TypeOK, WorldOK
  <2>2. CASE Goto(c, q)
    <3>1. q \in Procs /\ q.pc = "unlink" /\ q.kind = proc[c].kind /\ ~ q.leased
          /\ q.ok = proc[c].ok
      BY <1>0 DEF Procs, PCs, Kinds
    <3>2. ~ proc[c].ok /\ proc[c].kind = "none"
      BY <1>0, <2>1 DEF ProcOK
    <3> HIDE DEF q
    <3>3. ProcOK(q)
      BY <3>1, <3>2 DEF ProcOK, Acquiring, Writing, SaveKinds, TurnKinds, Saving, InLoop
    <3> QED
      BY <2>1, <2>2, <3>3, MoveKeeps
  <2>3. CASE Goto(c, Idle(proc[c].snap))
    BY <1>a, <2>1, <2>3, IdleOK, MoveKeeps
  <2> QED
    BY <1>7, <2>2, <2>3 DEF Release
<1>8. CASE Unlink(c)
  <2>1. WorldOK' /\ Goto(c, Idle(proc[c].snap))
    BY <1>b, <1>8, RemoveTyped DEF Unlink, LocalInv, TypeOK, WorldOK
  <2> QED
    BY <1>a, <2>1, IdleOK, MoveKeeps
<1>9. CASE Crash(c)
  <2>1. lock' \in [Locks -> [owner : Clients \union {Dead, Free}, stale : BOOLEAN]]
    <3>1. \A f \in Locks : lock[f] \in [owner : Clients \union {Dead, Free}, stale : BOOLEAN]
      BY DEF LocalInv, TypeOK
    <3> QED
      BY <1>9, <3>1 DEF Crash
  <2>2. crashes' \in 0..MaxCrashes
    <3>1. crashes \in 0..MaxCrashes /\ crashes < MaxCrashes /\ crashes' = crashes + 1
      BY <1>9 DEF Crash, LocalInv, TypeOK
    <3> QED
      BY <3>1, BoundsAssumption
  <2>3. WorldOK' /\ Goto(c, Idle(file))
    BY <1>9, <2>1, <2>2 DEF Crash, LocalInv, TypeOK, WorldOK
  <2> QED
    BY <1>0, <2>3, IdleOK, MoveKeeps
<1> QED
  BY <1>1, <1>2, <1>3, <1>4, <1>5, <1>6, <1>7, <1>8, <1>9

\* What a write stores is a version newer than the file it was compared with.
LEMMA UpdateTyped ==
  ASSUME LocalInv, NEW p \in Procs
  PROVE  /\ Update(p) \in Sessions
         /\ Update(p).rev = file.rev + 1
         /\ p.kind = "edit" => Update(p).edits = file.edits \union {p.job} /\ Update(p).msgs = file.msgs
         /\ p.kind = "touch" => Update(p).edits = file.edits /\ Update(p).msgs = file.msgs
         /\ p.kind \in SaveKinds => Update(p).edits = p.next.edits /\ Update(p).msgs = p.next.msgs
<1>0. file \in Sessions /\ p.next \in Sessions /\ p.job \in Jobs /\ file.rev + 1 \in Nat
  BY DEF LocalInv, TypeOK, Procs, Sessions
<1>1. CASE p.kind = "edit"
  <2>1. Update(p) = [[file EXCEPT !.edits = @ \union {p.job}] EXCEPT !.rev = file.rev + 1]
    BY <1>1 DEF Update
  <2> DEFINE e == file.edits \union {p.job}
  <2>2. e \in SUBSET Jobs
    BY <1>0 DEF Sessions
  <2>3. Update(p) = [[file EXCEPT !.edits = e] EXCEPT !.rev = file.rev + 1]
    BY <1>0, <2>1 DEF Sessions
  <2> HIDE DEF e
  <2>4. Update(p) \in Sessions /\ Update(p).rev = file.rev + 1 /\ Update(p).edits = e
        /\ Update(p).msgs = file.msgs
    BY <1>0, <2>2, <2>3 DEF Sessions
  <2> QED
    BY <1>1, <2>4 DEF SaveKinds, e
<1>2. CASE p.kind = "touch"
  <2>1. Update(p) = [file EXCEPT !.rev = file.rev + 1]
    BY <1>2 DEF Update
  <2> QED
    BY <1>0, <1>2, <2>1 DEF Sessions, SaveKinds
<1>3. CASE p.kind \notin {"edit", "touch"}
  <2>1. Update(p) = [p.next EXCEPT !.rev = file.rev + 1]
    BY <1>3 DEF Update
  <2> QED
    BY <1>0, <1>3, <2>1 DEF Sessions, SaveKinds
<1> QED
  BY <1>1, <1>2, <1>3

LEMMA WriteKeeps ==
  ASSUME LocalInv, NEW c \in Clients, Check(c) \/ Write(c) \/ Unlock(c)
  PROVE  LocalInv'
<1>0. proc[c] \in Procs /\ ProcOK(proc[c]) /\ file \in Sessions
  BY DEF LocalInv, TypeOK
<1>a. proc[c].next \in Sessions /\ file.rev \in Nat
  BY <1>0 DEF Procs, Sessions
<1>b. proc[c].pc \in Writing => proc[c].kind \in SaveKinds \union {"touch", "edit"}
  BY <1>0 DEF ProcOK
<1>1. CASE Check(c)
  <2>0. WorldOK' /\ proc[c].pc = "check"
    BY <1>1 DEF Check, At, LocalInv, TypeOK, WorldOK
  <2>a. ~ proc[c].ok
    BY <1>0, <2>0 DEF ProcOK
  <2>1. CASE Goto(c, [proc[c] EXCEPT !.pc = "write", !.next = Update(proc[c])])
    <3> DEFINE n == Update(proc[c])
               q == [proc[c] EXCEPT !.pc = "write", !.next = n]
    <3>1. n \in Sessions /\ n.rev > 0
      BY <1>0, <1>a, UpdateTyped
    <3>2. Goto(c, q)
      BY <2>1
    <3> HIDE DEF n
    <3>3. q \in Procs /\ q.pc = "write" /\ q.kind = proc[c].kind /\ q.leased = proc[c].leased
          /\ q.ok = proc[c].ok /\ q.snap = proc[c].snap /\ q.conv = proc[c].conv
          /\ q.job = proc[c].job /\ q.next = n
      BY <1>0, <3>1 DEF Procs, PCs, Kinds
    <3> HIDE DEF q
    <3>4. ProcOK(q)
      BY <1>0, <1>b, <2>0, <2>a, <3>1, <3>3
      DEF ProcOK, Acquiring, Writing, SaveKinds, TurnKinds, Saving, InLoop
    <3> QED
      BY <2>0, <3>2, <3>4, MoveKeeps
  <2>2. CASE Goto(c, [proc[c] EXCEPT !.pc = "unlock"])
    <3> DEFINE q == [proc[c] EXCEPT !.pc = "unlock"]
    <3>1. q \in Procs /\ q.pc = "unlock" /\ q.kind = proc[c].kind /\ q.leased = proc[c].leased
          /\ q.ok = proc[c].ok /\ q.snap = proc[c].snap /\ q.conv = proc[c].conv
          /\ q.job = proc[c].job /\ q.next = proc[c].next
      BY <1>0 DEF Procs, PCs, Kinds
    <3>2. Goto(c, q)
      BY <2>2
    <3> HIDE DEF q
    <3>3. ProcOK(q)
      BY <1>0, <1>b, <2>0, <2>a, <3>1
      DEF ProcOK, Acquiring, Writing, SaveKinds, TurnKinds, Saving, InLoop
    <3> QED
      BY <2>0, <3>2, <3>3, MoveKeeps
  <2> QED
    BY <1>1, <2>1, <2>2 DEF Check
<1>2. CASE Write(c)
  <2>0. WorldOK' /\ proc[c].pc = "write"
    BY <1>a, <1>2 DEF Write, At, LocalInv, TypeOK, WorldOK
  <2>1. ASSUME NEW ok \in BOOLEAN, NEW q, q = [proc[c] EXCEPT !.pc = "unlock", !.ok = ok]
        PROVE  ProcOK(q)
    <3>1. q \in Procs /\ q.pc = "unlock" /\ q.kind = proc[c].kind /\ q.leased = proc[c].leased
          /\ q.ok = ok /\ q.snap = proc[c].snap /\ q.conv = proc[c].conv
          /\ q.job = proc[c].job /\ q.next = proc[c].next
      BY <1>0, <2>1 DEF Procs, PCs, Kinds
    <3> QED
      BY <1>0, <1>b, <2>0, <3>1
      DEF ProcOK, Acquiring, Writing, SaveKinds, TurnKinds, Saving, InLoop
  <2>2. ~ proc[c].ok
    BY <1>0, <2>0 DEF ProcOK
  <2>3. [proc[c] EXCEPT !.pc = "unlock"] = [proc[c] EXCEPT !.pc = "unlock", !.ok = FALSE]
    BY <1>0, <2>2 DEF Procs
  <2> QED
    BY <1>2, <2>0, <2>1, <2>3, MoveKeeps DEF Write
<1>3. CASE Unlock(c)
  <2>1. proc[c].pc = "unlock" /\ RemoveLock(c, "write") /\ Goto(c, Settled(proc[c], proc[c].ok))
    BY <1>3 DEF Unlock, At
  <2>2. acked' \subseteq Jobs
    BY <1>0, <1>3 DEF Unlock, LocalInv, TypeOK, Procs
  <2>3. "write" \in Locks
    BY DEF Locks
  <2>4. WorldOK'
    BY <1>3, <2>1, <2>2, <2>3, RemoveTyped DEF Unlock, LocalInv, TypeOK, WorldOK
  <2>5. proc[c].ok \in BOOLEAN
    BY <1>0 DEF Procs
  <2>6. proc[c].ok => proc[c].next.rev > 0
    BY <1>0 DEF ProcOK
  <2>7. ProcOK(Settled(proc[c], proc[c].ok))
    BY <1>0, <1>b, <2>1, <2>5, <2>6, SettledOK DEF Writing
  <2> QED
    BY <2>1, <2>4, <2>7, MoveKeeps
<1> QED
  BY <1>1, <1>2, <1>3

LEMMA LocalInit == Init => LocalInv
<1> SUFFICES ASSUME Init PROVE LocalInv
  OBVIOUS
<1>1. file \in Sessions
  BY EmptyTyped DEF Init, Missing, Sessions
<1>2. \A c \in Clients : proc[c] = Idle(file) /\ ProcOK(proc[c])
  BY <1>1, IdleOK DEF Init
<1>3. proc \in [Clients -> Procs]
  BY <1>1, IdleOK DEF Init, ProcOK
<1>4. 0 \in 0..MaxTurns /\ 0 \in 0..MaxExtras /\ 0 \in 0..MaxCrashes
  BY BoundsAssumption
<1>5. \A c \in Clients : At(c, "idle") => proc[c] = Idle(proc[c].snap)
  BY <1>2 DEF ProcOK, At
<1>6. lock \in [Locks -> [owner : Clients \union {Dead, Free}, stale : BOOLEAN]]
  BY DEF Init, NoLock
<1>7. jobs \in [turns : 0..MaxTurns, extras : 0..MaxExtras]
  BY <1>4 DEF Init
<1>8. crashes \in 0..MaxCrashes /\ acked \subseteq Jobs /\ raced \in BOOLEAN
  BY <1>4 DEF Init
<1> QED
  BY <1>1, <1>2, <1>3, <1>5, <1>6, <1>7, <1>8 DEF LocalInv, TypeOK

LEMMA LocalStep == LocalInv /\ [Next]_vars => LocalInv'
<1> SUFFICES ASSUME LocalInv, [Next]_vars PROVE LocalInv'
  OBVIOUS
<1>1. ASSUME NEW c \in Clients, Begin(c) \/ ClientStep(c) \/ AbortWait(c) \/ Crash(c)
      PROVE  LocalInv'
  BY <1>1, BeginKeeps, AcquireKeeps, TurnKeeps, WriteKeeps DEF ClientStep
<1>2. ASSUME NEW f \in Locks, GoesStale(f) PROVE LocalInv'
  <2>1. /\ UNCHANGED <<file, proc, jobs, crashes, acked, raced>>
        /\ lock' = [lock EXCEPT ![f].stale = TRUE]
    BY <1>2 DEF GoesStale
  <2>2. lock' \in [Locks -> [owner : Clients \union {Dead, Free}, stale : BOOLEAN]]
    BY <2>1 DEF LocalInv, TypeOK
  <2>3. TypeOK'
    BY <2>1, <2>2 DEF LocalInv, TypeOK, At
  <2> QED
    BY <2>1, <2>3 DEF LocalInv
<1>3. CASE SlowWrite
  <2>1. /\ UNCHANGED <<file, proc, jobs, crashes, acked>> /\ raced' = TRUE
        /\ lock' = [lock EXCEPT !["write"].stale = TRUE]
    BY <1>3 DEF SlowWrite
  <2>2. lock' \in [Locks -> [owner : Clients \union {Dead, Free}, stale : BOOLEAN]]
    BY <2>1 DEF LocalInv, TypeOK
  <2>3. TypeOK'
    BY <2>1, <2>2 DEF LocalInv, TypeOK, At
  <2> QED
    BY <2>1, <2>3 DEF LocalInv
<1>4. CASE UNCHANGED vars
  BY <1>4 DEF vars, LocalInv, TypeOK, At
<1> QED
  BY <1>1, <1>2, <1>3, <1>4 DEF Next

\* The state of a client always fits what it is doing, whatever fails and
\* whoever dies: nobody at rest holds a lease or an unfinished write.
THEOREM TypeCorrect == Spec => []TypeOK
<1>1. LocalInv => TypeOK
  BY DEF LocalInv
<1> QED
  BY <1>1, LocalInit, LocalStep, PTL DEF Spec

-----------------------------------------------------------------------------
HoldsTurn(p) == p.pc \in {"token", "unlink"} \/ p.leased
HoldsWrite(p) == p.pc \in Writing

\* A lock file belongs to the client that relies on it, and is touched in time.
LockInv ==
    /\ lock["turn"].stale => lock["turn"].owner = Dead
    /\ raced \/ (lock["write"].stale => lock["write"].owner = Dead)
    /\ raced \/ \A c \in Clients :
          /\ HoldsTurn(proc[c]) => lock["turn"].owner = c
          /\ HoldsWrite(proc[c]) => lock["write"].owner = c

\* The client moves without holding more than it did.
NoMoreHeld(c, q) ==
    /\ HoldsTurn(q) => HoldsTurn(proc[c])
    /\ HoldsWrite(q) => HoldsWrite(proc[c])

LEMMA IdleHolds == \A s : ~ HoldsTurn(Idle(s)) /\ ~ HoldsWrite(Idle(s))
BY DEF Idle, HoldsTurn, HoldsWrite, Writing

LEMMA Moved ==
  ASSUME LocalInv, NEW c \in Clients, NEW q, Goto(c, q)
  PROVE  \A d \in Clients : proc'[d] = IF d = c THEN q ELSE proc[d]
BY DEF LocalInv, TypeOK, Goto

LEMMA StillHeld ==
  ASSUME LocalInv, LockInv, NEW c \in Clients, NEW q, Goto(c, q), NoMoreHeld(c, q),
         UNCHANGED <<lock, raced>>
  PROVE  LockInv'
BY Moved DEF LockInv, NoMoreHeld, HoldsTurn, HoldsWrite

\* A client that removes a lock file removes its own, an abandoned one, or races.
LEMMA RemovedHeld ==
  ASSUME LocalInv, LockInv, NEW c \in Clients, NEW q, Goto(c, q), NoMoreHeld(c, q),
         NEW f \in Locks, RemoveLock(c, f),
         f = "turn" => ~ HoldsTurn(q), f = "write" => ~ HoldsWrite(q)
  PROVE  LockInv'
<1>1. lock \in [Locks -> [owner : Clients \union {Dead, Free}, stale : BOOLEAN]]
  BY DEF LocalInv, TypeOK
<1>2. \A g \in Locks : lock'[g] = IF g = f THEN NoLock ELSE lock[g]
  BY <1>1 DEF RemoveLock
<1>3. ~ NoLock.stale
  BY DEF NoLock
<1>4. raced => raced'
  BY DEF RemoveLock
<1>5. "turn" \in Locks /\ "write" \in Locks /\ (f = "turn" \/ f = "write")
  BY DEF Locks
<1>6. ASSUME ~ raced' PROVE ~ raced /\ (lock[f].owner \in Clients \ {c} => lock[f].stale)
  BY <1>1, <1>6 DEF RemoveLock
<1>7. ASSUME ~ raced', NEW d \in Clients \ {c} PROVE lock[f].owner # d
  BY <1>5, <1>6, <1>7, OwnersAssumption DEF LockInv
<1>8. lock'["turn"].stale => lock'["turn"].owner = Dead
  BY <1>2, <1>3, <1>5 DEF LockInv
<1>9. raced' \/ (lock'["write"].stale => lock'["write"].owner = Dead)
  BY <1>2, <1>3, <1>4, <1>5 DEF LockInv
<1>10. ASSUME ~ raced', NEW d \in Clients
       PROVE  /\ HoldsTurn(proc'[d]) => lock'["turn"].owner = d
              /\ HoldsWrite(proc'[d]) => lock'["write"].owner = d
  <2>1. /\ HoldsTurn(proc[d]) => lock["turn"].owner = d
        /\ HoldsWrite(proc[d]) => lock["write"].owner = d
    BY <1>6, <1>10 DEF LockInv
  <2>2. CASE d = c
    BY <1>2, <1>5, <2>1, <2>2, Moved DEF NoMoreHeld
  <2>3. CASE d # c
    <3>1. proc'[d] = proc[d] /\ lock[f].owner # d
      BY <1>7, <1>10, <2>3, Moved
    <3> QED
      BY <1>2, <1>5, <2>1, <3>1
  <2> QED
    BY <2>2, <2>3
<1> QED
  BY <1>8, <1>9, <1>10 DEF LockInv, HoldsTurn, HoldsWrite

\* A client whose write has settled holds no lock for it, and no other lease.
LEMMA SettledHolds ==
  ASSUME NEW p, ProcOK(p), NEW ok \in BOOLEAN
  PROVE  /\ Settled(p, ok).pc \in {"idle", "run", "open", "release"}
         /\ Settled(p, ok).leased => p.leased
<1> DEFINE q == [p EXCEPT !.snap = IF ok THEN p.next ELSE @, !.next = Missing, !.ok = FALSE]
<1>1. q \in Procs /\ q.leased = p.leased
  BY EmptyTyped DEF ProcOK, Procs
<1> HIDE DEF q
<1>2. CASE p.kind = "checkpoint"
  <2>1. Settled(p, ok) = [q EXCEPT !.pc = "run", !.kind = "none"]
    BY <1>2 DEF Settled, q
  <2> QED
    BY <1>1, <2>1 DEF Procs
<1>3. CASE p.kind = "final" /\ ok
  <2>1. Settled(p, ok) = [q EXCEPT !.pc = "open", !.kind = "touch"]
    BY <1>3 DEF Settled, q
  <2> QED
    BY <1>1, <2>1 DEF Procs
<1>4. CASE (p.kind = "final" /\ ~ ok) \/ p.kind = "touch"
  <2>1. Settled(p, ok) = [q EXCEPT !.pc = "release", !.kind = "none"]
    BY <1>4 DEF Settled, q
  <2> QED
    BY <1>1, <2>1 DEF Procs
<1>5. CASE p.kind \notin {"checkpoint", "final", "touch"}
  <2>1. Settled(p, ok) = Idle(q.snap)
    BY <1>5 DEF Settled, q
  <2> QED
    BY <2>1 DEF Idle
<1> QED
  BY <1>2, <1>3, <1>4, <1>5

LEMMA RetryHolds ==
  ASSUME LocalInv, NEW c \in Clients, proc[c].pc \in Acquiring, Retry(c)
  PROVE  \E q : /\ Goto(c, q) /\ NoMoreHeld(c, q) /\ ~ HoldsWrite(q)
                /\ proc[c].kind = "turn" => ~ HoldsTurn(q)
<1>0. proc[c] \in Procs /\ ProcOK(proc[c])
  BY DEF LocalInv, TypeOK
<1>1. CASE Goto(c, [proc[c] EXCEPT !.pc = "open"])
  <2> DEFINE q == [proc[c] EXCEPT !.pc = "open"]
  <2>1. q.pc = "open" /\ q.leased = proc[c].leased /\ Goto(c, q)
    BY <1>0, <1>1 DEF Procs
  <2> HIDE DEF q
  <2>2. proc[c].kind = "turn" => ~ proc[c].leased
    BY <1>0 DEF ProcOK
  <2>3. NoMoreHeld(c, q) /\ ~ HoldsWrite(q) /\ (proc[c].kind = "turn" => ~ HoldsTurn(q))
    BY <2>1, <2>2 DEF NoMoreHeld, HoldsTurn, HoldsWrite, Writing
  <2> QED
    BY <2>1, <2>3
<1>2. CASE Wanted(proc[c]) = "write" /\ Goto(c, Settled(proc[c], FALSE))
  <2> DEFINE q == Settled(proc[c], FALSE)
  <2>1. q.pc \in {"idle", "run", "open", "release"} /\ (q.leased => proc[c].leased)
    BY <1>0, SettledHolds
  <2>2. Goto(c, q) /\ proc[c].kind # "turn"
    BY <1>2 DEF Wanted
  <2> HIDE DEF q
  <2>3. NoMoreHeld(c, q) /\ ~ HoldsWrite(q)
    BY <2>1 DEF NoMoreHeld, HoldsTurn, HoldsWrite, Writing
  <2> QED
    BY <2>2, <2>3
<1> QED
  BY <1>1, <1>2 DEF Retry

LEMMA BeginHolds ==
  ASSUME LocalInv, LockInv, NEW c \in Clients, Begin(c)
  PROVE  LockInv'
<1>0. proc[c] \in Procs
  BY DEF LocalInv, TypeOK
<1>1. CASE BeginTurn(c)
  <2> DEFINE q == [proc[c] EXCEPT !.pc = "open", !.kind = "turn",
                      !.job = jobs.turns + jobs.extras + 1]
  <2>1. q.pc = "open" /\ q.leased = proc[c].leased
    BY <1>0 DEF Procs
  <2>2. Goto(c, q) /\ UNCHANGED <<lock, raced>>
    BY <1>1 DEF BeginTurn
  <2> HIDE DEF q
  <2> QED
    BY <2>1, <2>2, StillHeld DEF NoMoreHeld, HoldsTurn, HoldsWrite, Writing
<1>2. CASE BeginEdit(c)
  <2> DEFINE q == [proc[c] EXCEPT !.pc = "open", !.kind = "edit",
                      !.job = jobs.turns + jobs.extras + 1]
  <2>1. q.pc = "open" /\ q.leased = proc[c].leased
    BY <1>0 DEF Procs
  <2>2. Goto(c, q) /\ UNCHANGED <<lock, raced>>
    BY <1>2 DEF BeginEdit
  <2> HIDE DEF q
  <2> QED
    BY <2>1, <2>2, StillHeld DEF NoMoreHeld, HoldsTurn, HoldsWrite, Writing
<1>3. CASE BeginAppend(c)
  <2> DEFINE job == jobs.turns + jobs.extras + 1
             s == [proc[c].snap EXCEPT !.msgs = Append(@, job)]
             q == [proc[c] EXCEPT !.pc = "open", !.kind = "append", !.job = job, !.next = s]
  <2>1. q.pc = "open" /\ q.leased = proc[c].leased
    BY <1>0 DEF Procs
  <2>2. Goto(c, q) /\ UNCHANGED <<lock, raced>>
    BY <1>3 DEF BeginAppend
  <2> HIDE DEF q
  <2> QED
    BY <2>1, <2>2, StillHeld DEF NoMoreHeld, HoldsTurn, HoldsWrite, Writing
<1>4. CASE Delete(c)
  BY <1>4 DEF Delete, LockInv, HoldsTurn, HoldsWrite
<1> QED
  BY <1>1, <1>2, <1>3, <1>4 DEF Begin

LEMMA AcquireHolds ==
  ASSUME LocalInv, LockInv, NEW c \in Clients,
         Open(c) \/ Stat(c) \/ RemoveStale(c) \/ AbortWait(c)
  PROVE  LockInv'
<1> DEFINE f == Wanted(proc[c])
<1>0. proc[c] \in Procs /\ ProcOK(proc[c]) /\ f \in Locks
      /\ lock \in [Locks -> [owner : Clients \union {Dead, Free}, stale : BOOLEAN]]
  BY LockFile DEF LocalInv, TypeOK
<1>a. f = (IF proc[c].kind = "turn" THEN "turn" ELSE "write")
  BY DEF Wanted
<1>1. CASE Open(c) /\ lock[f].owner = Free
  <2> DEFINE pc == IF f = "turn" THEN "token" ELSE "check"
             q == [proc[c] EXCEPT !.pc = pc]
             new == [owner |-> c, stale |-> FALSE]
  <2>1. Goto(c, q) /\ lock' = [lock EXCEPT ![f] = new] /\ raced' = raced
    BY <1>1 DEF Open
  <2>2. q.pc = pc /\ q.leased = proc[c].leased
    BY <1>0 DEF Procs
  <2>3. new.owner = c /\ ~ new.stale
    OBVIOUS
  <2> HIDE DEF q, new, f
  <2>4. \A g \in Locks : lock'[g] = IF g = f THEN new ELSE lock[g]
    BY <1>0, <2>1
  <2>5. "turn" \in Locks /\ "write" \in Locks /\ (f = "turn" \/ f = "write")
    BY <1>0 DEF Locks
  <2>6. proc[c].kind = "turn" => ~ proc[c].leased
    BY <1>0 DEF ProcOK
  <2>7. ASSUME ~ raced, NEW d \in Clients
        PROVE  /\ HoldsTurn(proc'[d]) => lock'["turn"].owner = d
               /\ HoldsWrite(proc'[d]) => lock'["write"].owner = d
    <3>1. /\ HoldsTurn(proc[d]) => lock["turn"].owner = d
          /\ HoldsWrite(proc[d]) => lock["write"].owner = d
      BY <2>7 DEF LockInv
    <3>2. CASE d = c
      <4>1. proc'[d] = q
        BY <2>1, <3>2, Moved
      <4>2. CASE f = "turn"
        BY <2>2, <2>3, <2>4, <2>5, <3>2, <4>1, <4>2 DEF HoldsWrite, Writing
      <4>3. CASE f = "write"
        <5>1. HoldsTurn(q) => HoldsTurn(proc[c])
          BY <2>2, <4>3 DEF HoldsTurn
        <5> QED
          BY <2>3, <2>4, <2>5, <3>1, <3>2, <4>1, <4>3, <5>1
      <4> QED
        BY <2>5, <4>2, <4>3
    <3>3. CASE d # c
      <4>1. proc'[d] = proc[d]
        BY <2>1, <3>3, Moved
      <4> QED
        BY <1>1, <2>4, <2>5, <3>1, <4>1, OwnersAssumption DEF f
    <3> QED
      BY <3>2, <3>3
  <2>8. lock'["turn"].stale => lock'["turn"].owner = Dead
    BY <2>3, <2>4, <2>5 DEF LockInv
  <2>9. raced \/ (lock'["write"].stale => lock'["write"].owner = Dead)
    BY <2>3, <2>4, <2>5 DEF LockInv
  <2> QED
    BY <2>1, <2>7, <2>8, <2>9 DEF LockInv, HoldsTurn, HoldsWrite
<1>2. CASE Open(c) /\ lock[f].owner # Free
  <2> DEFINE q == [proc[c] EXCEPT !.pc = "stat"]
  <2>1. q.pc = "stat" /\ q.leased = proc[c].leased
    BY <1>0 DEF Procs
  <2>2. Goto(c, q) /\ UNCHANGED <<lock, raced>>
    BY <1>2 DEF Open
  <2> HIDE DEF q
  <2> QED
    BY <2>1, <2>2, StillHeld DEF NoMoreHeld, HoldsTurn, HoldsWrite, Writing
<1>3. CASE Stat(c)
  <2>0. proc[c].pc \in Acquiring /\ UNCHANGED <<lock, raced>>
    BY <1>3 DEF Stat, At, Acquiring
  <2>1. CASE Goto(c, [proc[c] EXCEPT !.pc = "rm"])
    <3> DEFINE q == [proc[c] EXCEPT !.pc = "rm"]
    <3>1. q.pc = "rm" /\ q.leased = proc[c].leased /\ Goto(c, q)
      BY <1>0, <2>1 DEF Procs
    <3> HIDE DEF q
    <3> QED
      BY <2>0, <3>1, StillHeld DEF NoMoreHeld, HoldsTurn, HoldsWrite, Writing
  <2>2. CASE Retry(c)
    BY <2>0, <2>2, RetryHolds, StillHeld
  <2> QED
    BY <1>3, <2>1, <2>2 DEF Stat
<1>4. CASE RemoveStale(c)
  <2>1. proc[c].pc \in Acquiring /\ RemoveLock(c, f) /\ Retry(c)
    BY <1>4 DEF RemoveStale, At, Acquiring
  <2>2. PICK q : /\ Goto(c, q) /\ NoMoreHeld(c, q) /\ ~ HoldsWrite(q)
                 /\ proc[c].kind = "turn" => ~ HoldsTurn(q)
    BY <2>1, RetryHolds
  <2> QED
    BY <1>0, <1>a, <2>1, <2>2, RemovedHeld
<1>5. CASE AbortWait(c)
  <2>1. Goto(c, Idle(proc[c].snap)) /\ UNCHANGED <<lock, raced>>
    BY <1>5 DEF AbortWait
  <2> QED
    BY <2>1, IdleHolds, StillHeld DEF NoMoreHeld
<1> QED
  BY <1>1, <1>2, <1>3, <1>4, <1>5

LEMMA TurnHolds ==
  ASSUME LocalInv, LockInv, NEW c \in Clients,
         WriteToken(c) \/ LoadSession(c) \/ Checkpoint(c) \/ NextBatch(c) \/ Finish(c)
         \/ FailTurn(c) \/ Release(c) \/ Unlink(c)
  PROVE  LockInv'
<1>0. proc[c] \in Procs /\ "turn" \in Locks
  BY DEF LocalInv, TypeOK, Locks
<1>i. ASSUME NEW s, Goto(c, Idle(s)), UNCHANGED <<lock, raced>> PROVE LockInv'
  BY <1>i, IdleHolds, StillHeld DEF NoMoreHeld
<1>j. ASSUME NEW s, Goto(c, Idle(s)), RemoveLock(c, "turn") PROVE LockInv'
  BY <1>0, <1>j, IdleHolds, RemovedHeld DEF NoMoreHeld
<1>k. ASSUME NEW q, Goto(c, q), UNCHANGED <<lock, raced>>,
             q.pc \notin Writing, HoldsTurn(q) => HoldsTurn(proc[c])
      PROVE  LockInv'
  BY <1>k, StillHeld DEF NoMoreHeld, HoldsWrite
<1>1. CASE WriteToken(c)
  <2> DEFINE q == [proc[c] EXCEPT !.pc = "load", !.kind = "none", !.leased = TRUE]
  <2>1. q.pc = "load" /\ proc[c].pc = "token"
    BY <1>0, <1>1 DEF Procs, WriteToken, At
  <2>2. q.pc \notin Writing /\ HoldsTurn(proc[c])
    BY <2>1 DEF Writing, HoldsTurn
  <2>3. CASE Goto(c, q) /\ UNCHANGED <<lock, raced>>
    <3> HIDE DEF q
    <3> QED
      BY <1>k, <2>2, <2>3
  <2> QED
    BY <1>1, <1>j, <2>3 DEF WriteToken
<1>2. CASE LoadSession(c)
  <2> DEFINE q == [proc[c] EXCEPT !.pc = "reread", !.snap = file,
                      !.conv = Append(file.msgs, proc[c].job)]
             r == [proc[c] EXCEPT !.pc = "release"]
  <2>1. q.pc = "reread" /\ q.leased = proc[c].leased /\ r.pc = "release" /\ r.leased = proc[c].leased
    BY <1>0 DEF Procs
  <2>2. (Goto(c, q) \/ Goto(c, r)) /\ UNCHANGED <<lock, raced>>
    BY <1>2 DEF LoadSession
  <2> HIDE DEF q, r
  <2> QED
    BY <1>k, <2>1, <2>2 DEF HoldsTurn, Writing
<1>3. CASE Checkpoint(c)
  <2> DEFINE n == [file EXCEPT !.msgs = proc[c].conv]
             q == [proc[c] EXCEPT !.pc = "open", !.kind = "checkpoint", !.next = n]
             r == [proc[c] EXCEPT !.pc = "run"]
  <2>1. q.pc = "open" /\ q.leased = proc[c].leased /\ r.pc = "run" /\ r.leased = proc[c].leased
    BY <1>0 DEF Procs
  <2>2. (Goto(c, q) \/ Goto(c, r)) /\ UNCHANGED <<lock, raced>>
    BY <1>3 DEF Checkpoint
  <2> HIDE DEF q, r
  <2> QED
    BY <1>k, <2>1, <2>2 DEF HoldsTurn, Writing
<1>4. CASE NextBatch(c) \/ FailTurn(c)
  <2> DEFINE q == [proc[c] EXCEPT !.pc = "reread"]
             r == [proc[c] EXCEPT !.pc = "release"]
  <2>1. q.pc = "reread" /\ q.leased = proc[c].leased /\ r.pc = "release" /\ r.leased = proc[c].leased
    BY <1>0 DEF Procs
  <2>2. (Goto(c, q) \/ Goto(c, r)) /\ UNCHANGED <<lock, raced>>
    BY <1>4 DEF NextBatch, FailTurn
  <2> HIDE DEF q, r
  <2> QED
    BY <1>k, <2>1, <2>2 DEF HoldsTurn, Writing
<1>5. CASE Finish(c)
  <2> DEFINE n == [proc[c].snap EXCEPT !.msgs = proc[c].conv]
             q == [proc[c] EXCEPT !.pc = "open", !.kind = "final", !.next = n]
  <2>1. q.pc = "open" /\ q.leased = proc[c].leased
    BY <1>0 DEF Procs
  <2>2. Goto(c, q) /\ UNCHANGED <<lock, raced>>
    BY <1>5 DEF Finish
  <2> HIDE DEF q
  <2> QED
    BY <1>k, <2>1, <2>2 DEF HoldsTurn, Writing
<1>6. CASE Release(c)
  <2> DEFINE q == [proc[c] EXCEPT !.pc = "unlink", !.leased = FALSE]
  <2>1. q.pc = "unlink" /\ proc[c].pc = "release"
    BY <1>0, <1>6 DEF Procs, Release, At
  <2>2. proc[c].leased
    BY <2>1 DEF LocalInv, ProcOK
  <2>3. (Goto(c, q) \/ Goto(c, Idle(proc[c].snap))) /\ UNCHANGED <<lock, raced>>
    BY <1>6 DEF Release
  <2> HIDE DEF q
  <2> QED
    BY <1>i, <1>k, <2>1, <2>2, <2>3 DEF HoldsTurn, Writing
<1>7. CASE Unlink(c)
  BY <1>7, <1>j DEF Unlink
<1> QED
  BY <1>1, <1>2, <1>3, <1>4, <1>5, <1>6, <1>7

LEMMA WriteHolds ==
  ASSUME LocalInv, LockInv, NEW c \in Clients, Check(c) \/ Write(c) \/ Unlock(c)
  PROVE  LockInv'
<1>0. proc[c] \in Procs /\ ProcOK(proc[c]) /\ "write" \in Locks
  BY DEF LocalInv, TypeOK, Locks
<1>k. ASSUME NEW q, Goto(c, q), UNCHANGED <<lock, raced>>, proc[c].pc \in {"check", "write"},
             q.pc \in {"write", "unlock"}, q.leased = proc[c].leased
      PROVE  LockInv'
  BY <1>k, StillHeld DEF NoMoreHeld, HoldsTurn, HoldsWrite, Writing
<1>1. CASE Check(c)
  <2> DEFINE q == [proc[c] EXCEPT !.pc = "write", !.next = Update(proc[c])]
             r == [proc[c] EXCEPT !.pc = "unlock"]
  <2>1. q.pc = "write" /\ q.leased = proc[c].leased /\ r.pc = "unlock" /\ r.leased = proc[c].leased
    BY <1>0 DEF Procs
  <2>2. (Goto(c, q) \/ Goto(c, r)) /\ UNCHANGED <<lock, raced>> /\ proc[c].pc = "check"
    BY <1>1 DEF Check, At
  <2> HIDE DEF q, r
  <2> QED
    BY <1>k, <2>1, <2>2
<1>2. CASE Write(c)
  <2> DEFINE q == [proc[c] EXCEPT !.pc = "unlock", !.ok = TRUE]
             r == [proc[c] EXCEPT !.pc = "unlock"]
  <2>1. q.pc = "unlock" /\ q.leased = proc[c].leased /\ r.pc = "unlock" /\ r.leased = proc[c].leased
    BY <1>0 DEF Procs
  <2>2. (Goto(c, q) \/ Goto(c, r)) /\ UNCHANGED <<lock, raced>> /\ proc[c].pc = "write"
    BY <1>2 DEF Write, At
  <2> HIDE DEF q, r
  <2> QED
    BY <1>k, <2>1, <2>2
<1>3. CASE Unlock(c)
  <2> DEFINE q == Settled(proc[c], proc[c].ok)
  <2>1. proc[c].ok \in BOOLEAN
    BY <1>0 DEF Procs
  <2>2. q.pc \in {"idle", "run", "open", "release"} /\ (q.leased => proc[c].leased)
    BY <1>0, <2>1, SettledHolds
  <2>3. RemoveLock(c, "write") /\ Goto(c, q)
    BY <1>3 DEF Unlock
  <2> HIDE DEF q
  <2>4. NoMoreHeld(c, q) /\ ~ HoldsWrite(q)
    BY <2>2 DEF NoMoreHeld, HoldsTurn, HoldsWrite, Writing
  <2> QED
    BY <1>0, <2>3, <2>4, RemovedHeld
<1> QED
  BY <1>1, <1>2, <1>3

LEMMA LockStep == LocalInv /\ LockInv /\ [Next]_vars => LockInv'
<1> SUFFICES ASSUME LocalInv, LockInv, [Next]_vars PROVE LockInv'
  OBVIOUS
<1>0. /\ lock \in [Locks -> [owner : Clients \union {Dead, Free}, stale : BOOLEAN]]
      /\ "turn" \in Locks /\ "write" \in Locks
  BY DEF LocalInv, TypeOK, Locks
<1>1. ASSUME NEW c \in Clients, Begin(c) \/ ClientStep(c) \/ AbortWait(c)
      PROVE  LockInv'
  BY <1>1, BeginHolds, AcquireHolds, TurnHolds, WriteHolds DEF ClientStep
<1>2. ASSUME NEW c \in Clients, Crash(c) PROVE LockInv'
  <2>1. Goto(c, Idle(file)) /\ raced' = raced
    BY <1>2 DEF Crash
  <2>2. \A f \in Locks : lock'[f] = IF lock[f].owner = c THEN [lock[f] EXCEPT !.owner = Dead] ELSE lock[f]
    BY <1>2 DEF Crash
  <2>3. \A f \in Locks : lock'[f].stale = lock[f].stale
        /\ lock'[f].owner = IF lock[f].owner = c THEN Dead ELSE lock[f].owner
    BY <1>0, <2>2
  <2>4. ~ HoldsTurn(Idle(file)) /\ ~ HoldsWrite(Idle(file))
    BY IdleHolds
  <2>5. \A d \in Clients : proc'[d] = IF d = c THEN Idle(file) ELSE proc[d]
    BY <2>1, Moved
  <2>6. ASSUME ~ raced, NEW d \in Clients
        PROVE  /\ HoldsTurn(proc'[d]) => lock'["turn"].owner = d
               /\ HoldsWrite(proc'[d]) => lock'["write"].owner = d
    BY <1>0, <2>3, <2>4, <2>5, <2>6 DEF LockInv
  <2> QED
    BY <1>0, <2>1, <2>3, <2>6 DEF LockInv, HoldsTurn, HoldsWrite
<1>3. ASSUME NEW f \in Locks, GoesStale(f) PROVE LockInv'
  <2>1. lock[f].owner = Dead /\ UNCHANGED <<proc, raced>>
    BY <1>3 DEF GoesStale, Unattended
  <2>2. \A g \in Locks : /\ lock'[g].owner = lock[g].owner
                         /\ lock'[g].stale => lock[g].stale \/ g = f
    BY <1>0, <1>3 DEF GoesStale
  <2>a. "turn" \in Locks /\ "write" \in Locks
    BY DEF Locks
  <2>3. lock'["turn"].stale => lock'["turn"].owner = Dead
    BY <2>1, <2>2, <2>a DEF LockInv
  <2>4. raced \/ (lock'["write"].stale => lock'["write"].owner = Dead)
    BY <2>1, <2>2, <2>a DEF LockInv
  <2>5. \A c \in Clients : HoldsTurn(proc[c])' = HoldsTurn(proc[c])
                           /\ HoldsWrite(proc[c])' = HoldsWrite(proc[c])
    BY <2>1 DEF HoldsTurn, HoldsWrite
  <2> QED
    BY <1>0, <2>1, <2>2, <2>3, <2>4, <2>5 DEF LockInv
<1>4. CASE SlowWrite
  <2>1. lock'["turn"] = lock["turn"] /\ raced'
    BY <1>0, <1>4 DEF SlowWrite
  <2> QED
    BY <2>1 DEF LockInv
<1>5. CASE UNCHANGED vars
  BY <1>5 DEF vars, LockInv, HoldsTurn, HoldsWrite
<1> QED
  BY <1>1, <1>2, <1>3, <1>4, <1>5 DEF Next

LEMMA LockInit == Init => LockInv
<1> SUFFICES ASSUME Init PROVE LockInv
  OBVIOUS
<1>1. \A c \in Clients : proc[c] = Idle(file)
  BY DEF Init
<1>2. ~ lock["turn"].stale /\ ~ lock["write"].stale
  BY DEF Init, Locks, NoLock
<1> QED
  BY <1>1, <1>2, IdleHolds DEF LockInv

\* Two clients run turns of one session at the same time only after a lock file
\* was removed that was not the abandoned one (removeStaleLock), or after a
\* write outlived its lock; nothing else, and no crash, breaks the lease.
THEOREM LeaseIsExclusive == Spec => []LeaseExclusive
<1>1. LockInv => LeaseExclusive
  BY DEF LockInv, LeaseExclusive, OneTurnAtATime, HoldsTurn
<1> QED
  BY <1>1, LocalInit, LocalStep, LockInit, LockStep, PTL DEF Spec

-----------------------------------------------------------------------------
Content(s) == ToSet(s.msgs) \union s.edits

\* A write that succeeded and is about to be reported.
Acking(p) == p.pc = "unlock" /\ p.ok /\ p.kind \in {"final", "edit"}

Acks == acked \union {proc[c].job : c \in {d \in Clients : Acking(proc[d])}}

\* How a client fits the file f when the jobs in A have been or will be reported:
\* its copy is older than the file or is the file; a save whose revision still
\* matches, and the conversation of a turn with the edits of the file, keep A.
Fits(p, A, f) == f.rev > 0 =>
    /\ p.snap.rev <= f.rev
    /\ p.snap.rev = f.rev => p.snap = f
    /\ Saving(p) => p.next.rev <= f.rev
    /\ Saving(p) /\ p.next.rev = f.rev => A \subseteq Content(p.next) /\ p.next.edits = f.edits
    /\ InLoop(p) => A \subseteq ToSet(p.conv) \union f.edits

\* How it stands to a version n that is being written, even when the file has been
\* deleted meanwhile.
Precedes(p, A, n) ==
    /\ p.snap.rev < n.rev
    /\ Saving(p) => p.next.rev < n.rev
    /\ InLoop(p) => A \subseteq ToSet(p.conv) \union n.edits

\* What a client is writing comes after the file f and keeps A, and has the job it
\* will report.
Follows(p, A, f) ==
    /\ A \subseteq Content(p.next)
    /\ p.kind = "edit" => p.job \in p.next.edits
    /\ p.kind = "final" => p.job \in ToSet(p.next.msgs)
    /\ f.rev > 0 => p.next.rev = f.rev + 1 /\ f.edits \subseteq p.next.edits

Kept ==
    /\ file.rev > 0 => Acks \subseteq Content(file)
    /\ \A d \in Clients : Fits(proc[d], Acks, file)
    /\ \A c \in Clients : At(c, "write") =>
          /\ Follows(proc[c], Acks, file)
          /\ \A d \in Clients : Precedes(proc[d], Acks, proc[c].next)
    /\ \A c \in Clients : At(c, "unlock") /\ proc[c].ok /\ file.rev > 0 => file = proc[c].next

SavedInv == raced \/ Kept

\* Nothing that holds for the reported jobs is lost when there are fewer.
LEMMA Fewer ==
  ASSUME NEW p, NEW A, NEW B \in SUBSET A, NEW f
  PROVE  /\ Fits(p, A, f) => Fits(p, B, f)
         /\ Precedes(p, A, f) => Precedes(p, B, f)
         /\ Follows(p, A, f) => Follows(p, B, f)
BY DEF Fits, Precedes, Follows

\* A client moves and its new state q fits; the file stays, and no job is reported
\* that was not about to be.
LEMMA Quiet ==
  ASSUME LocalInv, Kept, NEW c \in Clients, NEW q, Goto(c, q),
         file' = file, acked' \subseteq Acks, ~ Acking(q),
         q.pc # "write", q.pc = "unlock" => ~ q.ok,
         Fits(q, Acks, file),
         \A d \in Clients \ {c} : At(d, "write") => Precedes(q, Acks, proc[d].next)
  PROVE  Kept'
<1>1. \A d \in Clients : proc'[d] = IF d = c THEN q ELSE proc[d]
  BY Moved
<1>2. Acks' \subseteq Acks
  <2>1. Acks' = acked' \union {proc'[d].job : d \in {e \in Clients : Acking(proc'[e])}}
    BY DEF Acks, Acking
  <2>2. \A d \in Clients : Acking(proc'[d]) => d # c /\ proc'[d] = proc[d]
    BY <1>1
  <2> QED
    BY <2>1, <2>2 DEF Acks
<1> DEFINE A == Acks
           B == Acks'
<1>3. B \in SUBSET A
  BY <1>2
<1> HIDE DEF A, B
<1>4. file.rev > 0 => B \subseteq Content(file)
  BY <1>3 DEF Kept, A
<1>5. \A d \in Clients : Fits(proc'[d], B, file)
  <2>1. \A d \in Clients : Fits(proc'[d], A, file)
    BY <1>1 DEF Kept, A
  <2> QED
    BY <1>3, <2>1, Fewer
<1>6. ASSUME NEW e \in Clients, proc'[e].pc = "write"
      PROVE  /\ Follows(proc'[e], B, file)
             /\ \A d \in Clients : Precedes(proc'[d], B, proc'[e].next)
  <2>1. e # c /\ proc'[e] = proc[e] /\ At(e, "write")
    BY <1>1, <1>6 DEF At
  <2>2. Follows(proc[e], A, file) /\ \A d \in Clients : Precedes(proc[d], A, proc[e].next)
    BY <2>1 DEF Kept, A
  <2>3. Precedes(q, A, proc[e].next)
    BY <2>1 DEF A
  <2>4. \A d \in Clients : Precedes(proc'[d], A, proc[e].next)
    BY <1>1, <2>2, <2>3
  <2> QED
    BY <1>3, <2>1, <2>2, <2>4, Fewer
<1>7. \A e \in Clients : proc'[e].pc = "unlock" /\ proc'[e].ok /\ file.rev > 0 => file = proc'[e].next
  BY <1>1 DEF Kept, At
<1>8. \A d \in Clients : Fits(proc[d], Acks, file)' = Fits(proc'[d], B, file)
  BY DEF Fits, Saving, InLoop, Content, B
<1>9. \A e, d \in Clients : Precedes(proc[d], Acks, proc[e].next)' = Precedes(proc'[d], B, proc'[e].next)
  BY DEF Precedes, Saving, InLoop, B
<1>10. \A e \in Clients : Follows(proc[e], Acks, file)' = Follows(proc'[e], B, file)
  BY DEF Follows, Content, B
<1>11. (file.rev > 0 => Acks \subseteq Content(file))' = (file.rev > 0 => B \subseteq Content(file))
  BY DEF Content, B
<1> QED
  BY <1>4, <1>5, <1>6, <1>7, <1>8, <1>9, <1>10, <1>11 DEF Kept, At

\* The client has no newer copy, nothing new to save and no new conversation.
NothingNew(p, q) ==
    /\ q.snap = p.snap
    /\ Saving(q) => Saving(p) /\ q.next = p.next
    /\ InLoop(q) => InLoop(p) /\ q.conv = p.conv

LEMMA NothingNewKept ==
  ASSUME LocalInv, Kept, NEW c \in Clients, NEW q, Goto(c, q), file' = file,
         acked' = acked, NothingNew(proc[c], q),
         q.pc # "write", q.pc = "unlock" => ~ q.ok
  PROVE  Kept'
<1>1. ~ Acking(q) /\ acked' \subseteq Acks
  BY DEF Acking, Acks
<1>2. Fits(q, Acks, file)
  BY DEF Kept, NothingNew, Fits
<1>3. \A d \in Clients \ {c} : At(d, "write") => Precedes(q, Acks, proc[d].next)
  BY DEF Kept, NothingNew, Precedes
<1> QED
  BY <1>1, <1>2, <1>3, Quiet

\* A write that did not succeed, or a wait that was given up, leaves the copy of the
\* client; one that succeeded makes what was written its copy.
LEMMA SettledIs ==
  ASSUME NEW p, ProcOK(p), NEW ok \in BOOLEAN,
         p.kind \in SaveKinds \union {"touch", "edit"}
  PROVE  LET q == Settled(p, ok)
         IN  /\ q.snap = IF ok THEN p.next ELSE p.snap
             /\ q.pc \in {"idle", "run", "open", "release"}
             /\ ~ Saving(q)
             /\ InLoop(q) => InLoop(p) /\ q.conv = p.conv
<1> DEFINE q == [p EXCEPT !.snap = IF ok THEN p.next ELSE @, !.next = Missing, !.ok = FALSE]
<1>1. q \in Procs /\ q.conv = p.conv /\ q.snap = (IF ok THEN p.next ELSE p.snap)
  BY EmptyTyped DEF ProcOK, Procs
<1> HIDE DEF q
<1>2. CASE p.kind = "checkpoint"
  <2> DEFINE r == [q EXCEPT !.pc = "run", !.kind = "none"]
  <2>1. Settled(p, ok) = r
    BY <1>2 DEF Settled, q
  <2>2. r.pc = "run" /\ r.kind = "none" /\ r.snap = q.snap /\ r.conv = q.conv
    BY <1>1 DEF Procs
  <2> HIDE DEF r
  <2> QED
    BY <1>1, <1>2, <2>1, <2>2 DEF Saving, InLoop, SaveKinds
<1>3. CASE p.kind = "final" /\ ok
  <2> DEFINE r == [q EXCEPT !.pc = "open", !.kind = "touch"]
  <2>1. Settled(p, ok) = r
    BY <1>3 DEF Settled, q
  <2>2. r.pc = "open" /\ r.kind = "touch" /\ r.snap = q.snap
    BY <1>1 DEF Procs
  <2> HIDE DEF r
  <2> QED
    BY <1>1, <2>1, <2>2 DEF Saving, InLoop, SaveKinds
<1>4. CASE (p.kind = "final" /\ ~ ok) \/ p.kind = "touch"
  <2> DEFINE r == [q EXCEPT !.pc = "release", !.kind = "none"]
  <2>1. Settled(p, ok) = r
    BY <1>4 DEF Settled, q
  <2>2. r.pc = "release" /\ r.kind = "none" /\ r.snap = q.snap
    BY <1>1 DEF Procs
  <2> HIDE DEF r
  <2> QED
    BY <1>1, <2>1, <2>2 DEF Saving, InLoop, SaveKinds
<1>5. CASE p.kind \notin {"checkpoint", "final", "touch"}
  <2> DEFINE r == Idle(q.snap)
  <2>1. Settled(p, ok) = r
    BY <1>5 DEF Settled, q
  <2>2. r.pc = "idle" /\ r.kind = "none" /\ r.snap = q.snap
    BY DEF Idle
  <2> HIDE DEF r
  <2> QED
    BY <1>1, <2>1, <2>2 DEF Saving, InLoop, SaveKinds
<1> QED
  BY <1>2, <1>3, <1>4, <1>5

LEMMA IdleNew == \A p : NothingNew(p, Idle(p.snap)) /\ Idle(p.snap).pc = "idle"
<1> SUFFICES ASSUME NEW p PROVE NothingNew(p, Idle(p.snap)) /\ Idle(p.snap).pc = "idle"
  OBVIOUS
<1> DEFINE q == Idle(p.snap)
<1>1. q.pc = "idle" /\ q.kind = "none" /\ q.snap = p.snap
  BY DEF Idle
<1> HIDE DEF q
<1>2. NothingNew(p, q)
  BY <1>1 DEF NothingNew, Saving, InLoop, SaveKinds
<1> QED
  BY <1>1, <1>2 DEF q

LEMMA RetryNew ==
  ASSUME LocalInv, NEW c \in Clients, proc[c].pc \in Acquiring, Retry(c)
  PROVE  \E q : Goto(c, q) /\ NothingNew(proc[c], q) /\ q.pc \notin {"write", "unlock"}
<1>0. proc[c] \in Procs /\ ProcOK(proc[c])
  BY DEF LocalInv, TypeOK
<1>1. CASE Goto(c, [proc[c] EXCEPT !.pc = "open"])
  <2> DEFINE q == [proc[c] EXCEPT !.pc = "open"]
  <2>1. q.pc = "open" /\ q.kind = proc[c].kind /\ q.snap = proc[c].snap
        /\ q.next = proc[c].next /\ q.conv = proc[c].conv /\ Goto(c, q)
    BY <1>0, <1>1 DEF Procs
  <2> HIDE DEF q
  <2>2. NothingNew(proc[c], q)
    BY <2>1 DEF NothingNew, Saving, InLoop, Acquiring
  <2> QED
    BY <2>1, <2>2
<1>2. CASE Wanted(proc[c]) = "write" /\ Goto(c, Settled(proc[c], FALSE))
  <2> DEFINE q == Settled(proc[c], FALSE)
  <2>1. proc[c].kind \in SaveKinds \union {"touch", "edit"}
    BY <1>0, <1>2 DEF ProcOK, Procs, Kinds, Wanted, SaveKinds
  <2>2. /\ q.snap = proc[c].snap
        /\ q.pc \in {"idle", "run", "open", "release"}
        /\ ~ Saving(q)
        /\ InLoop(q) => InLoop(proc[c]) /\ q.conv = proc[c].conv
    BY <1>0, <2>1, SettledIs
  <2> HIDE DEF q
  <2>3. NothingNew(proc[c], q)
    BY <2>2 DEF NothingNew
  <2> QED
    BY <1>2, <2>2, <2>3 DEF q
<1> QED
  BY <1>1, <1>2 DEF Retry

\* An append saves the client's copy with one more job.
LEMMA BeginSaves ==
  ASSUME LocalInv, Kept, NEW c \in Clients, Begin(c)
  PROVE  Kept'
<1>0. proc[c] \in Procs
  BY DEF LocalInv, TypeOK
<1> DEFINE job == jobs.turns + jobs.extras + 1
<1>1. CASE BeginTurn(c)
  <2> DEFINE q == [proc[c] EXCEPT !.pc = "open", !.kind = "turn", !.job = job]
  <2>1. q.pc = "open" /\ q.kind = "turn" /\ q.snap = proc[c].snap
    BY <1>0 DEF Procs
  <2>2. Goto(c, q) /\ file' = file /\ acked' = acked
    BY <1>1 DEF BeginTurn
  <2> HIDE DEF q
  <2>3. NothingNew(proc[c], q)
    BY <2>1 DEF NothingNew, Saving, InLoop, SaveKinds
  <2> QED
    BY <2>1, <2>2, <2>3, NothingNewKept
<1>2. CASE BeginEdit(c)
  <2> DEFINE q == [proc[c] EXCEPT !.pc = "open", !.kind = "edit", !.job = job]
  <2>1. q.pc = "open" /\ q.kind = "edit" /\ q.snap = proc[c].snap
    BY <1>0 DEF Procs
  <2>2. Goto(c, q) /\ file' = file /\ acked' = acked
    BY <1>2 DEF BeginEdit
  <2> HIDE DEF q
  <2>3. NothingNew(proc[c], q)
    BY <2>1 DEF NothingNew, Saving, InLoop, SaveKinds
  <2> QED
    BY <2>1, <2>2, <2>3, NothingNewKept
<1>3. CASE BeginAppend(c)
  <2> DEFINE s == proc[c].snap
             n == [s EXCEPT !.msgs = Append(@, job)]
             q == [proc[c] EXCEPT !.pc = "open", !.kind = "append", !.job = job, !.next = n]
  <2>1. q.pc = "open" /\ q.kind = "append" /\ q.snap = s /\ q.next = n
    BY <1>0 DEF Procs
  <2>2. Goto(c, q) /\ file' = file /\ acked' = acked
    BY <1>3 DEF BeginAppend
  <2>3. s \in Sessions /\ job \in Jobs
    BY <1>0, <1>3, JobTyped DEF Procs, BeginAppend, OneMore
  <2>4. n.rev = s.rev /\ n.edits = s.edits /\ n.msgs = Append(s.msgs, job)
    BY <2>3 DEF Sessions
  <2>5. ToSet(n.msgs) = ToSet(s.msgs) \union {job}
    BY <2>3, <2>4, ToSetAppend DEF Sessions
  <2> HIDE DEF q, n
  <2>6. Content(s) \subseteq Content(n)
    BY <2>4, <2>5 DEF Content
  <2>7. Fits(proc[c], Acks, file) /\ (file.rev > 0 => Acks \subseteq Content(file))
    BY DEF Kept
  <2>8. Fits(q, Acks, file)
    BY <2>1, <2>4, <2>6, <2>7 DEF Fits, InLoop
  <2>9. \A d \in Clients \ {c} : At(d, "write") => Precedes(q, Acks, proc[d].next)
    BY <2>1, <2>4 DEF Kept, Precedes, InLoop
  <2>10. ~ Acking(q) /\ acked' \subseteq Acks
    BY <2>1, <2>2 DEF Acking, Acks
  <2> QED
    BY <2>1, <2>2, <2>8, <2>9, <2>10, Quiet
<1>4. CASE Delete(c)
  <2>1. file' = Missing /\ UNCHANGED <<proc, acked>>
    BY <1>4 DEF Delete
  <2>2. Missing.rev = 0
    BY DEF Missing
  <2>3. Acks' = Acks
    BY <2>1 DEF Acks, Acking
  <2>4. \A d \in Clients : Fits(proc'[d], Acks', file')
    BY <2>1, <2>2 DEF Fits
  <2>5. \A e \in Clients : proc[e].pc = "write" =>
           Follows(proc[e], Acks, Missing) /\ \A d \in Clients : Precedes(proc[d], Acks, proc[e].next)
    BY <2>2 DEF Kept, Follows, At
  <2>6. \A d \in Clients : Fits(proc[d], Acks, file)' = Fits(proc'[d], Acks', file')
    BY DEF Fits, Saving, InLoop, Content
  <2>7. \A e, d \in Clients : Precedes(proc[d], Acks, proc[e].next)' = Precedes(proc[d], Acks, proc[e].next)
    BY <2>1, <2>3 DEF Precedes, Saving, InLoop
  <2>8. \A e \in Clients : Follows(proc[e], Acks, file)' = Follows(proc[e], Acks, Missing)
    BY <2>1, <2>3 DEF Follows, Content
  <2> QED
    BY <2>1, <2>2, <2>4, <2>5, <2>6, <2>7, <2>8 DEF Kept, At
<1> QED
  BY <1>1, <1>2, <1>3, <1>4 DEF Begin

LEMMA AcquireSaves ==
  ASSUME LocalInv, Kept, NEW c \in Clients,
         Open(c) \/ Stat(c) \/ RemoveStale(c) \/ AbortWait(c)
  PROVE  Kept'
<1>0. proc[c] \in Procs /\ ProcOK(proc[c])
  BY DEF LocalInv, TypeOK
<1>w. ASSUME NEW pc \in {"stat", "rm"} \union (IF proc[c].kind = "turn" THEN {"token"} ELSE {"check"}),
             proc[c].pc \in Acquiring, Goto(c, [proc[c] EXCEPT !.pc = pc]),
             file' = file, acked' = acked
      PROVE  Kept'
  <2> DEFINE q == [proc[c] EXCEPT !.pc = pc]
  <2>1. q.pc = pc /\ q.kind = proc[c].kind /\ q.snap = proc[c].snap
        /\ q.next = proc[c].next /\ q.conv = proc[c].conv /\ Goto(c, q)
    BY <1>0, <1>w DEF Procs
  <2> HIDE DEF q
  <2>2. NothingNew(proc[c], q)
    BY <1>w, <2>1 DEF NothingNew, Saving, InLoop, Acquiring
  <2> QED
    BY <1>w, <2>1, <2>2, NothingNewKept
<1>1. CASE Open(c)
  <2>0. file' = file /\ acked' = acked /\ proc[c].pc \in Acquiring
    BY <1>1 DEF Open, At, Acquiring
  <2>1. \/ Goto(c, [proc[c] EXCEPT !.pc = "stat"])
        \/ Goto(c, [proc[c] EXCEPT !.pc = IF proc[c].kind = "turn" THEN "token" ELSE "check"])
    BY <1>1 DEF Open, Wanted
  <2> QED
    BY <1>w, <2>0, <2>1
<1>2. CASE Stat(c)
  <2>0. file' = file /\ acked' = acked /\ proc[c].pc \in Acquiring
    BY <1>2 DEF Stat, At, Acquiring
  <2>1. CASE Goto(c, [proc[c] EXCEPT !.pc = "rm"])
    BY <1>w, <2>0, <2>1
  <2>2. CASE Retry(c)
    BY <2>0, <2>2, RetryNew, NothingNewKept
  <2> QED
    BY <1>2, <2>1, <2>2 DEF Stat
<1>3. CASE RemoveStale(c)
  <2>1. proc[c].pc \in Acquiring /\ Retry(c) /\ file' = file /\ acked' = acked
    BY <1>3 DEF RemoveStale, At, Acquiring
  <2> QED
    BY <2>1, RetryNew, NothingNewKept
<1>4. CASE AbortWait(c)
  <2>1. Goto(c, Idle(proc[c].snap)) /\ file' = file /\ acked' = acked
    BY <1>4 DEF AbortWait
  <2> QED
    BY <2>1, IdleNew, NothingNewKept
<1> QED
  BY <1>1, <1>2, <1>3, <1>4

LEMMA VersionTypes ==
  ASSUME LocalInv
  PROVE  /\ file \in Sessions /\ file.rev \in Nat
         /\ \A d \in Clients : /\ proc[d].snap \in Sessions /\ proc[d].next \in Sessions
                               /\ proc[d].snap.rev \in Nat /\ proc[d].next.rev \in Nat
                               /\ proc[d].conv \in Seq(Jobs) /\ proc[d].job \in Jobs
         /\ \A d \in Clients : At(d, "write") => proc[d].next.rev > 0
<1>1. file \in Sessions /\ \A d \in Clients : proc[d] \in Procs /\ ProcOK(proc[d])
  BY DEF LocalInv, TypeOK
<1>2. \A d \in Clients : proc[d].snap \in Sessions /\ proc[d].next \in Sessions
                         /\ proc[d].conv \in Seq(Jobs) /\ proc[d].job \in Jobs
  BY <1>1 DEF Procs
<1>3. \A s \in Sessions : s.rev \in Nat
  BY DEF Sessions
<1>4. \A d \in Clients : At(d, "write") => proc[d].next.rev > 0
  BY <1>1 DEF ProcOK, At
<1> QED
  BY <1>1, <1>2, <1>3, <1>4

\* The file comes before what is being written.
LEMMA FileBefore ==
  ASSUME LocalInv, Kept, NEW d \in Clients, At(d, "write")
  PROVE  /\ file.rev < proc[d].next.rev
         /\ file.rev > 0 => file.edits \subseteq proc[d].next.edits
<1>1. file.rev \in Nat /\ proc[d].next.rev > 0
  BY VersionTypes
<1>2. file.rev > 0 => proc[d].next.rev = file.rev + 1 /\ file.edits \subseteq proc[d].next.edits
  BY DEF Kept, Follows
<1> QED
  BY <1>1, <1>2

\* A client that takes the file for its copy and is at rest.
LEMMA FreshCopy ==
  ASSUME LocalInv, Kept, NEW c \in Clients, Goto(c, Idle(file)), file' = file, acked' = acked
  PROVE  Kept'
<1> DEFINE q == Idle(file)
<1>1. q.pc = "idle" /\ q.kind = "none" /\ q.snap = file
  BY DEF Idle
<1> HIDE DEF q
<1>2. ~ Saving(q) /\ ~ InLoop(q) /\ ~ Acking(q)
  BY <1>1 DEF Saving, InLoop, SaveKinds, Acking
<1>3. Fits(q, Acks, file)
  BY <1>1, <1>2, VersionTypes DEF Fits
<1>4. \A d \in Clients \ {c} : At(d, "write") => Precedes(q, Acks, proc[d].next)
  BY <1>1, <1>2, FileBefore DEF Precedes
<1>5. acked' \subseteq Acks
  BY DEF Acks
<1> QED
  BY <1>1, <1>2, <1>3, <1>4, <1>5, Quiet DEF q

\* The load of a turn, its checkpoints and its final save start from the file or
\* from the client's copy, with the conversation of the turn.
LEMMA TurnSaves ==
  ASSUME LocalInv, Kept, NEW c \in Clients,
         WriteToken(c) \/ LoadSession(c) \/ Checkpoint(c) \/ NextBatch(c) \/ Finish(c)
         \/ FailTurn(c) \/ Release(c) \/ Unlink(c) \/ Crash(c)
  PROVE  Kept'
<1>0. proc[c] \in Procs /\ ProcOK(proc[c]) /\ Fits(proc[c], Acks, file)
      /\ (file.rev > 0 => Acks \subseteq Content(file)) /\ acked \subseteq Acks
  BY DEF LocalInv, TypeOK, Kept, Acks
<1>p. \A d \in Clients \ {c} : At(d, "write") => Precedes(proc[c], Acks, proc[d].next)
  BY DEF Kept
<1>i. ASSUME Goto(c, Idle(proc[c].snap)), file' = file, acked' = acked PROVE Kept'
  BY <1>i, IdleNew, NothingNewKept
<1>1. CASE WriteToken(c)
  <2> DEFINE q == [proc[c] EXCEPT !.pc = "load", !.kind = "none", !.leased = TRUE]
  <2>1. q.pc = "load" /\ q.kind = "none" /\ q.snap = proc[c].snap
    BY <1>0 DEF Procs
  <2>2. (Goto(c, q) \/ Goto(c, Idle(proc[c].snap))) /\ file' = file /\ acked' = acked
    BY <1>1 DEF WriteToken
  <2> HIDE DEF q
  <2>3. NothingNew(proc[c], q)
    BY <2>1 DEF NothingNew, Saving, InLoop, SaveKinds
  <2> QED
    BY <1>i, <2>1, <2>2, <2>3, NothingNewKept
<1>2. CASE LoadSession(c)
  <2>0. file' = file /\ acked' = acked /\ proc[c].pc = "load" /\ proc[c].kind = "none"
    BY <1>0, <1>2 DEF LoadSession, At, ProcOK
  <2>1. CASE file.rev > 0
    <3> DEFINE conv == Append(file.msgs, proc[c].job)
               q == [proc[c] EXCEPT !.pc = "reread", !.snap = file, !.conv = conv]
    <3>1. Goto(c, q)
      BY <1>2, <2>1 DEF LoadSession
    <3>2. file.msgs \in Seq(Jobs) /\ proc[c].job \in Jobs
      BY VersionTypes DEF Sessions
    <3>3. ToSet(file.msgs) \subseteq ToSet(conv)
      BY <3>2, ToSetAppend
    <3>4. q.pc = "reread" /\ q.kind = "none" /\ q.snap = file /\ q.conv = conv
      BY <1>0, <2>0 DEF Procs
    <3> HIDE DEF q, conv
    <3>5. ~ Saving(q) /\ ~ Acking(q)
      BY <3>4 DEF Saving, SaveKinds, Acking
    <3>6. Acks \subseteq ToSet(conv) \union file.edits
      BY <1>0, <2>1, <3>3 DEF Content
    <3>7. Fits(q, Acks, file)
      BY <3>4, <3>5, <3>6, VersionTypes DEF Fits
    <3>8. \A d \in Clients \ {c} : At(d, "write") => Precedes(q, Acks, proc[d].next)
      BY <2>1, <3>4, <3>5, <3>6, FileBefore DEF Precedes
    <3> QED
      BY <1>0, <2>0, <3>1, <3>4, <3>5, <3>7, <3>8, Quiet
  <2>2. CASE file.rev = 0
    <3> DEFINE q == [proc[c] EXCEPT !.pc = "release"]
    <3>1. q.pc = "release" /\ q.kind = "none" /\ q.snap = proc[c].snap /\ Goto(c, q)
      BY <1>0, <1>2, <2>0, <2>2 DEF Procs, LoadSession
    <3> HIDE DEF q
    <3>2. NothingNew(proc[c], q)
      BY <3>1 DEF NothingNew, Saving, InLoop, SaveKinds
    <3> QED
      BY <2>0, <3>1, <3>2, NothingNewKept
  <2> QED
    BY <1>2, <2>1, <2>2 DEF LoadSession
<1>3. CASE Checkpoint(c)
  <2>0. file' = file /\ acked' = acked /\ proc[c].pc = "reread" /\ proc[c].kind = "none"
    BY <1>0, <1>3 DEF Checkpoint, At, ProcOK
  <2>a. InLoop(proc[c])
    BY <2>0 DEF InLoop
  <2>1. CASE file.rev > 0
    <3> DEFINE n == [file EXCEPT !.msgs = proc[c].conv]
               q == [proc[c] EXCEPT !.pc = "open", !.kind = "checkpoint", !.next = n]
    <3>1. Goto(c, q)
      BY <1>3, <2>1 DEF Checkpoint
    <3>2. n.rev = file.rev /\ n.edits = file.edits /\ n.msgs = proc[c].conv
      BY VersionTypes DEF Sessions
    <3>3. q.pc = "open" /\ q.kind = "checkpoint" /\ q.snap = proc[c].snap
          /\ q.conv = proc[c].conv /\ q.next = n
      BY <1>0 DEF Procs
    <3> HIDE DEF q, n
    <3>4. Acks \subseteq ToSet(proc[c].conv) \union file.edits
      BY <1>0, <2>1, <2>a DEF Fits
    <3>5. Acks \subseteq Content(n)
      BY <3>2, <3>4 DEF Content
    <3>6. Fits(q, Acks, file)
      BY <1>0, <3>2, <3>3, <3>4, <3>5, VersionTypes DEF Fits
    <3>7. \A d \in Clients \ {c} : At(d, "write") => Precedes(q, Acks, proc[d].next)
      BY <1>p, <2>a, <3>2, <3>3, FileBefore DEF Precedes
    <3>8. ~ Acking(q)
      BY <3>3 DEF Acking
    <3> QED
      BY <1>0, <2>0, <3>1, <3>3, <3>6, <3>7, <3>8, Quiet
  <2>2. CASE file.rev = 0
    <3> DEFINE q == [proc[c] EXCEPT !.pc = "run"]
    <3>1. q.pc = "run" /\ q.kind = "none" /\ q.snap = proc[c].snap /\ Goto(c, q)
          /\ q.conv = proc[c].conv
      BY <1>0, <1>3, <2>0, <2>2 DEF Procs, Checkpoint
    <3> HIDE DEF q
    <3>2. NothingNew(proc[c], q)
      BY <2>a, <3>1 DEF NothingNew, Saving, SaveKinds
    <3> QED
      BY <2>0, <3>1, <3>2, NothingNewKept
  <2> QED
    BY <1>3, <2>1, <2>2 DEF Checkpoint
<1>4. CASE NextBatch(c) \/ FailTurn(c)
  <2> DEFINE q == [proc[c] EXCEPT !.pc = "reread"]
             r == [proc[c] EXCEPT !.pc = "release"]
  <2>0. file' = file /\ acked' = acked /\ proc[c].pc = "run" /\ proc[c].kind = "none"
        /\ (Goto(c, q) \/ Goto(c, r))
    BY <1>0, <1>4 DEF NextBatch, FailTurn, At, ProcOK
  <2>1. q.pc = "reread" /\ q.kind = "none" /\ q.snap = proc[c].snap /\ q.conv = proc[c].conv
        /\ r.pc = "release" /\ r.kind = "none" /\ r.snap = proc[c].snap
    BY <1>0, <2>0 DEF Procs
  <2> HIDE DEF q, r
  <2>2. NothingNew(proc[c], q) /\ NothingNew(proc[c], r)
    BY <2>0, <2>1 DEF NothingNew, Saving, SaveKinds, InLoop
  <2> QED
    BY <2>0, <2>1, <2>2, NothingNewKept
<1>5. CASE Finish(c)
  <2> DEFINE s == proc[c].snap
             n == [s EXCEPT !.msgs = proc[c].conv]
             q == [proc[c] EXCEPT !.pc = "open", !.kind = "final", !.next = n]
  <2>0. file' = file /\ acked' = acked /\ proc[c].pc = "run" /\ Goto(c, q)
    BY <1>5 DEF Finish, At
  <2>1. InLoop(proc[c])
    BY <2>0 DEF InLoop
  <2>2. n.rev = s.rev /\ n.edits = s.edits /\ n.msgs = proc[c].conv
    BY VersionTypes DEF Sessions
  <2>3. q.pc = "open" /\ q.kind = "final" /\ q.snap = s /\ q.conv = proc[c].conv /\ q.next = n
    BY <1>0 DEF Procs
  <2> HIDE DEF q, n
  <2>4. file.rev > 0 => Acks \subseteq ToSet(proc[c].conv) \union file.edits
    BY <1>0, <2>1 DEF Fits
  <2>5. file.rev > 0 /\ s.rev = file.rev => Acks \subseteq Content(n) /\ n.edits = file.edits
    BY <1>0, <2>2, <2>4 DEF Content, Fits
  <2>6. Fits(q, Acks, file)
    BY <1>0, <2>2, <2>3, <2>4, <2>5 DEF Fits
  <2>7. \A d \in Clients \ {c} : At(d, "write") => Precedes(q, Acks, proc[d].next)
    BY <1>p, <2>1, <2>2, <2>3 DEF Precedes
  <2>8. ~ Acking(q)
    BY <2>3 DEF Acking
  <2> QED
    BY <1>0, <2>0, <2>3, <2>6, <2>7, <2>8, Quiet
<1>6. CASE Release(c)
  <2> DEFINE q == [proc[c] EXCEPT !.pc = "unlink", !.leased = FALSE]
  <2>0. file' = file /\ acked' = acked /\ proc[c].kind = "none"
        /\ (Goto(c, q) \/ Goto(c, Idle(proc[c].snap)))
    BY <1>0, <1>6 DEF Release, At, ProcOK
  <2>1. q.pc = "unlink" /\ q.kind = "none" /\ q.snap = proc[c].snap
    BY <1>0, <2>0 DEF Procs
  <2> HIDE DEF q
  <2>2. NothingNew(proc[c], q)
    BY <2>1 DEF NothingNew, Saving, SaveKinds, InLoop
  <2> QED
    BY <1>i, <2>0, <2>1, <2>2, NothingNewKept
<1>7. CASE Unlink(c)
  BY <1>7, <1>i DEF Unlink
<1>8. CASE Crash(c)
  BY <1>8, FreshCopy DEF Crash
<1> QED
  BY <1>1, <1>2, <1>3, <1>4, <1>5, <1>6, <1>7, <1>8

\* As long as no lock was lost one client writes, and one is in a turn.
LEMMA OneEach ==
  ASSUME LocalInv, LockInv, ~ raced, NEW c \in Clients, NEW d \in Clients, c # d
  PROVE  /\ ~ (proc[c].pc \in Writing /\ proc[d].pc \in Writing)
         /\ ~ (InLoop(proc[c]) /\ InLoop(proc[d]))
<1>1. \A e \in Clients : InLoop(proc[e]) => proc[e].leased
  BY DEF LocalInv, ProcOK, InLoop, TurnKinds
<1> QED
  BY <1>1 DEF LockInv, HoldsTurn, HoldsWrite

\* A write whose revision matches the file writes what comes after the file.
LEMMA CheckSaves ==
  ASSUME LocalInv, LockInv, ~ raced, Kept, NEW c \in Clients, Check(c)
  PROVE  Kept'
<1>0. proc[c] \in Procs /\ ProcOK(proc[c]) /\ Fits(proc[c], Acks, file) /\ proc[c].pc = "check"
      /\ proc[c].kind \in SaveKinds \union {"touch", "edit"} /\ ~ proc[c].ok
      /\ file' = file /\ acked' = acked /\ proc[c].job \in Jobs
  BY VersionTypes DEF LocalInv, TypeOK, Kept, Check, At, ProcOK, Writing
<1>1. CASE Goto(c, [proc[c] EXCEPT !.pc = "unlock"])
  <2> DEFINE q == [proc[c] EXCEPT !.pc = "unlock"]
  <2>1. q.pc = "unlock" /\ q.kind = proc[c].kind /\ q.snap = proc[c].snap /\ ~ q.ok
        /\ q.conv = proc[c].conv /\ Goto(c, q)
    BY <1>0, <1>1 DEF Procs
  <2> HIDE DEF q
  <2>2. NothingNew(proc[c], q)
    BY <1>0, <2>1 DEF NothingNew, Saving, InLoop, Acquiring
  <2> QED
    BY <1>0, <2>1, <2>2, NothingNewKept
<1>2. CASE Accepts(proc[c]) /\ Goto(c, [proc[c] EXCEPT !.pc = "write", !.next = Update(proc[c])])
  <2> DEFINE p == proc[c]
             n == Update(p)
             q == [p EXCEPT !.pc = "write", !.next = n]
             A == Acks
  <2>1. Goto(c, q)
    BY <1>2
  <2>2. /\ n \in Sessions /\ n.rev = file.rev + 1
        /\ p.kind = "edit" => n.edits = file.edits \union {p.job} /\ n.msgs = file.msgs
        /\ p.kind = "touch" => n.edits = file.edits /\ n.msgs = file.msgs
        /\ p.kind \in SaveKinds => n.edits = p.next.edits /\ n.msgs = p.next.msgs
    BY <1>0, UpdateTyped
  <2>3. p.kind \in SaveKinds => Saving(p) /\ p.next.rev > 0
    BY <1>0 DEF Saving, ProcOK
  <2>4. file.rev > 0 /\ (p.kind \in SaveKinds => file.rev = p.next.rev)
    BY <1>0, <1>2, <2>3, VersionTypes DEF Accepts, SaveKinds
  <2>5. q.pc = "write" /\ q.kind = p.kind /\ q.job = p.job /\ q.snap = p.snap /\ q.next = n
        /\ q.conv = p.conv /\ q.ok = p.ok
    BY <1>0, <2>2 DEF Procs
  <2> HIDE DEF q, n
  <2>6. Acks' \subseteq A
    <3>1. \A d \in Clients : Acking(proc'[d]) => d # c /\ proc'[d] = proc[d]
      BY <2>1, <2>5, Moved DEF Acking
    <3>2. Acks' = acked' \union {proc'[d].job : d \in {e \in Clients : Acking(proc'[e])}}
      BY DEF Acks, Acking
    <3> QED
      BY <1>0, <3>1, <3>2 DEF Acks
  <2>7. A \subseteq Content(file)
    BY <2>4 DEF Kept
  <2>8. A \subseteq Content(n) /\ file.edits \subseteq n.edits
    <3>1. CASE p.kind \in SaveKinds
      BY <1>0, <2>2, <2>3, <2>4, <3>1 DEF Fits, Content
    <3>2. CASE p.kind \in {"touch", "edit"}
      BY <2>2, <2>7, <3>2 DEF Content
    <3> QED
      BY <1>0, <3>1, <3>2
  <2>9. Follows(q, A, file)
    <3>1. p.kind = "edit" => p.job \in n.edits
      BY <2>2
    <3>2. p.kind = "final" => p.job \in ToSet(n.msgs)
      <4>1. p.kind = "final" => p.kind \in SaveKinds /\ p.job \in ToSet(p.conv) /\ p.next.msgs = p.conv
        BY <1>0, <2>3 DEF ProcOK, InLoop, SaveKinds
      <4> QED
        BY <2>2, <4>1
    <3> QED
      BY <2>2, <2>5, <2>8, <3>1, <3>2 DEF Follows
  <2>10. \A d \in Clients : Precedes(proc[d], A, n)
    <3> SUFFICES ASSUME NEW d \in Clients PROVE Precedes(proc[d], A, n)
      OBVIOUS
    <3>1. Fits(proc[d], A, file)
      BY DEF Kept
    <3> QED
      BY <2>2, <2>4, <2>8, <3>1, VersionTypes DEF Fits, Precedes
  <2>a. ~ Saving(q) /\ (InLoop(q) => InLoop(p))
    BY <1>0, <2>5 DEF Saving, InLoop, Acquiring
  <2>b. Precedes(q, A, n)
    BY <2>5, <2>10, <2>a DEF Precedes
  <2>11. Fits(q, A, file)
    BY <1>0, <2>5, <2>a DEF Fits
  <2>12. \A d \in Clients : proc'[d] = IF d = c THEN q ELSE proc[d]
    BY <2>1, Moved
  <2>13. \A e \in Clients : proc'[e].pc \in {"write", "unlock"} => e = c
    BY <1>0, <2>12, OneEach DEF Writing
  <2> DEFINE B == Acks'
  <2>14. B \in SUBSET A
    BY <2>6
  <2> HIDE DEF A, B
  <2>15. \A d \in Clients : Fits(proc'[d], B, file) /\ Precedes(proc'[d], B, n)
    <3>1. \A d \in Clients : Fits(proc'[d], A, file) /\ Precedes(proc'[d], A, n)
      BY <2>10, <2>11, <2>12, <2>b DEF Kept, A
    <3> QED
      BY <2>14, <3>1, Fewer
  <2>16. Follows(q, B, file)
    BY <2>9, <2>14, Fewer
  <2>17. B \subseteq Content(file)
    BY <2>7, <2>14
  <2>18. \A d \in Clients : Fits(proc[d], Acks, file)' = Fits(proc'[d], B, file)
    BY <1>0 DEF Fits, Saving, InLoop, Content, B
  <2>19. \A e, d \in Clients : Precedes(proc[d], Acks, proc[e].next)' = Precedes(proc'[d], B, proc'[e].next)
    BY DEF Precedes, Saving, InLoop, B
  <2>20. \A e \in Clients : Follows(proc[e], Acks, file)' = Follows(proc'[e], B, file)
    BY <1>0 DEF Follows, Content, B
  <2>21. (file.rev > 0 => Acks \subseteq Content(file))' = (file.rev > 0 => B \subseteq Content(file))
    BY <1>0 DEF Content, B
  <2> QED
    BY <2>5, <2>12, <2>13, <2>15, <2>16, <2>17, <2>18, <2>19, <2>20, <2>21 DEF Kept, At
<1> QED
  BY <1>1, <1>2 DEF Check

\* The write replaces the file: every other copy is older by now.
LEMMA WriteSaves ==
  ASSUME LocalInv, LockInv, ~ raced, Kept, NEW c \in Clients, Write(c)
  PROVE  Kept'
<1> DEFINE p == proc[c]
<1>0. p \in Procs /\ ProcOK(p) /\ p.pc = "write" /\ ~ p.ok /\ acked' = acked /\ At(c, "write")
  BY DEF LocalInv, TypeOK, Write, At, ProcOK
<1>1. CASE Goto(c, [p EXCEPT !.pc = "unlock"]) /\ UNCHANGED file
  <2> DEFINE q == [p EXCEPT !.pc = "unlock"]
  <2>1. q.pc = "unlock" /\ q.kind = p.kind /\ q.snap = p.snap /\ ~ q.ok /\ q.conv = p.conv
        /\ Goto(c, q) /\ file' = file
    BY <1>0, <1>1 DEF Procs
  <2> HIDE DEF q
  <2>2. NothingNew(p, q)
    BY <1>0, <2>1 DEF NothingNew, Saving, InLoop, Acquiring
  <2> QED
    BY <1>0, <2>1, <2>2, NothingNewKept
<1>2. CASE file' = p.next /\ Goto(c, [p EXCEPT !.pc = "unlock", !.ok = TRUE])
  <2> DEFINE n == p.next
             q == [p EXCEPT !.pc = "unlock", !.ok = TRUE]
             A == Acks
             B == Acks'
             done == IF p.kind \in {"final", "edit"} THEN {p.job} ELSE {}
  <2>1. q.pc = "unlock" /\ q.kind = p.kind /\ q.job = p.job /\ q.snap = p.snap /\ q.next = n
        /\ q.conv = p.conv /\ q.ok /\ Goto(c, q)
    BY <1>0, <1>2 DEF Procs
  <2> HIDE DEF q
  <2>2. \A d \in Clients : proc'[d] = IF d = c THEN q ELSE proc[d]
    BY <2>1, Moved
  <2>3. B \subseteq A \union done
    <3>1. \A d \in Clients : Acking(proc'[d]) =>
             (Acking(proc[d]) /\ proc'[d] = proc[d]) \/ (proc'[d].job \in done)
      BY <2>1, <2>2 DEF Acking
    <3>2. B = acked' \union {proc'[d].job : d \in {e \in Clients : Acking(proc'[e])}}
      BY DEF Acks, Acking
    <3> QED
      BY <1>0, <3>1, <3>2 DEF Acks
  <2>4. Follows(p, A, file) /\ \A d \in Clients : Precedes(proc[d], A, n)
    BY <1>0 DEF Kept
  <2>5. B \subseteq Content(n)
    BY <2>3, <2>4 DEF Follows, Content
  <2> HIDE DEF A, B, n
  <2>6. ASSUME NEW d \in Clients PROVE Fits(proc'[d], B, n)
    <3>1. Precedes(proc[d], A, n) /\ Precedes(p, A, n)
      BY <2>4
    <3>2. proc[d].snap.rev \in Nat /\ proc[d].next.rev \in Nat /\ n.rev \in Nat
      BY VersionTypes DEF n
    <3>3. CASE d = c
      <4>1. ~ Saving(q) /\ (InLoop(q) => InLoop(p) /\ done \subseteq ToSet(p.conv))
        BY <1>0, <2>1 DEF Saving, InLoop, Acquiring, ProcOK
      <4>2. proc'[d] = q
        BY <2>2, <3>3
      <4>3. InLoop(q) => B \subseteq ToSet(q.conv) \union n.edits
        BY <2>1, <2>3, <3>1, <4>1 DEF Precedes
      <4> QED
        BY <2>1, <3>1, <3>2, <3>3, <4>1, <4>2, <4>3 DEF Fits, Precedes
    <3>4. CASE d # c
      <4>1. InLoop(proc[d]) => p.kind # "final"
        BY <3>4, OneEach DEF InLoop
      <4>2. InLoop(proc[d]) => done \subseteq n.edits
        BY <2>4, <4>1 DEF Follows, n
      <4>3. InLoop(proc[d]) => B \subseteq ToSet(proc[d].conv) \union n.edits
        BY <2>3, <3>1, <4>2 DEF Precedes
      <4>4. proc'[d] = proc[d]
        BY <2>2, <3>4
      <4> QED
        BY <3>1, <3>2, <4>3, <4>4 DEF Fits, Precedes
    <3> QED
      BY <3>3, <3>4
  <2>7. \A e \in Clients : proc'[e].pc # "write" /\ (proc'[e].pc = "unlock" => proc'[e] = q)
    BY <1>0, <2>1, <2>2, OneEach DEF Writing
  <2>8. file' = n /\ q.next = n
    BY <1>2, <2>1 DEF n
  <2>9. \A d \in Clients : Fits(proc[d], Acks, file)' = Fits(proc'[d], B, n)
    BY <2>8 DEF Fits, Saving, InLoop, Content, B
  <2>10. (file.rev > 0 => Acks \subseteq Content(file))' = (n.rev > 0 => B \subseteq Content(n))
    BY <2>8 DEF Content, B
  <2> QED
    BY <2>5, <2>6, <2>7, <2>8, <2>9, <2>10 DEF Kept, At
<1> QED
  BY <1>0, <1>1, <1>2 DEF Write

\* When the write settles the client's copy is the file, unless that was deleted.
LEMMA UnlockSaves ==
  ASSUME LocalInv, LockInv, ~ raced, Kept, NEW c \in Clients, Unlock(c)
  PROVE  Kept'
<1> DEFINE p == proc[c]
           q == Settled(p, p.ok)
<1>0. /\ p \in Procs /\ ProcOK(p) /\ Fits(p, Acks, file)
      /\ p.pc = "unlock" /\ p.ok \in BOOLEAN
      /\ p.kind \in SaveKinds \union {"touch", "edit"}
      /\ Goto(c, q) /\ file' = file
  BY DEF LocalInv, TypeOK, Procs, Unlock, At, ProcOK, Writing, Kept
<1>1. acked' \subseteq Acks
  BY <1>0 DEF Unlock, Acks, Acking
<1>2. /\ q.snap = IF p.ok THEN p.next ELSE p.snap
      /\ q.pc \in {"idle", "run", "open", "release"}
      /\ ~ Saving(q)
      /\ InLoop(q) => InLoop(p) /\ q.conv = p.conv
  BY <1>0, SettledIs
<1> HIDE DEF q
<1>3. p.ok /\ file.rev > 0 => p.next = file
  BY <1>0 DEF Kept, At
<1>4. Fits(q, Acks, file)
  BY <1>0, <1>2, <1>3, VersionTypes DEF Fits
<1>5. \A d \in Clients \ {c} : ~ At(d, "write")
  BY <1>0, OneEach DEF Writing, At
<1>6. ~ Acking(q) /\ q.pc # "write" /\ q.pc # "unlock"
  BY <1>2 DEF Acking
<1> QED
  BY <1>0, <1>1, <1>4, <1>5, <1>6, Quiet

LEMMA SavedStep == LocalInv /\ LockInv /\ SavedInv /\ [Next]_vars => SavedInv'
<1> SUFFICES ASSUME LocalInv, LockInv, SavedInv, [Next]_vars PROVE SavedInv'
  OBVIOUS
<1>0. raced => raced'
  BY DEF Next, Begin, BeginTurn, BeginEdit, BeginAppend, Delete, ClientStep, Open, Stat,
         RemoveStale, AbortWait, WriteToken, LoadSession, Checkpoint, NextBatch, Finish,
         FailTurn, Check, Write, Unlock, Release, Unlink, Crash, RemoveLock, GoesStale,
         SlowWrite, vars
<1>1. SUFFICES ASSUME ~ raced, Kept PROVE SavedInv'
  BY <1>0 DEF SavedInv
<1>2. ASSUME NEW c \in Clients, Begin(c) \/ ClientStep(c) \/ AbortWait(c) \/ Crash(c)
      PROVE  Kept'
  BY <1>1, <1>2, BeginSaves, AcquireSaves, TurnSaves, CheckSaves, WriteSaves, UnlockSaves
  DEF ClientStep
<1>3. ASSUME UNCHANGED <<file, proc, acked>> PROVE Kept'
  BY <1>1, <1>3
  DEF Kept, Acks, Acking, Fits, Precedes, Follows, Saving, InLoop, Content, At
<1>4. ASSUME NEW f \in Locks, GoesStale(f) PROVE Kept'
  BY <1>3, <1>4 DEF GoesStale
<1>5. CASE SlowWrite \/ UNCHANGED vars
  BY <1>3, <1>5 DEF SlowWrite, vars, SavedInv
<1> QED
  BY <1>2, <1>4, <1>5 DEF Next, SavedInv

LEMMA SavedInit == Init => SavedInv
<1> SUFFICES ASSUME Init PROVE Kept
  BY DEF SavedInv
<1>1. \A c \in Clients : proc[c] = Idle(file)
  BY DEF Init
<1>2. Idle(file).pc = "idle" /\ Idle(file).kind = "none" /\ Idle(file).snap = file
  BY DEF Idle
<1>3. \A c \in Clients : proc[c].pc = "idle" /\ proc[c].kind = "none" /\ proc[c].snap = file
  BY <1>1, <1>2
<1>4. \A c \in Clients : ~ Saving(proc[c]) /\ ~ InLoop(proc[c]) /\ ~ Acking(proc[c])
  BY <1>3 DEF Saving, SaveKinds, InLoop, Acking
<1>5. Acks = {}
  BY <1>4 DEF Acks, Init
<1>6. \A c \in Clients : Fits(proc[c], Acks, file)
  BY <1>3, <1>4 DEF Fits, Init, Missing
<1> QED
  BY <1>3, <1>5, <1>6 DEF Kept, At

\* A turn or an edit that was reported as saved is in the file from then on:
\* saves of older copies (save() with its revision), writes of other clients and
\* crashes between any two steps cannot lose it, as long as no lock was lost
\* and the session is not deleted.
THEOREM SavedIsKept == Spec => []SavedStays
<1>1. SavedInv /\ LocalInv => SavedStays
  <2> SUFFICES ASSUME Kept, file \in Sessions, file.rev # 0 PROVE acked \subseteq Content(file)
    BY DEF SavedInv, LocalInv, TypeOK, SavedStays, Content
  <2>1. file.rev > 0
    BY DEF Sessions
  <2> QED
    BY <2>1 DEF Kept, Acks
<1> QED
  BY <1>1, LocalInit, LocalStep, LockInit, LockStep, SavedInit, SavedStep, PTL DEF Spec
=============================================================================
