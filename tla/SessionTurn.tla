---------------------------- MODULE SessionTurn ----------------------------
(***************************************************************************)
(* One session file shared by several client processes                     *)
(* (src/src/storage/sessionStore.ts, runtime/agentClient.ts,               *)
(* runtime/agentSession.ts). A turn holds the turn lock, a lock file with  *)
(* a heartbeat, while it loads the session, asks the model and saves;      *)
(* every write holds the write lock for the moment of its compare and its  *)
(* rename. Both locks are files created with 'wx'; one that nobody has     *)
(* touched for thirty seconds is taken for abandoned: it is looked at,     *)
(* and then removed.                                                       *)
(*                                                                         *)
(* Meanwhile other clients rename the session, append to it, delete it,    *)
(* or die.                                                                 *)
(***************************************************************************)
EXTENDS Naturals, SequencesExt

CONSTANTS
    Clients,      \* the processes that have the session open
    Dead,         \* owner of a lock file whose process died
    Free,         \* owner of a lock file that does not exist
    MaxTurns,     \* bound: turns that are begun
    MaxExtras,    \* bound: edits, appends, deletions and further batches of turns
    MaxCrashes    \* bound: processes that die

ASSUME OwnersAssumption == Dead \notin Clients /\ Free \notin Clients /\ Dead # Free
ASSUME BoundsAssumption == MaxTurns \in Nat /\ MaxExtras \in Nat /\ MaxCrashes \in Nat

VARIABLES
    file,       \* the session's file
    lock,       \* lock["turn"] and lock["write"], the two lock files
    proc,       \* proc[c]: what client c is doing, and its copy of the session
    jobs,       \* jobs begun: turns, and edits or further batches
    crashes,    \* processes that died
    acked,      \* jobs whose result was reported as saved
    raced       \* a lock was removed that was not stale, or a write outlived its lock

vars == <<file, lock, proc, jobs, crashes, acked, raced>>

Locks == {"turn", "write"}
Jobs == 0..(MaxTurns + MaxExtras)

\* The stored session: revision (0 when there is no file), the jobs whose
\* messages are in the transcript, and those whose edit of the metadata it has.
Sessions == [rev : Nat, msgs : Seq(Jobs), edits : SUBSET Jobs]

Missing == [rev |-> 0, msgs |-> << >>, edits |-> {}]

\* kind: a turn, or the write that is being made. job: the number of the turn or
\* edit. snap: AgentSession.stored. conv: the conversation of the turn. next:
\* what is to be saved. ok: the write succeeded. leased: inside runExclusiveTurn.
PCs == {"idle", "open", "stat", "rm", "token", "load", "run", "reread",
        "check", "write", "unlock", "release", "unlink"}

Kinds == {"none", "turn", "checkpoint", "final", "touch", "edit", "append"}

Procs == [pc : PCs, kind : Kinds, job : Jobs, snap : Sessions, conv : Seq(Jobs),
          next : Sessions, ok : BOOLEAN, leased : BOOLEAN]

Idle(s) == [pc |-> "idle", kind |-> "none", job |-> 0, snap |-> s, conv |-> << >>,
            next |-> Missing, ok |-> FALSE, leased |-> FALSE]

At(c, pc) == proc[c].pc = pc
Goto(c, p) == proc' = [proc EXCEPT ![c] = p]

\* The lock a client that is acquiring one is after.
Wanted(p) == IF p.kind = "turn" THEN "turn" ELSE "write"

NoLock == [owner |-> Free, stale |-> FALSE]

\* rm(lockPath, { force: true }): removes whatever file is there.
RemoveLock(c, f) ==
    /\ lock' = [lock EXCEPT ![f] = NoLock]
    /\ raced' = (raced \/ (lock[f].owner \in Clients \ {c} /\ ~lock[f].stale))

\* (Mutant: a final save that fails skips the release of the turn.)
SettledOutside(p, ok) ==
    LET q == [p EXCEPT !.snap = IF ok THEN p.next ELSE @, !.next = Missing, !.ok = FALSE]
    IN  CASE p.kind = "checkpoint" -> [q EXCEPT !.pc = "run", !.kind = "none"]
          [] p.kind = "final" /\ ok -> [q EXCEPT !.pc = "open", !.kind = "touch"]
          [] p.kind = "final" /\ ~ok -> [q EXCEPT !.pc = "idle", !.kind = "none"]
          [] p.kind = "touch" -> [q EXCEPT !.pc = "release", !.kind = "none"]
          [] OTHER -> Idle(q.snap)

\* Where a client goes on when its write has settled. A checkpoint that failed
\* is ignored, a final save that failed fails the turn.
Settled(p, ok) ==
    LET q == [p EXCEPT !.snap = IF ok THEN p.next ELSE @, !.next = Missing, !.ok = FALSE]
    IN  CASE p.kind = "checkpoint" -> [q EXCEPT !.pc = "run", !.kind = "none"]
          [] p.kind = "final" /\ ok -> [q EXCEPT !.pc = "open", !.kind = "touch"]
          [] p.kind = "final" /\ ~ok -> [q EXCEPT !.pc = "release", !.kind = "none"]
          [] p.kind = "touch" -> [q EXCEPT !.pc = "release", !.kind = "none"]
          [] OTHER -> Idle(q.snap)

-----------------------------------------------------------------------------
\* The client has the session open and is at rest.
IsOpen(c) == At(c, "idle") /\ proc[c].snap.rev > 0

\* runOnSession(), streamOnSession(): the turn queues for the turn lock.
BeginTurn(c) ==
    /\ IsOpen(c)
    /\ jobs.turns < MaxTurns
    /\ jobs' = [jobs EXCEPT !.turns = @ + 1]
    /\ Goto(c, [proc[c] EXCEPT !.pc = "open", !.kind = "turn", !.job = jobs.turns + jobs.extras + 1])
    /\ UNCHANGED <<file, lock, crashes, acked, raced>>

OneMore == jobs.extras < MaxExtras /\ jobs' = [jobs EXCEPT !.extras = @ + 1]

\* mutateMetadata(), updateStatus(), the idle timer:
\* SessionStore.mutate() of the stored session.
BeginEdit(c) ==
    /\ IsOpen(c) /\ OneMore
    /\ Goto(c, [proc[c] EXCEPT !.pc = "open", !.kind = "edit", !.job = jobs.turns + jobs.extras + 1])
    /\ UNCHANGED <<file, lock, crashes, acked, raced>>

\* appendMessages(), and likewise rename() and setTags(): SessionStore.save() of the
\* client's own copy, changed.
BeginAppend(c) ==
    LET job == jobs.turns + jobs.extras + 1
    IN  /\ IsOpen(c) /\ OneMore
        /\ Goto(c, [proc[c] EXCEPT !.pc = "open", !.kind = "append", !.job = job,
                        !.next = [proc[c].snap EXCEPT !.msgs = Append(@, job)]])
        /\ UNCHANGED <<file, lock, crashes, acked, raced>>

\* delete(), also by prune() and enforceMaxSessions(): takes no lock.
Delete(c) ==
    /\ IsOpen(c) /\ OneMore
    /\ file' = Missing
    /\ UNCHANGED <<lock, proc, crashes, acked, raced>>

-----------------------------------------------------------------------------
\* open(lockPath, 'wx') creates the lock file, or fails with EEXIST.
Open(c) ==
    LET f == Wanted(proc[c])
    IN  /\ At(c, "open")
        /\ \/ /\ lock[f].owner = Free
              /\ lock' = [lock EXCEPT ![f] = [owner |-> c, stale |-> FALSE]]
              /\ Goto(c, [proc[c] EXCEPT !.pc = IF f = "turn" THEN "token" ELSE "check"])
           \/ /\ lock[f].owner # Free
              /\ Goto(c, [proc[c] EXCEPT !.pc = "stat"])
              /\ UNCHANGED lock
        /\ UNCHANGED <<file, jobs, crashes, acked, raced>>

\* After removeStaleLock() the client tries again; a write gives up at its deadline.
Retry(c) ==
    \/ Goto(c, [proc[c] EXCEPT !.pc = "open"])
    \/ Wanted(proc[c]) = "write" /\ Goto(c, Settled(proc[c], FALSE))

\* (Mutant: a lock is never taken for abandoned.)
StatPatiently(c) ==
    /\ At(c, "stat") /\ Retry(c)
    /\ UNCHANGED <<file, lock, jobs, crashes, acked, raced>>

\* removeStaleLock(): stat() tells the age of the lock file that is there now.
Stat(c) ==
    LET old == lock[Wanted(proc[c])].stale
    IN  /\ At(c, "stat")
        /\ \/ old /\ Goto(c, [proc[c] EXCEPT !.pc = "rm"])
           \/ ~old /\ Retry(c)
        /\ UNCHANGED <<file, lock, jobs, crashes, acked, raced>>

\* removeStaleLock(): rm() removes the lock file that is there by then.
RemoveStale(c) ==
    /\ At(c, "rm")
    /\ RemoveLock(c, Wanted(proc[c]))
    /\ Retry(c)
    /\ UNCHANGED <<file, jobs, crashes, acked>>

\* The signal of a turn that waits for its lock is aborted.
AbortWait(c) ==
    /\ At(c, "open") /\ proc[c].kind = "turn"
    /\ Goto(c, Idle(proc[c].snap))
    /\ UNCHANGED <<file, lock, jobs, crashes, acked, raced>>

\* The token is written into the new lock file; when that fails the file is removed.
WriteToken(c) ==
    /\ At(c, "token")
    /\ \/ /\ Goto(c, [proc[c] EXCEPT !.pc = "load", !.kind = "none", !.leased = TRUE])
          /\ UNCHANGED <<lock, raced>>
       \/ RemoveLock(c, "turn") /\ Goto(c, Idle(proc[c].snap))
    /\ UNCHANGED <<file, jobs, crashes, acked>>

-----------------------------------------------------------------------------
\* The turn loads the session inside the lease; without a file it fails.
LoadSession(c) ==
    /\ At(c, "load")
    /\ \/ /\ file.rev > 0
          /\ Goto(c, [proc[c] EXCEPT !.pc = "reread", !.snap = file,
                          !.conv = Append(file.msgs, proc[c].job)])
       \/ file.rev = 0 /\ Goto(c, [proc[c] EXCEPT !.pc = "release"])
    /\ UNCHANGED <<file, lock, jobs, crashes, acked, raced>>

\* onConversationCheckpoint(): the stored session is read again and is to be saved
\* with the conversation of this turn. Without a file it fails and is ignored.
Checkpoint(c) ==
    /\ At(c, "reread")
    /\ \/ /\ file.rev > 0
          /\ Goto(c, [proc[c] EXCEPT !.pc = "open", !.kind = "checkpoint",
                          !.next = [file EXCEPT !.msgs = proc[c].conv]])
       \/ file.rev = 0 /\ Goto(c, [proc[c] EXCEPT !.pc = "run"])
    /\ UNCHANGED <<file, lock, jobs, crashes, acked, raced>>

\* A tool batch has been answered: the next checkpoint.
NextBatch(c) ==
    /\ At(c, "run") /\ OneMore
    /\ Goto(c, [proc[c] EXCEPT !.pc = "reread"])
    /\ UNCHANGED <<file, lock, crashes, acked, raced>>

\* persistSessionAfterRun(): the live session with the conversation is to be saved.
Finish(c) ==
    /\ At(c, "run")
    /\ Goto(c, [proc[c] EXCEPT !.pc = "open", !.kind = "final",
                    !.next = [proc[c].snap EXCEPT !.msgs = proc[c].conv]])
    /\ UNCHANGED <<file, lock, jobs, crashes, acked, raced>>

\* The model, a hook or an abort fails the turn.
FailTurn(c) ==
    /\ At(c, "run")
    /\ Goto(c, [proc[c] EXCEPT !.pc = "release"])
    /\ UNCHANGED <<file, lock, jobs, crashes, acked, raced>>

-----------------------------------------------------------------------------
\* (Mutant: the revision is not compared.)
AcceptsAny(p) == file.rev > 0

\* save() compares the revision it was given with that of the file, mutate()
\* takes the file as it is; both need the file, except for a new session.
Accepts(p) == IF p.kind \in {"edit", "touch"} THEN file.rev > 0 ELSE file.rev = p.next.rev

\* What the write stores: save() the session it was given, mutate() the stored one.
Update(p) ==
    LET s == CASE p.kind = "edit" -> [file EXCEPT !.edits = @ \union {p.job}]
               [] p.kind = "touch" -> file
               [] OTHER -> p.next
    IN  [s EXCEPT !.rev = file.rev + 1]

\* Inside the write lock: loadIfExists() and the comparison; a conflict or a
\* missing file throws.
Check(c) ==
    /\ At(c, "check")
    /\ \/ Accepts(proc[c]) /\ Goto(c, [proc[c] EXCEPT !.pc = "write", !.next = Update(proc[c])])
       \/ ~Accepts(proc[c]) /\ Goto(c, [proc[c] EXCEPT !.pc = "unlock"])
    /\ UNCHANGED <<file, lock, jobs, crashes, acked, raced>>

\* writeJsonAtomic(): the file is replaced, or the write fails.
Write(c) ==
    /\ At(c, "write")
    /\ \/ file' = proc[c].next /\ Goto(c, [proc[c] EXCEPT !.pc = "unlock", !.ok = TRUE])
       \/ Goto(c, [proc[c] EXCEPT !.pc = "unlock"]) /\ UNCHANGED file
    /\ UNCHANGED <<lock, jobs, crashes, acked, raced>>

\* The write lock is removed, whoever holds it, and the write settles.
Unlock(c) ==
    /\ At(c, "unlock")
    /\ RemoveLock(c, "write")
    /\ Goto(c, Settled(proc[c], proc[c].ok))
    /\ acked' = IF proc[c].ok /\ proc[c].kind \in {"final", "edit"}
                THEN acked \union {proc[c].job} ELSE acked
    /\ UNCHANGED <<file, jobs, crashes>>

\* The action of runExclusiveTurn() has settled: the session is loaded again if
\* it was saved, and the token in the turn lock is compared.
Release(c) ==
    /\ At(c, "release")
    /\ \/ /\ lock["turn"].owner = c
          /\ Goto(c, [proc[c] EXCEPT !.pc = "unlink", !.leased = FALSE])
       \/ lock["turn"].owner # c /\ Goto(c, Idle(proc[c].snap))
    /\ UNCHANGED <<file, lock, jobs, crashes, acked, raced>>

\* removeOwnedTurnLock(): the turn lock is removed.
Unlink(c) ==
    /\ At(c, "unlink")
    /\ RemoveLock(c, "turn")
    /\ Goto(c, Idle(proc[c].snap))
    /\ UNCHANGED <<file, jobs, crashes, acked>>

-----------------------------------------------------------------------------
\* The process dies; started again it opens the session.
Crash(c) ==
    /\ ~At(c, "idle") /\ crashes < MaxCrashes
    /\ crashes' = crashes + 1
    /\ Goto(c, Idle(file))
    /\ lock' = [f \in Locks |-> IF lock[f].owner = c THEN [lock[f] EXCEPT !.owner = Dead] ELSE lock[f]]
    /\ UNCHANGED <<file, jobs, acked, raced>>

\* (Mutant: the turn lock has no heartbeat.)
UnattendedAlways(f) == lock[f].owner # Free

\* Nobody touches the lock file: its process is dead. The heartbeat touches the
\* turn lock of a live one.
Unattended(f) == lock[f].owner = Dead

\* The lock file has reached the stale age.
GoesStale(f) ==
    /\ Unattended(f) /\ ~lock[f].stale
    /\ lock' = [lock EXCEPT ![f].stale = TRUE]
    /\ UNCHANGED <<file, proc, jobs, crashes, acked, raced>>

\* The write lock has no heartbeat: a write slower than the stale age outlives it.
SlowWrite ==
    /\ lock["write"].owner \in Clients /\ ~lock["write"].stale
    /\ lock' = [lock EXCEPT !["write"].stale = TRUE]
    /\ raced' = TRUE
    /\ UNCHANGED <<file, proc, jobs, crashes, acked>>

-----------------------------------------------------------------------------
Init ==
    /\ file = [Missing EXCEPT !.rev = 1]
    /\ lock = [f \in Locks |-> NoLock]
    /\ proc = [c \in Clients |-> Idle(file)]
    /\ jobs = [turns |-> 0, extras |-> 0]
    /\ crashes = 0
    /\ acked = {}
    /\ raced = FALSE

Begin(c) == BeginTurn(c) \/ BeginEdit(c) \/ BeginAppend(c) \/ Delete(c)

\* What a client does once it has begun.
ClientStep(c) ==
    \/ Open(c) \/ Stat(c) \/ RemoveStale(c) \/ WriteToken(c)
    \/ LoadSession(c) \/ Checkpoint(c) \/ NextBatch(c) \/ Finish(c) \/ FailTurn(c)
    \/ Check(c) \/ Write(c) \/ Unlock(c) \/ Release(c) \/ Unlink(c)

Next ==
    \/ \E c \in Clients : Begin(c) \/ ClientStep(c) \/ AbortWait(c) \/ Crash(c)
    \/ \E f \in Locks : GoesStale(f)
    \/ SlowWrite

Spec == Init /\ [][Next]_vars

\* Clients go on, and time passes for the lock of a dead one.
Fairness ==
    /\ \A c \in Clients : WF_vars(ClientStep(c))
    /\ \A f \in Locks : WF_vars(GoesStale(f))

FairSpec == Spec /\ Fairness

-----------------------------------------------------------------------------
\* Types; and a client at rest holds neither a lease nor a write.
TypeOK ==
    /\ file \in Sessions
    /\ lock \in [Locks -> [owner : Clients \union {Dead, Free}, stale : BOOLEAN]]
    /\ proc \in [Clients -> Procs]
    /\ \A c \in Clients : At(c, "idle") => proc[c] = Idle(proc[c].snap)
    /\ jobs \in [turns : 0..MaxTurns, extras : 0..MaxExtras]
    /\ crashes \in 0..MaxCrashes
    /\ acked \subseteq Jobs
    /\ raced \in BOOLEAN

\* sessionStore.ts:46-48: the lease prevents two model and tool loops from
\* running concurrently on stale copies of one session.
OneTurnAtATime ==
    \A c, d \in Clients : c # d => ~(proc[c].leased /\ proc[d].leased)

\* Two turns overlap only after a client has removed a lock file that was not
\* the abandoned one it had looked at; no crash alone leads to it.
LeaseExclusive == raced \/ OneTurnAtATime

\* What was reported as saved, the messages of a completed turn and an edit of
\* the metadata, stays in the file whatever other clients save afterwards from
\* older copies, as long as the locks hold and the session is not deleted.
SavedStays ==
    raced \/ file.rev = 0 \/ acked \subseteq ToSet(file.msgs) \union file.edits

\* A turn that waits for its session gets its turn, or is aborted, even when the
\* turn before it died with its process.
WaitingTurnGoesOn ==
    \A c \in Clients : proc[c].kind = "turn" ~> proc[c].kind # "turn"
=============================================================================
