--------------------------- MODULE AgentRunProof ---------------------------
(***************************************************************************)
(* Proofs about AgentRun for any tools, limits and bounds.                  *)
(*                                                                          *)
(* The invariant has three layers. LocalInv speaks of one run state or one  *)
(* host at a time and holds for any number of hosts; CommitInv adds what a  *)
(* state knows of the session; SingleInv relates the memory of the          *)
(* executing host, the checkpoint and the tools that ran, and holds when a  *)
(* run is resumed only where no host executes it (SingleHost).              *)
(***************************************************************************)
EXTENDS AgentRun, WellFoundedInduction, TLAPS

\* What holds of a run state by itself, in the memory of a host or in the store:
\* calls were asked in a turn the state has reached, a result belongs to a call
\* that was asked, and the pending call has none until it is committed.
StateOK(s) ==
    /\ s \in RunState
    /\ \A c \in s.asked : c.turn <= s.turn
    /\ \A c \in Calls : s.results[c] <= 1 /\ (s.results[c] > 0 => c \in s.asked)
    /\ s.pending.status # "none" => s.pending.call \in s.asked
    /\ s.pending.status \in {"awaiting_approval", "prepared", "started"} =>
           s.results[s.pending.call] = 0

AtStart == {"load", "input", "resume"}
InTool == {"prepare", "before", "running", "invoked", "committed"}
InTurn == {"tools"} \union InTool
AtEnd == {"finalize", "appended", "afterRun", "done"}

\* Where the decision passed to resume() can still be in force.
GivenShape(p) ==
    /\ p.pc \in AtStart =>
          /\ p.st.turn = p.from /\ p.calls = << >>
          /\ p.given # "none" => p.st.pending.status \in {"awaiting_approval", "prepared"}
    /\ p.pc \in {"model", "tools"} \union AtEnd => p.given = "none"
    /\ p.pc \in InTool =>
          \/ p.given = "approve" /\ p.calls = << >> /\ p.st.turn = p.from
          \/ p.given = "none" /\ p.calls # << >>

\* The call executeToolCall() works on is the pending one, in the status that
\* belongs to the step.
PendingShape(p) ==
    /\ p.pc = "prepare" /\ p.given = "approve" => p.st.pending.status = "prepared"
    /\ p.pc = "before" => p.st.pending.status = "prepared"
    /\ p.pc \in {"running", "invoked"} => p.st.pending.status = "started"
    /\ p.pc = "committed" =>
          p.st.pending.status = "committed" /\ p.st.results[p.st.pending.call] = 1
    /\ p.pc \in InTool \ {"prepare"} /\ p.given = "none" => p.st.pending.call = p.calls[1]

\* The calls of the response still to be handled are of this turn, distinct,
\* without a result, and none of them is a pending call left by an earlier turn.
CallsOpen(p) ==
    p.pc \in InTurn =>
        /\ \A i \in DOMAIN p.calls :
              /\ p.calls[i] \in p.st.asked
              /\ p.calls[i].turn = p.st.turn
              /\ i > 1 \/ p.pc # "committed" => p.st.results[p.calls[i]] = 0
              /\ p.pc \in {"tools", "prepare"} /\ p.st.pending.status # "none" =>
                    p.st.pending.call # p.calls[i]
        /\ \A i, j \in DOMAIN p.calls : p.calls[i] = p.calls[j] => i = j

\* Of the calls made since this execution began, each has its result or is
\* still to be handled.
CallsAnswered(p) ==
    /\ p.from <= p.st.turn
    /\ p.pc = "model" => \A c \in p.st.asked : c.turn > p.from => p.st.results[c] = 1
    /\ p.pc \in InTurn => \A c \in p.st.asked : c.turn > p.from =>
           p.st.results[c] = 1 \/ \E i \in DOMAIN p.calls : p.calls[i] = c

HostOK(p) ==
    /\ p \in Processes
    /\ StateOK(p.st)
    /\ GivenShape(p)
    /\ PendingShape(p)
    /\ CallsOpen(p)
    /\ CallsAnswered(p)

\* The invariant of any number of hosts.
LocalInv ==
    /\ TypeOK
    /\ StateOK(ckpt)
    /\ \A h \in Hosts : HostOK(proc[h])

\* No run of ours has committed a turn yet.
NoCommit == \A i \in DOMAIN session : session[i].by # "run"

\* The transcript of a state past its input is built on the revision the state
\* expects of the session.
BaseState(s) == s.turn > 0 => s.base = s.rev

BaseHost(p) ==
    /\ p.pc # "appended"
    /\ BaseState(p.st)
    /\ p.pc \notin {"idle", "load", "input", "catch"} => p.st.base = p.st.rev

\* It is so until this run has committed: the commit itself moves the revision.
BaseOK == NoCommit => BaseState(ckpt) /\ \A h \in Hosts : BaseHost(proc[h])

CommitInv == CommitsOnTopOfItsHistory /\ BaseOK

\* No two hosts execute the run.
OneHost == \A g, h \in Hosts : g # h => At(g, "idle") \/ At(h, "idle")

\* What a state knows of the tools that ran: each was asked for, one that waits
\* to run has not run, and one with a side effect is recorded.
Knows(ran, s) ==
    /\ \A c \in Calls : ran[c] > 0 => c \in s.asked
    /\ s.pending.status \in {"awaiting_approval", "prepared"} => ran[s.pending.call] = 0
    /\ \A c \in Calls : ran[c] > 0 /\ c.tool \in SideEffects =>
          s.results[c] > 0 \/ (s.pending.status = "started" /\ s.pending.call = c)

Extends(s, t) ==
    /\ s.turn >= t.turn
    /\ t.asked \subseteq s.asked
    /\ \A c \in Calls : s.results[c] >= t.results[c]

SameRecord(s, t) ==
    s.turn = t.turn /\ s.asked = t.asked /\ s.results = t.results /\ s.pending = t.pending

\* The calls still to be handled have not run, and no side effect of an earlier
\* call is forgotten when the pending tool is overwritten.
NotRunYet(p, ran) ==
    /\ p.pc \in InTurn => \A i \in DOMAIN p.calls :
          i > 1 \/ p.pc \notin {"invoked", "committed"} => ran[p.calls[i]] = 0
    /\ p.pc = "running" => ran[p.st.pending.call] = 0
    /\ p.pc \in {"model", "tools", "prepare"} =>
          ~ (p.st.pending.status = "started" /\ p.st.pending.call.tool \in SideEffects)

\* A host that holds an approval holds the latest decision on the pending call.
Approved(p, dec) ==
    p.given = "approve" /\ p.pc \in AtStart \union InTool => dec[p.st.pending.call] = "approve"

HostSafe(p, ran, dec) ==
    /\ p.pc # "idle" => Knows(ran, p.st)
    /\ NotRunYet(p, ran)
    /\ Approved(p, dec)

\* The memory of an executing host and the store hold the same record, or, once
\* a save has failed, the memory extends the store.
HostSync(p, ck, has) ==
    p.pc # "idle" =>
        /\ has => Extends(p.st, ck)
        /\ has /\ p.pc # "catch" => SameRecord(p.st, ck)
        /\ p.pc \notin {"load", "catch"} => has
        /\ p.pc = "load" /\ ~ has => p.st.turn = 0

\* The invariant of a run that one host at a time executes.
StoreSafe ==
    /\ \A c \in Calls : executed[c] <= 1 /\ (executed[c] > 0 => stored)
    /\ stored => Knows(executed, ckpt)

SingleInv ==
    /\ OneHost
    /\ StoreSafe
    /\ \A h \in Hosts : HostSafe(proc[h], executed, decision) /\ HostSync(proc[h], ckpt, stored)

-----------------------------------------------------------------------------
(* LocalInv *)

\* The variables the steps of execute() share with the world around it.
WorldOK ==
    /\ session \in Seq([by : {"run", "other"}, base : Nat, ids : SUBSET Calls])
    /\ executed \in [Calls -> Nat]
    /\ decision \in [Calls -> Decisions]
    /\ resumes \in Nat
    /\ others \in Nat

\* A fresh state and an idle host are sound.
LEMMA FreshOK == StateOK(FreshState) /\ HostOK(Idle)
<1>1. FreshState \in RunState
  BY BoundsAssumption DEF FreshState, RunState, Statuses, NoPending, PendingTool, PendingStatus
<1>2. StateOK(FreshState)
  BY <1>1 DEF StateOK, FreshState, NoPending
<1>3. Idle \in Processes
  BY <1>1, BoundsAssumption DEF Idle, Processes, PCs, Decisions
<1> QED
  BY <1>2, <1>3, BoundsAssumption DEF HostOK, Idle, GivenShape, PendingShape, CallsOpen, CallsAnswered,
     AtStart, InTool, InTurn, AtEnd, FreshState

\* A host that throws keeps a sound state.
LEMMA CatchOK ==
  ASSUME NEW p, HostOK(p), NEW w \in {"none", "interrupt", "error"}
  PROVE  HostOK([p EXCEPT !.pc = "catch", !.raised = w])
<1> DEFINE q == [p EXCEPT !.pc = "catch", !.raised = w]
<1>1. q \in Processes
  BY DEF HostOK, Processes, PCs
<1>2. q.pc = "catch" /\ q.st = p.st /\ q.from = p.from
  BY DEF HostOK, Processes
<1> QED
  BY <1>1, <1>2 DEF HostOK, GivenShape, PendingShape, CallsOpen, CallsAnswered,
     AtStart, InTool, InTurn, AtEnd

\* A step in memory keeps the invariant when the host's new process is sound.
LEMMA GotoKeeps ==
  ASSUME LocalInv, WorldOK', NEW h \in Hosts, NEW p, HostOK(p), Goto(h, p)
  PROVE  LocalInv'
<1>1. p \in Processes
  BY DEF HostOK
<1>2. \A g \in Hosts : proc'[g] = IF g = h THEN p ELSE proc[g]
  BY DEF LocalInv, TypeOK, Goto
<1>3. proc' \in [Hosts -> Processes]
  BY <1>1 DEF LocalInv, TypeOK, Goto
<1>4. \A g \in Hosts : HostOK(proc'[g])
  BY <1>2 DEF LocalInv
<1>5. TypeOK'
  BY <1>3 DEF LocalInv, TypeOK, WorldOK, Goto
<1>6. StateOK(ckpt')
  BY DEF LocalInv, Goto
<1> QED
  BY <1>4, <1>5, <1>6 DEF LocalInv, StateOK, HostOK, GivenShape, PendingShape, CallsOpen, CallsAnswered

\* So does a save, whether it succeeds or throws.
LEMMA SaveKeeps ==
  ASSUME LocalInv, WorldOK', NEW h \in Hosts, NEW st, NEW p \in Processes,
         HostOK([p EXCEPT !.st = st]), Save(h, st, p)
  PROVE  LocalInv'
<1> DEFINE q == [p EXCEPT !.st = st]
           r == [p EXCEPT !.st = st, !.pc = "catch", !.raised = "error"]
<1>1. q.st = st
  BY DEF Processes
<1>2. CASE proc' = [proc EXCEPT ![h] = q] /\ Store(h, st)
  <2>1. StateOK(st) /\ st \in RunState
    BY <1>1 DEF HostOK, StateOK
  <2>2. \A g \in Hosts : proc'[g] = IF g = h THEN q ELSE proc[g]
    BY <1>2 DEF LocalInv, TypeOK
  <2>3. proc' \in [Hosts -> Processes]
    BY <1>2 DEF LocalInv, TypeOK, HostOK
  <2>4. \A g \in Hosts : HostOK(proc'[g])
    BY <2>2 DEF LocalInv
  <2>5. TypeOK'
    BY <1>2, <2>1, <2>3 DEF TypeOK, WorldOK, Store
  <2>6. StateOK(ckpt')
    BY <1>2, <2>1 DEF Store
  <2> QED
    BY <2>4, <2>5, <2>6 DEF LocalInv
<1>3. CASE Goto(h, r)
  <2>1. r = [q EXCEPT !.pc = "catch", !.raised = "error"]
    BY DEF Processes
  <2>2. HostOK(r)
    BY <2>1, CatchOK
  <2> QED
    BY <1>3, <2>2, GotoKeeps
<1> QED
  BY <1>2, <1>3 DEF Save

LEMMA ThrowKeeps ==
  ASSUME LocalInv, WorldOK', NEW h \in Hosts, NEW w \in {"interrupt", "error"}, Throw(h, w)
  PROVE  LocalInv'
  BY CatchOK, GotoKeeps DEF Throw, LocalInv

\* The store never loses its soundness to a host that executes nothing new.
LEMMA StoreKeeps ==
  ASSUME LocalInv, WorldOK', NEW h \in Hosts, NEW st, StateOK(st),
         proc' = [proc EXCEPT ![h] = Idle],
         Store(h, st) \/ UNCHANGED <<ckpt, stored, stale>>
  PROVE  LocalInv'
<1>1. \A g \in Hosts : proc'[g] = IF g = h THEN Idle ELSE proc[g]
  BY DEF LocalInv, TypeOK
<1>2. \A g \in Hosts : HostOK(proc'[g])
  BY <1>1, FreshOK DEF LocalInv
<1>3. Idle \in Processes
  BY FreshOK DEF HostOK
<1>4. StateOK(ckpt') /\ ckpt' \in RunState
  BY DEF Store, LocalInv, TypeOK, StateOK
<1>5. TypeOK'
  BY <1>3, <1>4 DEF Store, LocalInv, TypeOK, WorldOK
<1> QED
  BY <1>2, <1>4, <1>5 DEF LocalInv

LEMMA ResumeKeeps ==
  ASSUME LocalInv, NEW h \in Hosts, Resume(h)
  PROVE  LocalInv'
<1>1. PICK d \in Decisions :
        /\ d # "none" => ckpt.pending.status \in {"awaiting_approval", "prepared"}
        /\ decision' = IF d = "none" THEN decision ELSE [decision EXCEPT ![ckpt.pending.call] = d]
        /\ proc' = [proc EXCEPT ![h] = [Idle EXCEPT !.pc = "load", !.st = Restored(ckpt),
                                                    !.from = ckpt.turn, !.given = d]]
        /\ stale' = [stale EXCEPT ![h] = FALSE]
  BY DEF Resume
<1> DEFINE p == [Idle EXCEPT !.pc = "load", !.st = Restored(ckpt), !.from = ckpt.turn, !.given = d]
<1>2. StateOK(Restored(ckpt)) /\ Restored(ckpt).turn = ckpt.turn /\ Restored(ckpt).pending = ckpt.pending
  BY DEF LocalInv, StateOK, Restored, RunState, Statuses
<1>3. p \in Processes /\ p.pc = "load" /\ p.st = Restored(ckpt) /\ p.from = ckpt.turn /\ p.given = d /\ p.calls = << >>
  <2>1. ckpt.turn \in 0..MaxTurns /\ Restored(ckpt) \in RunState
    BY <1>2 DEF LocalInv, TypeOK, RunState, StateOK
  <2> QED
    BY <2>1, FreshOK DEF HostOK, Processes, PCs, Idle
<1>4. HostOK(p)
  <2>1. ckpt.turn \in Nat
    BY BoundsAssumption DEF LocalInv, TypeOK, RunState
  <2> QED
    BY <1>1, <1>2, <1>3, <2>1 DEF HostOK, GivenShape, PendingShape, CallsOpen, CallsAnswered,
       AtStart, InTool, InTurn, AtEnd
<1>5. \A g \in Hosts : proc'[g] = IF g = h THEN p ELSE proc[g]
  BY <1>1 DEF LocalInv, TypeOK
<1>6. \A g \in Hosts : HostOK(proc'[g])
  BY <1>4, <1>5 DEF LocalInv
<1>7. decision' \in [Calls -> Decisions]
  BY <1>1 DEF LocalInv, TypeOK
<1>8. TypeOK'
  BY <1>1, <1>3, <1>7 DEF LocalInv, TypeOK, Resume
<1>9. StateOK(ckpt')
  BY DEF LocalInv, Resume
<1> QED
  BY <1>6, <1>8, <1>9 DEF LocalInv

LEMMA WorldKept ==
  TypeOK /\ UNCHANGED <<session, executed, decision, resumes, others>> => WorldOK'
  BY DEF TypeOK, WorldOK

LEMMA HostStepKeeps ==
  ASSUME LocalInv, NEW h \in Hosts, HostStep(h)
  PROVE  LocalInv'
<1> DEFINE p == proc[h]
<1>p. HostOK(p) /\ p \in Processes
  BY DEF LocalInv, HostOK
<1>1. CASE Start(h)
  <2> DEFINE q == [Idle EXCEPT !.pc = "load"]
  <2>1. q \in Processes /\ q.pc = "load" /\ q.st = FreshState /\ q.from = 0 /\ q.given = "none" /\ q.calls = << >>
    BY FreshOK DEF HostOK, Processes, PCs, Idle
  <2>2. HostOK(q)
    BY <2>1, FreshOK DEF HostOK, GivenShape, PendingShape, CallsOpen, CallsAnswered,
       AtStart, InTool, InTurn, AtEnd, FreshState
  <2> QED
    BY <1>1, <2>2, GotoKeeps, WorldKept DEF Start, LocalInv
<1>2. CASE Resume(h)
  BY <1>2, ResumeKeeps
<1>3. CASE Cancel(h)
  <2> DEFINE q == [p EXCEPT !.aborted = TRUE]
  <2>1. q \in Processes /\ q.pc = p.pc /\ q.st = p.st /\ q.from = p.from /\ q.given = p.given /\ q.calls = p.calls
    BY <1>p DEF Processes
  <2> HIDE DEF q
  <2>2. GivenShape(q) /\ PendingShape(q)
    BY <2>1, <1>p DEF HostOK, GivenShape, PendingShape
  <2>3. CallsOpen(q) /\ CallsAnswered(q)
    <3>1. HostOK(p)
      BY <1>p
    <3>2. CallsOpen(q)
      BY <2>1, <3>1 DEF HostOK, CallsOpen
    <3>3. CallsAnswered(q)
      BY <2>1, <3>1 DEF HostOK, CallsAnswered
    <3> QED
      BY <3>2, <3>3
  <2>4. HostOK(q)
    BY <2>1, <2>2, <2>3, <1>p DEF HostOK
  <2> QED
    BY <1>3, <2>4, GotoKeeps, WorldKept DEF Cancel, LocalInv, q
<1>4. CASE Crash(h)
  BY <1>4, FreshOK, GotoKeeps, WorldKept DEF Crash, LocalInv
<1>5. CASE Fail(h)
  BY <1>5, ThrowKeeps, WorldKept DEF Fail, LocalInv
<1> QED
  BY <1>1, <1>2, <1>3, <1>4, <1>5 DEF HostStep

\* Before the first model call a host only brings its revision and base up to date.
LEMMA StartHost ==
  ASSUME NEW p, HostOK(p), p.pc \in AtStart,
         NEW q \in Processes, StateOK(q.st), q.pc \in {"input", "resume"},
         q.from = p.from, q.given = p.given, q.calls = p.calls,
         q.st.turn = p.st.turn, q.st.pending = p.st.pending
  PROVE  HostOK(q)
<1>1. /\ q.pc \in AtStart /\ q.pc \notin {"model", "tools"} \union AtEnd
      /\ q.pc \notin InTool /\ q.pc \notin InTurn /\ q.pc # "model"
  BY DEF AtStart, AtEnd, InTool, InTurn
<1>2. q.pc \notin {"prepare", "before", "running", "invoked", "committed"}
  OBVIOUS
<1>3. GivenShape(q)
  BY <1>1 DEF HostOK, GivenShape
<1>4. PendingShape(q)
  BY <1>1, <1>2 DEF PendingShape
<1>5. CallsOpen(q) /\ CallsAnswered(q)
  BY <1>1 DEF HostOK, CallsOpen, CallsAnswered
<1> QED
  BY <1>3, <1>4, <1>5 DEF HostOK

\* The first model call, whatever became of the pending call it found.
LEMMA FirstModelHost ==
  ASSUME NEW p, HostOK(p), p.pc = "resume",
         NEW q \in Processes, StateOK(q.st), q.pc = "model", q.given = "none",
         q.from = p.from, q.st.turn = p.st.turn
  PROVE  HostOK(q)
<1>1. /\ q.pc \notin AtStart /\ q.pc \notin InTool /\ q.pc \notin InTurn /\ p.pc \in AtStart
      /\ q.pc \notin {"prepare", "before", "running", "invoked", "committed"}
  BY DEF AtStart, InTool, InTurn
<1>2. q.from = q.st.turn /\ q.st.turn \in Nat /\ q.st.asked \subseteq Calls
  <2>1. q.st \in RunState
    BY DEF StateOK
  <2>2. q.st.turn \in 0..MaxTurns /\ q.st.asked \subseteq Calls
    BY <2>1 DEF RunState
  <2>3. p.st.turn = p.from
    BY <1>1 DEF HostOK, GivenShape
  <2> QED
    BY <2>2, <2>3, BoundsAssumption
<1>3. \A c \in q.st.asked : c.turn \in Nat /\ c.turn <= q.st.turn
  BY <1>2, BoundsAssumption DEF StateOK, Calls
<1>4. GivenShape(q) /\ PendingShape(q)
  BY <1>1 DEF GivenShape, PendingShape
<1>5. CallsOpen(q)
  BY <1>1 DEF CallsOpen
<1>6. CallsAnswered(q)
  <2>1. \A c \in q.st.asked : ~(c.turn > q.from)
    BY <1>2, <1>3
  <2>2. q.from <= q.st.turn
    BY <1>2
  <2> QED
    BY <1>1, <2>1, <2>2 DEF CallsAnswered
<1> QED
  BY <1>4, <1>5, <1>6 DEF HostOK

\* The steps before the first model call.
LEMMA StartStepKeeps ==
  ASSUME LocalInv, NEW h \in Hosts, LoadSession(h) \/ SaveInput(h) \/ ResumePending(h)
  PROVE  LocalInv'
<1> DEFINE p == proc[h]
           st == p.st
           pend == st.pending
<1>p. HostOK(p) /\ p \in Processes /\ StateOK(st) /\ st \in RunState
  BY DEF LocalInv, HostOK, StateOK
<1>t. /\ st.turn \in 0..MaxTurns /\ st.rev \in Nat /\ st.base \in Nat
      /\ st.asked \subseteq Calls /\ st.results \in [Calls -> Nat]
      /\ pend \in PendingTool \union {NoPending}
  BY <1>p DEF RunState
<1>w. WorldOK'
  BY WorldKept DEF LoadSession, SaveInput, ResumePending, LocalInv
<1>1. CASE LoadSession(h)
  <2>1. CASE Save(h, [st EXCEPT !.rev = Len(session)], [p EXCEPT !.pc = "input"])
    <3> DEFINE s == [st EXCEPT !.rev = Len(session)]
               q == [[p EXCEPT !.pc = "input"] EXCEPT !.st = s]
    <3>0. Len(session) \in Nat
      BY DEF LocalInv, TypeOK
    <3>1. s \in RunState /\ s.turn = st.turn /\ s.asked = st.asked /\ s.results = st.results /\ s.pending = pend
      BY <1>p, <3>0 DEF RunState
    <3>2. StateOK(s)
      BY <1>p, <3>1 DEF StateOK
    <3>3. q \in Processes /\ [p EXCEPT !.pc = "input"] \in Processes /\ q.pc = "input" /\ q.st = s /\ q.from = p.from /\ q.given = p.given /\ q.calls = p.calls
      BY <1>p, <3>1 DEF Processes, PCs
    <3>5. p.pc = "load"
      BY <1>1 DEF LoadSession, At
    <3> HIDE DEF q, s
    <3>6. p.pc \in AtStart /\ q.pc \in {"input", "resume"}
      BY <3>3, <3>5 DEF AtStart
    <3>4. HostOK(q)
      BY <1>p, <3>1, <3>2, <3>3, <3>6, StartHost
    <3> QED
      BY <2>1, <3>3, <3>4, <1>w, SaveKeeps DEF q, s
  <2>2. CASE Goto(h, [p EXCEPT !.pc = "resume"])
    <3> DEFINE q == [p EXCEPT !.pc = "resume"]
    <3>3. q \in Processes /\ q.pc = "resume" /\ q.st = st /\ q.from = p.from /\ q.given = p.given /\ q.calls = p.calls
      BY <1>p DEF Processes, PCs
    <3>5. p.pc = "load"
      BY <1>1 DEF LoadSession, At
    <3> HIDE DEF q
    <3>6. p.pc \in AtStart /\ q.pc \in {"input", "resume"}
      BY <3>3, <3>5 DEF AtStart
    <3>4. HostOK(q)
      BY <1>p, <3>3, <3>6, StartHost
    <3> QED
      BY <2>2, <3>4, <1>w, GotoKeeps DEF q
  <2> QED
    BY <1>1, <2>1, <2>2, <1>w, ThrowKeeps DEF LoadSession
<1>2. CASE SaveInput(h)
  <2> DEFINE s == [st EXCEPT !.base = st.rev]
             q == [[p EXCEPT !.pc = "resume"] EXCEPT !.st = s]
  <2>1. s \in RunState /\ s.turn = st.turn /\ s.asked = st.asked /\ s.results = st.results /\ s.pending = pend
    BY <1>p, <1>t DEF RunState
  <2>2. StateOK(s)
    BY <1>p, <2>1 DEF StateOK
  <2>3. q \in Processes /\ [p EXCEPT !.pc = "resume"] \in Processes /\ q.pc = "resume" /\ q.st = s /\ q.from = p.from /\ q.given = p.given /\ q.calls = p.calls
    BY <1>p, <2>1 DEF Processes, PCs
  <2>5. p.pc = "input"
    BY <1>2 DEF SaveInput, At
  <2> HIDE DEF q, s
  <2>6. p.pc \in AtStart /\ q.pc \in {"input", "resume"}
    BY <2>3, <2>5 DEF AtStart
  <2>4. HostOK(q)
    BY <1>p, <2>1, <2>2, <2>3, <2>6, StartHost
  <2> QED
    BY <1>2, <2>3, <2>4, <1>w, SaveKeeps DEF SaveInput, q, s
<1>3. CASE ResumePending(h)
  <2> DEFINE toModel == [p EXCEPT !.pc = "model", !.given = "none"]
             toPrepare == [p EXCEPT !.pc = "prepare"]
             cleared == [st EXCEPT !.pending = NoPending]
  <2>0. p.pc = "resume"
    BY <1>3 DEF ResumePending, At
  <2>1. /\ toModel \in Processes /\ toModel.pc = "model" /\ toModel.st = st
        /\ toModel.from = p.from /\ toModel.given = "none" /\ toModel.calls = p.calls
    BY <1>p DEF Processes, PCs, Decisions
  <2>2. /\ toPrepare \in Processes /\ toPrepare.pc = "prepare" /\ toPrepare.st = st
        /\ toPrepare.from = p.from /\ toPrepare.given = p.given /\ toPrepare.calls = p.calls
    BY <1>p DEF Processes, PCs
  <2>3. HostOK(toModel)
    <3> HIDE DEF toModel
    <3> QED
      BY <1>p, <2>0, <2>1, FirstModelHost
  \* The state with which a pending call is given up: no pending call, and possibly its result.
  <2>4. ASSUME NEW s \in RunState, StateOK(s), s.turn = st.turn, s.asked = st.asked
        PROVE  HostOK([toModel EXCEPT !.st = s])
    <3> DEFINE q == [toModel EXCEPT !.st = s]
    <3>1. q \in Processes /\ q.pc = "model" /\ q.st = s /\ q.from = p.from /\ q.given = "none" /\ q.calls = p.calls
      BY <2>1 DEF Processes
    <3> QED
      <4> HIDE DEF q
      <4>1. HostOK(q)
        BY <1>p, <2>0, <2>4, <3>1, FirstModelHost
      <4> QED
        BY <4>1 DEF q
  <2>5. /\ cleared \in RunState /\ StateOK(cleared)
        /\ cleared.turn = st.turn /\ cleared.asked = st.asked /\ cleared.results = st.results
        /\ cleared.pending = NoPending
    <3>1. cleared \in RunState /\ cleared.turn = st.turn /\ cleared.asked = st.asked
          /\ cleared.results = st.results /\ cleared.pending = NoPending
      BY <1>p DEF RunState
    <3> QED
      BY <1>p, <3>1 DEF StateOK, NoPending
  <2>6. ASSUME pend.status # "none", st.results[pend.call] = 0
        PROVE  LET s == AddResult(cleared, pend.call)
               IN  s \in RunState /\ StateOK(s) /\ s.turn = st.turn /\ s.asked = st.asked
    <3> DEFINE s == AddResult(cleared, pend.call)
    <3>0. st.pending.status # "none" => st.pending.call \in st.asked
      BY <1>p DEF StateOK
    <3>1. pend.call \in Calls /\ pend.call \in st.asked
      BY <1>t, <2>6, <3>0
    <3>8. cleared.results = st.results
      BY <2>5
    <3>2. s.results = [st.results EXCEPT ![pend.call] = 1] /\ s.results \in [Calls -> Nat]
      <4>1. s.results = [cleared.results EXCEPT ![pend.call] = @ + 1]
        BY <2>5 DEF AddResult, RunState
      <4> HIDE DEF cleared, s
      <4> QED
        BY <1>t, <2>6, <3>1, <3>8, <4>1
    <3>3. s \in RunState /\ s.turn = st.turn /\ s.asked = st.asked /\ s.pending = NoPending
      BY <2>5, <3>2 DEF AddResult, RunState
    <3> HIDE DEF s
    <3>5. \A c \in s.asked : c.turn <= s.turn
      BY <1>p, <3>3 DEF StateOK
    <3>6. \A c \in Calls : st.results[c] <= 1 /\ (st.results[c] > 0 => c \in st.asked)
      BY <1>p DEF StateOK
    <3>7. \A c \in Calls : s.results[c] <= 1 /\ (s.results[c] > 0 => c \in s.asked)
      <4> TAKE c \in Calls
      <4>1. CASE c = pend.call
        <5>1. s.results[c] = 1 /\ c \in s.asked
          BY <1>t, <3>1, <3>2, <3>3, <4>1
        <5> QED
          BY <5>1
      <4>2. CASE c # pend.call
        <5>1. s.results[c] = st.results[c]
          BY <1>t, <3>2, <4>2
        <5> QED
          BY <3>3, <3>6, <5>1
      <4> QED
        BY <4>1, <4>2
    <3>4. StateOK(s)
      BY <3>3, <3>5, <3>7 DEF StateOK, NoPending
    <3> QED
      BY <3>3, <3>4 DEF s
  <2>7. CASE Goto(h, toModel)
    BY <2>3, <2>7, <1>w, GotoKeeps
  <2>8. CASE pend.status = "committed" /\ Save(h, CompleteCommitted(st), toModel)
    <3>1. CASE st.results[pend.call] = 0
      <4> DEFINE s == AddResult(cleared, pend.call)
      <4>1. s \in RunState /\ StateOK(s) /\ s.turn = st.turn /\ s.asked = st.asked
        BY <2>6, <2>8, <3>1
      <4>2. CompleteCommitted(st) = s
        BY <3>1 DEF CompleteCommitted
      <4> HIDE DEF s, toModel
      <4>3. HostOK([toModel EXCEPT !.st = s])
        BY <2>4, <4>1
      <4> QED
        BY <2>1, <2>8, <4>2, <4>3, <1>w, SaveKeeps
    <3>2. CASE st.results[pend.call] # 0
      <4>1. CompleteCommitted(st) = cleared
        BY <3>2 DEF CompleteCommitted
      <4> HIDE DEF cleared, toModel
      <4>2. HostOK([toModel EXCEPT !.st = cleared])
        BY <2>4, <2>5
      <4> QED
        BY <2>1, <2>8, <4>1, <4>2, <1>w, SaveKeeps
    <3> QED
      BY <3>1, <3>2
  <2>9. CASE pend.status = "prepared" /\ p.given = "approve" /\ Goto(h, toPrepare)
    <3>1. HostOK(toPrepare)
      <4> HIDE DEF toPrepare
      <4>1. p.pc \in AtStart /\ p.calls = << >> /\ st.turn = p.from
        BY <1>p, <2>0 DEF HostOK, GivenShape, AtStart
      <4>2. GivenShape(toPrepare)
        BY <2>2, <2>9, <4>1 DEF GivenShape, AtStart, InTool, AtEnd
      <4>3. PendingShape(toPrepare)
        BY <2>2, <2>9 DEF PendingShape
      <4>4. CallsOpen(toPrepare)
        BY <2>2, <4>1 DEF CallsOpen
      <4>5. CallsAnswered(toPrepare)
        <5>1. \A c \in st.asked : c.turn \in Nat /\ c.turn <= st.turn
          BY <1>p, <1>t, BoundsAssumption DEF StateOK, Calls
        <5>2. st.turn \in Nat
          BY <1>t, BoundsAssumption
        <5>3. p.from <= st.turn /\ \A c \in st.asked : ~(c.turn > p.from)
          BY <4>1, <5>1, <5>2
        <5> QED
          BY <2>2, <5>3 DEF CallsAnswered
      <4> QED
        BY <1>p, <2>2, <4>2, <4>3, <4>4, <4>5 DEF HostOK
    <3> QED
      BY <2>9, <3>1, <1>w, GotoKeeps
  <2>10. CASE pend.status = "awaiting_approval" /\ Save(h, AddResult(cleared, pend.call), toModel)
    <3> DEFINE s == AddResult(cleared, pend.call)
    <3>1. s \in RunState /\ StateOK(s) /\ s.turn = st.turn /\ s.asked = st.asked
      BY <2>6, <2>10, <1>p DEF StateOK
    <3> HIDE DEF s, toModel
    <3>2. HostOK([toModel EXCEPT !.st = s])
      BY <2>4, <3>1
    <3>3. Save(h, s, toModel)
      BY <2>10 DEF s, toModel
    <3> QED
      BY <2>1, <3>2, <3>3, <1>w, SaveKeeps
  <2>11. CASE /\ pend.status = "awaiting_approval" /\ p.given = "approve"
              /\ Save(h, [st EXCEPT !.pending = [pend EXCEPT !.status = "prepared"]], toPrepare)
    <3> DEFINE s == [st EXCEPT !.pending = [pend EXCEPT !.status = "prepared"]]
               q == [toPrepare EXCEPT !.st = s]
    <3>1. /\ s.pending.status = "prepared" /\ s.pending.call = pend.call /\ s \in RunState
          /\ s.turn = st.turn /\ s.asked = st.asked /\ s.results = st.results
      BY <1>p, <1>t, <2>11 DEF RunState, PendingTool, NoPending, PendingStatus
    <3>2. StateOK(s)
      BY <1>p, <2>11, <3>1 DEF StateOK
    <3>3. q \in Processes /\ q.pc = "prepare" /\ q.st = s /\ q.from = p.from /\ q.given = "approve" /\ q.calls = p.calls
      BY <2>2, <2>11, <3>1 DEF Processes
    <3> HIDE DEF q, s
    <3>4. q.calls = << >> /\ q.st.turn = q.from
      BY <1>p, <2>0, <3>1, <3>3 DEF HostOK, GivenShape, AtStart
    <3>5. GivenShape(q) /\ PendingShape(q) /\ CallsOpen(q)
      BY <3>1, <3>3, <3>4 DEF GivenShape, PendingShape, CallsOpen, AtStart, InTool, InTurn, AtEnd
    <3>6. CallsAnswered(q)
      BY <1>t, <3>1, <3>2, <3>3, <3>4 DEF CallsAnswered, StateOK, RunState, Calls
    <3>7. HostOK(q)
      BY <3>2, <3>3, <3>5, <3>6 DEF HostOK
    <3> QED
      BY <2>2, <2>11, <3>7, <1>w, SaveKeeps DEF q, s
  <2>12. CASE Throw(h, "interrupt")
    BY <2>12, <1>w, ThrowKeeps
  <2> QED
    BY <1>3, <2>7, <2>8, <2>9, <2>10, <2>11, <2>12 DEF ResumePending
<1> QED
  BY <1>1, <1>2, <1>3

\* A nonempty set of naturals up to a bound has a greatest element.
LEMMA GreatestExists ==
  ASSUME NEW N \in Nat, NEW S, S \subseteq 0..N, S # {}
  PROVE  \E n \in S : \A m \in S : m <= n
<1> DEFINE T == {N - n : n \in S}
<1>1. \A n \in S : n \in Nat /\ N - n \in Nat
  OBVIOUS
<1>2. T \subseteq Nat /\ T # {}
  BY <1>1
<1>3. PICK k \in T : \A j \in T : ~ (<<j, k>> \in OpToRel(<, Nat))
  BY <1>2, NatLessThanWellFounded, WFMin
<1>4. \A j \in T : ~ (j < k)
  BY <1>2, <1>3 DEF OpToRel
<1>5. PICK n \in S : k = N - n
  OBVIOUS
<1>6. ASSUME NEW m \in S PROVE m <= n
  <2>1. N - m \in T /\ ~ (N - m < N - n)
    BY <1>4, <1>5
  <2> QED
    BY <1>1, <2>1
<1> QED
  BY <1>6

\* The batch is a prefix of the calls, all of which may run in parallel.
LEMMA BatchProperties ==
  ASSUME NEW calls \in Seq(Calls)
  PROVE  /\ Batch(calls) \in 0..Len(calls)
         /\ \A i \in 1..Batch(calls) : Parallel(calls[i])
<1> DEFINE fits(n) == n <= MaxParallelTools /\ \A i \in 1..n : Parallel(calls[i])
           S == {n \in 0..Len(calls) : fits(n)}
<1>1. 0 \in S
  BY BoundsAssumption
<1>2. PICK n \in S : \A m \in S : m <= n
  <2>1. Len(calls) \in Nat /\ S \subseteq 0..Len(calls) /\ S # {}
    BY <1>1
  <2> HIDE DEF S
  <2> QED
    BY <2>1, GreatestExists
<1>3. \E k \in 0..Len(calls) : fits(k) /\ \A m \in 0..Len(calls) : fits(m) => m <= k
  BY <1>2
<1> HIDE DEF S
<1>4. /\ Batch(calls) \in 0..Len(calls) /\ fits(Batch(calls))
  BY <1>3 DEF Batch
<1> QED
  BY <1>4

\* A response with new calls: they are of the next turn, so none of them was
\* asked before.
LEMMA CallModelKeeps ==
  ASSUME LocalInv, NEW h \in Hosts, CallModel(h)
  PROVE  LocalInv'
<1> DEFINE p == proc[h]
           st == p.st
           turn == st.turn + 1
<1>p. HostOK(p) /\ p \in Processes /\ StateOK(st) /\ st \in RunState /\ p.pc = "model" /\ p.given = "none"
  BY DEF LocalInv, HostOK, StateOK, CallModel, At, GivenShape
<1>t. /\ st.turn \in 0..MaxTurns /\ turn \in 1..MaxTurns
      /\ st.asked \subseteq Calls /\ st.results \in [Calls -> Nat]
      /\ st.pending \in PendingTool \union {NoPending}
  <2>1. /\ st.turn \in 0..MaxTurns /\ st.asked \subseteq Calls /\ st.results \in [Calls -> Nat]
        /\ st.pending \in PendingTool \union {NoPending}
    BY <1>p DEF RunState
  <2>2. st.turn < MaxTurns
    BY DEF CallModel, TurnsLeft
  <2> HIDE DEF st
  <2> QED
    BY <2>1, <2>2, BoundsAssumption
<1>1. PICK n \in 0..MaxCalls : \E tools \in [1..n -> Tools] :
        LET calls == ResponseCalls(turn, tools)
        IN  Save(h, [st EXCEPT !.turn = turn, !.asked = @ \union Range(calls)],
                    [p EXCEPT !.pc = IF n = 0 THEN "finalize" ELSE "tools", !.calls = calls])
  BY DEF CallModel
<1>2. PICK tools \in [1..n -> Tools] :
        LET calls == ResponseCalls(turn, tools)
        IN  Save(h, [st EXCEPT !.turn = turn, !.asked = @ \union Range(calls)],
                    [p EXCEPT !.pc = IF n = 0 THEN "finalize" ELSE "tools", !.calls = calls])
  BY <1>1
<1> DEFINE calls == ResponseCalls(turn, tools)
           s == [st EXCEPT !.turn = turn, !.asked = @ \union Range(calls)]
           r == [p EXCEPT !.pc = IF n = 0 THEN "finalize" ELSE "tools", !.calls = calls]
           q == [r EXCEPT !.st = s]
<1>3. /\ calls \in Seq(Calls) /\ Len(calls) = n /\ DOMAIN calls = 1..n
      /\ \A i \in 1..n : calls[i].turn = turn /\ calls[i].idx = i /\ calls[i] \in Calls
  BY <1>t, BoundsAssumption DEF ResponseCalls, Calls
<1> HIDE DEF calls
<1>4. Range(calls) \subseteq Calls /\ \A c \in Range(calls) : c.turn = turn /\ \E i \in DOMAIN calls : calls[i] = c
  BY <1>3 DEF Range
<1>5. \A i \in DOMAIN calls : calls[i] \in Range(calls)
  BY DEF Range
<1>6. /\ s \in RunState /\ s.turn = turn /\ s.asked = st.asked \union Range(calls)
      /\ s.results = st.results /\ s.pending = st.pending
  <2>1. turn \in 0..MaxTurns /\ st.asked \union Range(calls) \in SUBSET Calls
    BY <1>t, <1>4, BoundsAssumption
  <2>2. s = [st EXCEPT !.turn = turn, !.asked = st.asked \union Range(calls)]
    BY <1>p DEF RunState
  <2> HIDE DEF turn, s
  <2> QED
    BY <1>p, <2>1, <2>2 DEF RunState
<1>7. /\ r \in Processes /\ q \in Processes /\ q.pc \in {"finalize", "tools"} /\ q.calls = calls /\ q.st = s
      /\ q.from = p.from /\ q.given = "none"
  BY <1>p, <1>3, <1>6 DEF Processes, PCs
<1>a. Save(h, s, r)
  BY <1>2 DEF calls
<1> HIDE DEF s, r
<1>8. \A c \in st.asked : c \in Calls /\ c.turn \in Nat /\ c.turn <= st.turn /\ c.turn < turn /\ c \notin Range(calls)
  <2> TAKE c \in st.asked
  <2>1. c \in Calls /\ c.turn \in Nat
    BY <1>t, BoundsAssumption DEF Calls
  <2>2. c.turn <= st.turn
    BY <1>p DEF StateOK
  <2>3. c.turn < turn
    BY <1>t, <2>1, <2>2
  <2> HIDE DEF turn
  <2>4. c \notin Range(calls)
    BY <1>t, <1>4, <2>1, <2>3
  <2> QED
    BY <2>1, <2>2, <2>3, <2>4
<1>9. StateOK(s)
  <2>1. \A c \in s.asked : c.turn <= s.turn
    BY <1>t, <1>4, <1>6, <1>8
  <2>2. \A c \in Calls : s.results[c] <= 1 /\ (s.results[c] > 0 => c \in s.asked)
    BY <1>p, <1>6 DEF StateOK
  <2>3. /\ s.pending.status # "none" => s.pending.call \in s.asked
        /\ s.pending.status \in {"awaiting_approval", "prepared", "started"} =>
             s.results[s.pending.call] = 0
    BY <1>p, <1>6 DEF StateOK
  <2> QED
    BY <1>6, <2>1, <2>2, <2>3 DEF StateOK
<1> HIDE DEF q
<1>10. GivenShape(q) /\ PendingShape(q)
  BY <1>7 DEF GivenShape, PendingShape, AtStart, InTool, InTurn, AtEnd
<1>11. CallsOpen(q)
  <2>1. \A i \in DOMAIN calls : /\ calls[i] \in s.asked /\ calls[i].turn = s.turn /\ calls[i] \in Calls
                                /\ calls[i] \notin st.asked
    BY <1>3, <1>5, <1>6, <1>8
  <2>2. \A i \in DOMAIN calls : s.results[calls[i]] = 0
    BY <1>p, <1>t, <1>6, <2>1 DEF StateOK
  <2>3. \A i \in DOMAIN calls : s.pending.status # "none" => s.pending.call # calls[i]
    BY <1>p, <1>6, <2>1 DEF StateOK
  <2> QED
    BY <1>3, <1>7, <2>1, <2>2, <2>3 DEF CallsOpen, InTurn, InTool
<1>12. CallsAnswered(q)
  <2>1. p.from \in Nat /\ p.from <= st.turn /\ \A c \in st.asked : c.turn > p.from => st.results[c] = 1
    BY <1>p, BoundsAssumption DEF HostOK, CallsAnswered, Processes
  <2>2. p.from <= s.turn
    BY <1>t, <1>6, <2>1
  <2> QED
    BY <1>4, <1>6, <1>7, <2>1, <2>2 DEF CallsAnswered, InTurn, InTool
<1>13. HostOK([r EXCEPT !.st = s])
  BY <1>6, <1>7, <1>9, <1>10, <1>11, <1>12 DEF HostOK, q
<1> QED
  BY <1>7, <1>a, <1>13, SaveKeeps, WorldKept DEF CallModel, LocalInv

\* The calls of a batch are distinct and open, and get one result each.
LEMMA RunReadBatchKeeps ==
  ASSUME LocalInv, NEW h \in Hosts, RunReadBatch(h)
  PROVE  LocalInv'
<1> DEFINE p == proc[h]
           st == p.st
           calls == p.calls
           n == Batch(calls)
           batch == Range(SubSeq(calls, 1, n))
           rest == SubSeq(calls, n + 1, Len(calls))
           counted(f) == [c \in Calls |-> IF c \in batch THEN f[c] + 1 ELSE f[c]]
           s == [st EXCEPT !.results = counted(st.results)]
           r == [p EXCEPT !.calls = rest]
           q == [r EXCEPT !.st = s]
<1>p. /\ HostOK(p) /\ p \in Processes /\ StateOK(st) /\ st \in RunState /\ p.pc = "tools" /\ p.given = "none"
      /\ calls \in Seq(Calls) /\ CallsOpen(p)
  BY DEF LocalInv, HostOK, StateOK, RunReadBatch, At, GivenShape, Processes
<1>t. st.asked \subseteq Calls /\ st.results \in [Calls -> Nat] /\ st.pending \in PendingTool \union {NoPending}
  BY <1>p DEF RunState
<1>o. /\ \A i \in DOMAIN calls :
            /\ calls[i] \in st.asked /\ calls[i].turn = st.turn /\ st.results[calls[i]] = 0
            /\ st.pending.status # "none" => st.pending.call # calls[i]
      /\ \A i, j \in DOMAIN calls : calls[i] = calls[j] => i = j
  BY <1>p DEF CallsOpen, InTurn
<1>n. n \in 0..Len(calls)
  BY <1>p, BatchProperties
<1>s. Save(h, s, r) /\ WorldOK'
  <2>1. executed' = counted(executed)
    BY DEF RunReadBatch
  <2>2. executed' \in [Calls -> Nat]
    BY <2>1 DEF LocalInv, TypeOK
  <2> QED
    BY <2>2 DEF RunReadBatch, LocalInv, TypeOK, WorldOK
<1> HIDE DEF n
<1>1. /\ rest \in Seq(Calls) /\ DOMAIN rest = 1..(Len(calls) - n)
      /\ \A i \in DOMAIN rest : n + i \in DOMAIN calls /\ rest[i] = calls[n + i]
  BY <1>p, <1>n
<1>2. \A c : c \in batch <=> \E i \in 1..n : c = calls[i]
  <2>1. DOMAIN SubSeq(calls, 1, n) = 1..n /\ \A i \in 1..n : SubSeq(calls, 1, n)[i] = calls[i]
    BY <1>p, <1>n
  <2> QED
    BY <2>1 DEF Range
<1>3. \A i \in 1..n : i \in DOMAIN calls
  BY <1>p, <1>n
<1> HIDE DEF rest, batch
<1>4. \A c \in batch : c \in st.asked /\ st.results[c] = 0 /\ (st.pending.status # "none" => st.pending.call # c)
  BY <1>2, <1>3, <1>o
<1>5. \A i \in DOMAIN rest : rest[i] \notin batch
  BY <1>1, <1>2, <1>3, <1>n, <1>o, <1>p
<1>6. /\ s \in RunState /\ s.turn = st.turn /\ s.asked = st.asked /\ s.pending = st.pending
      /\ s.results \in [Calls -> Nat]
      /\ \A c \in Calls : s.results[c] = IF c \in batch THEN 1 ELSE st.results[c]
  <2>1. counted(st.results) \in [Calls -> Nat]
    BY <1>t
  <2>2. \A c \in Calls : counted(st.results)[c] = IF c \in batch THEN 1 ELSE st.results[c]
    BY <1>t, <1>4
  <2> HIDE DEF counted
  <2> QED
    BY <1>p, <2>1, <2>2 DEF RunState
<1>7. r \in Processes /\ q \in Processes /\ q.pc = "tools" /\ q.calls = rest /\ q.st = s /\ q.from = p.from /\ q.given = "none"
  <2> HIDE DEF s
  <2> QED
    BY <1>p, <1>1, <1>6 DEF Processes, PCs
<1> HIDE DEF s, r, q
<1>8. StateOK(s)
  BY <1>p, <1>t, <1>4, <1>6, <1>7 DEF StateOK
<1>9. GivenShape(q) /\ PendingShape(q)
  BY <1>7 DEF GivenShape, PendingShape, AtStart, InTool, InTurn, AtEnd
<1>10. CallsOpen(q)
  <2>1. \A i \in DOMAIN rest :
            /\ rest[i] \in s.asked /\ rest[i].turn = s.turn /\ s.results[rest[i]] = 0
            /\ s.pending.status # "none" => s.pending.call # rest[i]
    <3> TAKE i \in DOMAIN rest
    <3>1. rest[i] \in s.asked /\ rest[i].turn = s.turn
      BY <1>1, <1>o, <1>6
    <3>2. s.results[rest[i]] = 0
      BY <1>1, <1>t, <1>o, <1>5, <1>6
    <3>3. s.pending.status # "none" => s.pending.call # rest[i]
      BY <1>1, <1>o, <1>6
    <3> QED
      BY <3>1, <3>2, <3>3
  <2>2. \A i, j \in DOMAIN rest : rest[i] = rest[j] => i = j
    BY <1>1, <1>o, <1>n, <1>p
  <2> QED
    BY <1>7, <2>1, <2>2 DEF CallsOpen, InTurn, InTool
<1>11. CallsAnswered(q)
  <2>1. p.from <= st.turn /\ \A c \in st.asked : c.turn > p.from =>
           st.results[c] = 1 \/ \E i \in DOMAIN calls : calls[i] = c
    BY <1>p DEF HostOK, CallsAnswered, InTurn
  <2>2. ASSUME NEW i \in DOMAIN calls, calls[i] \notin batch PROVE \E j \in DOMAIN rest : rest[j] = calls[i]
    <3>1. i - n \in DOMAIN rest
      BY <1>1, <1>2, <1>n, <1>p, <2>2
    <3> QED
      BY <1>1, <1>n, <1>p, <3>1
  <2> QED
    BY <1>6, <1>7, <1>t, <2>1, <2>2 DEF CallsAnswered, InTurn, InTool
<1>12. HostOK([r EXCEPT !.st = s])
  BY <1>7, <1>8, <1>9, <1>10, <1>11 DEF HostOK, q
<1> QED
  BY <1>7, <1>s, <1>12, SaveKeeps

\* The other steps of the turn loop change no run state.
LEMMA LoopStepKeeps ==
  ASSUME LocalInv, NEW h \in Hosts, OutOfTurns(h) \/ ReadBatchFails(h) \/ NextCall(h)
  PROVE  LocalInv'
<1> DEFINE p == proc[h]
<1>p. HostOK(p) /\ p \in Processes
  BY DEF LocalInv, HostOK
<1>1. CASE OutOfTurns(h)
  BY <1>1, ThrowKeeps, WorldKept DEF OutOfTurns, LocalInv
<1>2. CASE ReadBatchFails(h)
  <2>1. PICK ran : executed' = [c \in Calls |-> IF c \in ran THEN executed[c] + 1 ELSE executed[c]]
    BY <1>2 DEF ReadBatchFails
  <2>2. executed' \in [Calls -> Nat]
    BY <2>1 DEF LocalInv, TypeOK
  <2> QED
    BY <1>2, <2>2, ThrowKeeps DEF ReadBatchFails, LocalInv, TypeOK, WorldOK
<1>3. CASE NextCall(h)
  <2>1. WorldOK' /\ p.pc = "tools"
    BY <1>3, WorldKept DEF NextCall, LocalInv, At
  <2>2. CASE p.calls = << >> /\ Goto(h, [p EXCEPT !.pc = "model"])
    <3> DEFINE q == [p EXCEPT !.pc = "model"]
    <3>1. q \in Processes /\ q.pc = "model" /\ q.st = p.st /\ q.from = p.from /\ q.given = p.given /\ q.calls = p.calls
      BY <1>p DEF Processes, PCs
    <3> HIDE DEF q
    <3>2. HostOK(q)
      BY <1>p, <2>1, <2>2, <3>1 DEF HostOK, GivenShape, PendingShape, CallsOpen, CallsAnswered,
       AtStart, InTool, InTurn, AtEnd
    <3> QED
      BY <2>1, <2>2, <3>2, GotoKeeps DEF q
  <2>3. CASE p.calls # << >> /\ Goto(h, [p EXCEPT !.pc = "prepare"])
    <3> DEFINE q == [p EXCEPT !.pc = "prepare"]
    <3>1. q \in Processes /\ q.pc = "prepare" /\ q.st = p.st /\ q.from = p.from /\ q.given = p.given /\ q.calls = p.calls
      BY <1>p DEF Processes, PCs
    <3> HIDE DEF q
    <3>3. GivenShape(q) /\ PendingShape(q)
      BY <1>p, <2>1, <2>3, <3>1 DEF HostOK, GivenShape, PendingShape, AtStart, InTool, AtEnd
    <3>4. CallsOpen(q)
      BY <1>p, <2>1, <3>1 DEF HostOK, CallsOpen, InTool, InTurn
    <3>5. CallsAnswered(q)
      BY <1>p, <2>1, <3>1 DEF HostOK, CallsAnswered, InTool, InTurn
    <3>2. HostOK(q)
      BY <1>p, <3>1, <3>3, <3>4, <3>5 DEF HostOK
    <3> QED
      BY <2>1, <2>3, <3>2, GotoKeeps DEF q
  <2> QED
    BY <1>3, <2>2, <2>3 DEF NextCall
<1> QED
  BY <1>1, <1>2, <1>3

\* The call executeToolCall works on was asked and has no result; once it is
\* prepared it is the pending one.
LEMMA CurrentOpen ==
  ASSUME LocalInv, NEW h \in Hosts, proc[h].pc \in InTool \ {"committed"}
  PROVE  /\ Current(h) \in Calls
         /\ Current(h) \in proc[h].st.asked
         /\ proc[h].st.results[Current(h)] = 0
         /\ proc[h].pc # "prepare" => /\ proc[h].st.pending \in PendingTool
                                      /\ proc[h].st.pending.call = Current(h)
         /\ proc[h].given = "none" => 1 \in DOMAIN proc[h].calls /\ proc[h].calls[1] = Current(h)
         /\ proc[h].given \in {"none", "approve"}
<1> DEFINE p == proc[h]
           st == p.st
<1>p. /\ HostOK(p) /\ StateOK(st) /\ st.asked \subseteq Calls /\ p.calls \in Seq(Calls)
      /\ st.pending \in PendingTool \union {NoPending}
  BY DEF LocalInv, HostOK, StateOK, RunState, Processes
<1>1. CASE p.given = "approve"
  <2>1. st.pending.status \in {"prepared", "started"} /\ Current(h) = st.pending.call
    BY <1>1, <1>p DEF HostOK, PendingShape, InTool, Current
  <2>2. st.pending \in PendingTool
    BY <1>p, <2>1 DEF NoPending
  <2> QED
    BY <1>1, <1>p, <2>1, <2>2 DEF StateOK, PendingTool
<1>2. CASE p.given = "none"
  <2>1. p.calls # << >> /\ Current(h) = Head(p.calls)
    BY <1>2, <1>p DEF HostOK, GivenShape, Current
  <2>2. 1 \in DOMAIN p.calls /\ p.calls[1] = Current(h)
    BY <1>p, <2>1
  <2>3. st.results[p.calls[1]] = 0 /\ p.calls[1] \in st.asked
    BY <1>p, <2>2 DEF HostOK, CallsOpen, InTurn, InTool
  <2>4. p.pc # "prepare" => st.pending.status # "none" /\ st.pending.call = p.calls[1]
    BY <1>2, <1>p DEF HostOK, PendingShape, InTool
  <2> QED
    BY <1>2, <1>p, <2>2, <2>3, <2>4 DEF NoPending
<1> QED
  BY <1>p, <1>1, <1>2 DEF HostOK, GivenShape

\* Saving the pending tool in the status of the step, results unchanged.
LEMMA PendingStepKeeps ==
  ASSUME LocalInv, NEW h \in Hosts, Prepare(h) \/ MarkStarted(h) \/ AwaitApproval(h)
  PROVE  LocalInv'
<1> DEFINE p == proc[h]
           st == p.st
           c == Current(h)
<1>p. /\ HostOK(p) /\ p \in Processes /\ StateOK(st) /\ st \in RunState
      /\ st.asked \subseteq Calls /\ p.calls \in Seq(Calls)
  BY DEF LocalInv, HostOK, StateOK, RunState, Processes
<1>w. WorldOK'
  BY WorldKept DEF Prepare, MarkStarted, AwaitApproval, LocalInv
<1>c. /\ p.pc \in {"prepare", "before", "running"}
      /\ c \in Calls /\ c \in st.asked /\ st.results[c] = 0
      /\ p.pc # "prepare" => st.pending \in PendingTool /\ st.pending.call = c
      /\ p.given = "none" => 1 \in DOMAIN p.calls /\ p.calls[1] = c
      /\ p.given \in {"none", "approve"}
  <2>1. p.pc \in {"prepare", "before", "running"}
    BY DEF Prepare, MarkStarted, AwaitApproval, At
  <2> QED
    BY <2>1, CurrentOpen DEF InTool
<1> HIDE DEF c
<1>1. ASSUME NEW pend \in PendingTool, pend.call = c, pend.status \in {"prepared", "started", "awaiting_approval"}
      PROVE  /\ [st EXCEPT !.pending = pend] \in RunState
             /\ [st EXCEPT !.pending = pend].pending = pend
             /\ [st EXCEPT !.pending = pend].turn = st.turn
             /\ [st EXCEPT !.pending = pend].asked = st.asked
             /\ [st EXCEPT !.pending = pend].results = st.results
             /\ StateOK([st EXCEPT !.pending = pend])
  <2> DEFINE s == [st EXCEPT !.pending = pend]
  <2>1. /\ s \in RunState /\ s.pending = pend /\ s.turn = st.turn
        /\ s.asked = st.asked /\ s.results = st.results
    BY <1>p, <1>1 DEF RunState
  <2> HIDE DEF s
  <2>2. StateOK(s)
    BY <1>p, <1>c, <1>1, <2>1 DEF StateOK
  <2> QED
    BY <2>1, <2>2 DEF s
\* The next step of executeToolCall, with the pending tool in status ps.
<1>2. ASSUME NEW pend \in PendingTool, pend.call = c, NEW pc \in {"before", "running"},
             pend.status = (IF pc = "before" THEN "prepared" ELSE "started")
      PROVE  HostOK([[p EXCEPT !.pc = pc] EXCEPT !.st = [st EXCEPT !.pending = pend]])
             /\ [p EXCEPT !.pc = pc] \in Processes
  <2> DEFINE s == [st EXCEPT !.pending = pend]
             q == [[p EXCEPT !.pc = pc] EXCEPT !.st = s]
  <2>1. /\ s \in RunState /\ s.pending = pend /\ s.turn = st.turn
        /\ s.asked = st.asked /\ s.results = st.results /\ StateOK(s)
    BY <1>1, <1>2
  <2> HIDE DEF s
  <2>2. /\ [p EXCEPT !.pc = pc] \in Processes /\ q \in Processes /\ q.pc = pc /\ q.st = s
        /\ q.from = p.from /\ q.given = p.given /\ q.calls = p.calls
    BY <1>p, <1>2, <2>1 DEF Processes, PCs
  <2> HIDE DEF q
  <2>3. GivenShape(q)
    BY <1>2, <1>p, <1>c, <2>1, <2>2 DEF HostOK, GivenShape, AtStart, InTool, InTurn, AtEnd
  <2>4. PendingShape(q)
    BY <1>2, <1>c, <2>1, <2>2 DEF PendingShape, InTool
  <2>5. CallsOpen(q)
    BY <1>2, <1>p, <1>c, <2>1, <2>2 DEF HostOK, CallsOpen, InTool, InTurn
  <2>6. CallsAnswered(q)
    BY <1>2, <1>p, <1>c, <2>1, <2>2 DEF HostOK, CallsAnswered, InTool, InTurn
  <2> QED
    BY <2>1, <2>2, <2>3, <2>4, <2>5, <2>6 DEF HostOK, q, s
<1>3. CASE Prepare(h)
  <2> DEFINE pend == [status |-> "prepared", call |-> c, asksUser |-> FALSE]
             r == [p EXCEPT !.pc = "before"]
  <2>1. pend \in PendingTool /\ pend.call = c /\ pend.status = "prepared"
    BY <1>c DEF PendingTool, PendingStatus
  <2>2. Save(h, [st EXCEPT !.pending = pend], r)
    BY <1>3 DEF Prepare, c
  <2> HIDE DEF pend
  <2>3. HostOK([r EXCEPT !.st = [st EXCEPT !.pending = pend]]) /\ r \in Processes
    BY <1>2, <2>1
  <2> QED
    BY <1>w, <2>2, <2>3, SaveKeeps
<1>4. CASE MarkStarted(h)
  <2> DEFINE pend == [st.pending EXCEPT !.status = "started"]
             r == [p EXCEPT !.pc = "running"]
  <2>0. p.pc = "before"
    BY <1>4 DEF MarkStarted, At
  <2>1. pend \in PendingTool /\ pend.call = c /\ pend.status = "started"
    BY <1>c, <2>0 DEF PendingTool, PendingStatus
  <2>2. Save(h, [st EXCEPT !.pending = pend], r)
    <3>1. [st EXCEPT !.pending = [@ EXCEPT !.status = "started"]] = [st EXCEPT !.pending = pend]
      BY <1>p DEF RunState
    <3> QED
      BY <1>4, <3>1 DEF MarkStarted
  <2> HIDE DEF pend
  <2>3. HostOK([r EXCEPT !.st = [st EXCEPT !.pending = pend]]) /\ r \in Processes
    BY <1>2, <2>1
  <2> QED
    BY <1>w, <2>2, <2>3, SaveKeeps
<1>5. CASE AwaitApproval(h)
  <2> DEFINE pend == [st.pending EXCEPT !.status = "awaiting_approval", !.asksUser = TRUE]
             s == [st EXCEPT !.pending = pend]
             r == [p EXCEPT !.pc = "catch", !.raised = "interrupt"]
             q == [r EXCEPT !.st = s]
  <2>0. p.pc = "running"
    BY <1>5 DEF AwaitApproval, At
  <2>1. pend \in PendingTool /\ pend.call = c /\ pend.status = "awaiting_approval"
    BY <1>c, <2>0 DEF PendingTool, PendingStatus
  <2>2. Save(h, s, r)
    <3>1. [st EXCEPT !.pending = [@ EXCEPT !.status = "awaiting_approval", !.asksUser = TRUE]] = s
      BY <1>p DEF RunState
    <3> QED
      BY <1>5, <3>1 DEF AwaitApproval
  <2> HIDE DEF pend
  <2>3. s \in RunState /\ StateOK(s) /\ s.turn = st.turn
    BY <1>1, <2>1
  <2> HIDE DEF s
  <2>4. r \in Processes /\ q \in Processes /\ q.pc = "catch" /\ q.st = s /\ q.from = p.from
    BY <1>p, <2>3 DEF Processes, PCs
  <2> HIDE DEF q, r
  <2>5. HostOK(q)
    BY <1>p, <2>3, <2>4 DEF HostOK, GivenShape, PendingShape, CallsOpen, CallsAnswered,
       AtStart, InTool, InTurn, AtEnd
  <2> QED
    BY <1>w, <2>2, <2>4, <2>5, SaveKeeps DEF q
<1> QED
  BY <1>3, <1>4, <1>5

\* The tool runs: only the pc moves.
LEMMA InvokeKeeps ==
  ASSUME LocalInv, NEW h \in Hosts, Invoke(h)
  PROVE  LocalInv'
<1> DEFINE p == proc[h]
           q == [p EXCEPT !.pc = "invoked"]
<1>1. HostOK(p) /\ p \in Processes /\ p.pc = "running"
  BY DEF LocalInv, HostOK, Invoke, At
<1>2. Current(h) \in Calls /\ p.st.pending.call = Current(h)
  BY <1>1, CurrentOpen DEF InTool
<1>3. WorldOK'
  <2>1. executed' = [executed EXCEPT ![Current(h)] = @ + 1] /\ executed \in [Calls -> Nat]
    BY DEF Invoke, LocalInv, TypeOK
  <2>2. executed' \in [Calls -> Nat]
    BY <1>2, <2>1
  <2> QED
    BY <2>2 DEF Invoke, LocalInv, TypeOK, WorldOK
<1>4. q \in Processes /\ q.pc = "invoked" /\ q.st = p.st /\ q.from = p.from /\ q.given = p.given /\ q.calls = p.calls
  BY <1>1 DEF Processes, PCs
<1>5. Goto(h, q)
  BY DEF Invoke
<1> HIDE DEF q
<1>7. GivenShape(q) /\ PendingShape(q)
  BY <1>1, <1>4 DEF HostOK, GivenShape, PendingShape, AtStart, InTool, AtEnd
<1>8. CallsOpen(q)
  BY <1>1, <1>4 DEF HostOK, CallsOpen, InTool, InTurn
<1>9. CallsAnswered(q)
  BY <1>1, <1>4 DEF HostOK, CallsAnswered, InTool, InTurn
<1>6. HostOK(q)
  BY <1>1, <1>4, <1>7, <1>8, <1>9 DEF HostOK
<1> QED
  BY <1>3, <1>5, <1>6, GotoKeeps

\* A result of the pending call, its first.
LEMMA CommitResultKeeps ==
  ASSUME LocalInv, NEW h \in Hosts, proc[h].pc \in {"running", "invoked"}, CommitResult(h)
  PROVE  LocalInv'
<1> DEFINE p == proc[h]
           st == p.st
           c == Current(h)
           pend == [st.pending EXCEPT !.status = "committed"]
           s == [AddResult(st, c) EXCEPT !.pending = [@ EXCEPT !.status = "committed"]]
           r == [p EXCEPT !.pc = "committed"]
           q == [r EXCEPT !.st = s]
<1>p. /\ HostOK(p) /\ p \in Processes /\ StateOK(st) /\ st \in RunState
      /\ st.asked \subseteq Calls /\ p.calls \in Seq(Calls) /\ st.results \in [Calls -> Nat]
  BY DEF LocalInv, HostOK, StateOK, RunState, Processes
<1>c. /\ c \in Calls /\ c \in st.asked /\ st.results[c] = 0
      /\ st.pending \in PendingTool /\ st.pending.call = c
      /\ p.given = "none" => 1 \in DOMAIN p.calls /\ p.calls[1] = c
      /\ p.given \in {"none", "approve"}
  BY CurrentOpen DEF InTool
<1>s. Save(h, s, r) /\ WorldOK'
  BY WorldKept DEF CommitResult, LocalInv
<1> HIDE DEF c
<1>1. pend \in PendingTool /\ pend.call = c /\ pend.status = "committed"
  BY <1>c DEF PendingTool, PendingStatus
<1>2. /\ s \in RunState /\ s.turn = st.turn /\ s.asked = st.asked /\ s.pending = pend
      /\ s.results \in [Calls -> Nat]
      /\ \A d \in Calls : s.results[d] = IF d = c THEN 1 ELSE st.results[d]
  <2>1. s = [st EXCEPT !.results = [st.results EXCEPT ![c] = 1], !.pending = pend]
    BY <1>p, <1>c DEF AddResult, RunState
  <2>2. [st.results EXCEPT ![c] = 1] \in [Calls -> Nat]
    BY <1>p
  <2> HIDE DEF s, pend
  <2> QED
    BY <1>p, <1>1, <1>c, <2>1, <2>2 DEF RunState
<1> HIDE DEF pend, s
<1>3. StateOK(s)
  <2>1. \A d \in Calls : s.results[d] <= 1 /\ (s.results[d] > 0 => d \in s.asked)
    <3>1. \A d \in Calls : st.results[d] <= 1 /\ (st.results[d] > 0 => d \in st.asked)
      BY <1>p DEF StateOK
    <3> QED
      BY <1>c, <1>2, <3>1
  <2>2. \A d \in s.asked : d.turn <= s.turn
    BY <1>p, <1>2 DEF StateOK
  <2> QED
    BY <1>c, <1>1, <1>2, <2>1, <2>2 DEF StateOK
<1>4. /\ r \in Processes /\ q \in Processes /\ q.pc = "committed" /\ q.st = s
      /\ q.from = p.from /\ q.given = p.given /\ q.calls = p.calls
  BY <1>p, <1>2 DEF Processes, PCs
<1> HIDE DEF r, q
<1>5. GivenShape(q)
  BY <1>p, <1>c, <1>2, <1>4 DEF HostOK, GivenShape, AtStart, InTool, InTurn, AtEnd
<1>6. PendingShape(q)
  BY <1>c, <1>1, <1>2, <1>4 DEF PendingShape, InTool
<1>7. CallsOpen(q)
  <2>1. CASE p.given = "approve"
    <3>1. p.calls = << >>
      BY <1>p, <2>1 DEF HostOK, GivenShape, InTool
    <3> QED
      BY <1>4, <3>1 DEF CallsOpen
  <2>2. CASE p.given = "none"
    <3>1. \A i \in DOMAIN p.calls : /\ p.calls[i] \in st.asked /\ p.calls[i].turn = st.turn
                                    /\ st.results[p.calls[i]] = 0
      BY <1>p DEF HostOK, CallsOpen, InTurn, InTool
    <3>2. \A i, j \in DOMAIN p.calls : p.calls[i] = p.calls[j] => i = j
      BY <1>p DEF HostOK, CallsOpen, InTurn, InTool
    <3>3. \A i \in DOMAIN p.calls : i > 1 => p.calls[i] # c
      BY <1>c, <2>2, <3>2
    <3>4. \A i \in DOMAIN p.calls : i > 1 => s.results[p.calls[i]] = 0
      BY <1>p, <1>2, <3>1, <3>3
    <3> QED
      BY <1>2, <1>4, <3>1, <3>2, <3>4 DEF CallsOpen
  <2> QED
    BY <1>c, <2>1, <2>2
<1>8. CallsAnswered(q)
  BY <1>p, <1>c, <1>2, <1>4 DEF HostOK, CallsAnswered, InTool, InTurn
<1>9. HostOK([r EXCEPT !.st = s])
  BY <1>3, <1>4, <1>5, <1>6, <1>7, <1>8 DEF HostOK, q
<1> QED
  BY <1>4, <1>9, <1>s, SaveKeeps

LEMMA ClearPendingKeeps ==
  ASSUME LocalInv, NEW h \in Hosts, ClearPending(h)
  PROVE  LocalInv'
<1> DEFINE p == proc[h]
           st == p.st
           s == [st EXCEPT !.pending = NoPending]
           r == IF p.given = "approve" THEN [p EXCEPT !.pc = "model", !.given = "none"]
                ELSE [p EXCEPT !.pc = "tools", !.calls = Tail(@)]
           q == [r EXCEPT !.st = s]
<1>p. /\ HostOK(p) /\ p \in Processes /\ StateOK(st) /\ st \in RunState /\ p.pc = "committed"
      /\ st.asked \subseteq Calls /\ p.calls \in Seq(Calls) /\ st.results \in [Calls -> Nat]
      /\ st.turn \in Nat /\ p.from \in Nat
  <2>1. HostOK(p) /\ p \in Processes /\ StateOK(st) /\ st \in RunState /\ p.pc = "committed"
    BY DEF LocalInv, HostOK, StateOK, ClearPending, At
  <2> QED
    BY <2>1, BoundsAssumption DEF RunState, Processes
<1>s. Save(h, s, r) /\ WorldOK'
  BY WorldKept DEF ClearPending, LocalInv
<1>1. /\ s \in RunState /\ s.turn = st.turn /\ s.asked = st.asked /\ s.results = st.results
      /\ s.pending.status = "none"
  BY <1>p DEF RunState, NoPending
<1> HIDE DEF s
<1>2. StateOK(s)
  BY <1>p, <1>1 DEF StateOK
<1>3. CASE p.given = "approve"
  <2>1. /\ r \in Processes /\ q \in Processes /\ q.pc = "model" /\ q.st = s
        /\ q.from = p.from /\ q.given = "none"
    BY <1>p, <1>1, <1>3 DEF Processes, PCs, Decisions
  <2> HIDE DEF r, q
  <2>2. p.from = st.turn
    BY <1>p, <1>3 DEF HostOK, GivenShape, InTool
  <2>3. \A c \in s.asked : c.turn \in Nat /\ c.turn <= st.turn
    BY <1>p, <1>1, BoundsAssumption DEF StateOK, Calls
  <2>5. GivenShape(q) /\ PendingShape(q) /\ CallsOpen(q)
    BY <2>1 DEF GivenShape, PendingShape, CallsOpen, AtStart, InTool, InTurn, AtEnd
  <2>6. CallsAnswered(q)
    <3>1. q.from \in Nat /\ q.from = s.turn /\ s.turn \in Nat
      BY <1>p, <1>1, <2>1, <2>2
    <3>2. \A c \in s.asked : ~ (c.turn > q.from)
      BY <1>1, <2>3, <3>1
    <3> QED
      BY <2>1, <3>1, <3>2 DEF CallsAnswered, InTool, InTurn
  <2>4. HostOK(q)
    BY <1>2, <2>1, <2>5, <2>6 DEF HostOK
  <2> QED
    BY <1>s, <2>1, <2>4, SaveKeeps DEF q
<1>4. CASE p.given # "approve"
  <2>0. p.given = "none" /\ p.calls # << >> /\ Len(p.calls) > 0
    BY <1>p, <1>4 DEF HostOK, GivenShape, InTool
  <2>t. /\ Tail(p.calls) \in Seq(Calls) /\ DOMAIN Tail(p.calls) = 1..(Len(p.calls) - 1)
        /\ \A i \in 1..(Len(p.calls) - 1) : Tail(p.calls)[i] = p.calls[i + 1] /\ i + 1 \in DOMAIN p.calls
    BY <1>p, <2>0
  <2>1. /\ r \in Processes /\ q \in Processes /\ q.pc = "tools" /\ q.st = s
        /\ q.from = p.from /\ q.given = "none" /\ q.calls = Tail(p.calls)
    BY <1>p, <1>1, <1>4, <2>0, <2>t DEF Processes, PCs
  <2> HIDE DEF r, q
  <2>2. GivenShape(q) /\ PendingShape(q)
    BY <2>1 DEF GivenShape, PendingShape, AtStart, InTool, InTurn, AtEnd
  <2>3. CallsOpen(q)
    <3>1. \A i \in DOMAIN p.calls : /\ p.calls[i] \in st.asked /\ p.calls[i].turn = st.turn
                                    /\ i > 1 => st.results[p.calls[i]] = 0
      BY <1>p DEF HostOK, CallsOpen, InTurn, InTool
    <3>2. \A i, j \in DOMAIN p.calls : p.calls[i] = p.calls[j] => i = j
      BY <1>p DEF HostOK, CallsOpen, InTurn, InTool
    <3>3. \A i \in DOMAIN Tail(p.calls) : /\ Tail(p.calls)[i] \in s.asked /\ Tail(p.calls)[i].turn = s.turn
                                          /\ s.results[Tail(p.calls)[i]] = 0
      BY <1>1, <2>t, <3>1
    <3>4. \A i, j \in DOMAIN Tail(p.calls) : Tail(p.calls)[i] = Tail(p.calls)[j] => i = j
      BY <2>t, <3>2
    <3> QED
      BY <1>1, <2>1, <3>3, <3>4 DEF CallsOpen
  <2>4. CallsAnswered(q)
    <3>1. st.results[p.calls[1]] = 1
      BY <1>p, <2>0 DEF HostOK, PendingShape, InTool
    <3>2. \A i \in DOMAIN p.calls : i = 1 \/ \E j \in DOMAIN Tail(p.calls) : Tail(p.calls)[j] = p.calls[i]
      <4> TAKE i \in DOMAIN p.calls
      <4>0. p.calls \in Seq(Calls) /\ DOMAIN p.calls = 1..Len(p.calls) /\ Len(p.calls) \in Nat
        BY <1>p
      <4> HIDE DEF p
      <4>1. i # 1 => i - 1 \in DOMAIN Tail(p.calls) /\ Tail(p.calls)[i - 1] = p.calls[i]
        <5> SUFFICES ASSUME i # 1
                     PROVE  i - 1 \in DOMAIN Tail(p.calls) /\ Tail(p.calls)[i - 1] = p.calls[i]
          OBVIOUS
        <5>1. i - 1 \in 1..(Len(p.calls) - 1) /\ (i - 1) + 1 = i
          BY <4>0
        <5> QED
          BY <2>t, <5>1
      <4> QED
        BY <4>1
    <3>3. p.from <= st.turn /\ \A c \in st.asked : c.turn > p.from =>
             st.results[c] = 1 \/ \E i \in DOMAIN p.calls : p.calls[i] = c
      BY <1>p DEF HostOK, CallsAnswered, InTool, InTurn
    <3>4. \A c \in st.asked : c.turn > p.from =>
             st.results[c] = 1 \/ \E j \in DOMAIN Tail(p.calls) : Tail(p.calls)[j] = c
      BY <3>1, <3>2, <3>3
    <3> QED
      BY <1>1, <2>1, <3>3, <3>4 DEF CallsAnswered, InTool, InTurn
  <2>5. HostOK(q)
    BY <1>2, <1>1, <2>1, <2>2, <2>3, <2>4 DEF HostOK
  <2> QED
    BY <1>s, <2>1, <2>5, SaveKeeps DEF q
<1> QED
  BY <1>3, <1>4

\* The end of the run, and its catch block.
LEMMA EndStepKeeps ==
  ASSUME LocalInv, NEW h \in Hosts,
         AppendSession(h) \/ SaveRevision(h) \/ SaveCompleted(h) \/ DeleteCheckpoint(h) \/ Settle(h)
  PROVE  LocalInv'
<1> DEFINE p == proc[h]
           st == p.st
\* A step at the end that saves the state with another revision or status.
<1>p. /\ HostOK(p) /\ p \in Processes /\ StateOK(st) /\ st \in RunState /\ st.rev \in Nat
  BY DEF LocalInv, HostOK, StateOK, RunState
<1>1. ASSUME NEW s, NEW pc \in {"afterRun", "done"}, p.pc \in AtEnd,
             s \in {[st EXCEPT !.rev = st.rev + 1], [st EXCEPT !.status = "completed"]}
      PROVE  HostOK([[p EXCEPT !.pc = pc] EXCEPT !.st = s]) /\ [p EXCEPT !.pc = pc] \in Processes
  <2> DEFINE q == [[p EXCEPT !.pc = pc] EXCEPT !.st = s]
  <2>1. /\ s \in RunState /\ s.turn = st.turn /\ s.asked = st.asked /\ s.results = st.results
        /\ s.pending = st.pending
    BY <1>p, <1>1 DEF RunState, Statuses
  <2>2. StateOK(s)
    BY <1>p, <2>1 DEF StateOK
  <2>3. /\ [p EXCEPT !.pc = pc] \in Processes /\ q \in Processes /\ q.pc = pc /\ q.st = s
        /\ q.from = p.from /\ q.given = p.given
    BY <1>p, <1>1, <2>1 DEF Processes, PCs
  <2> HIDE DEF q
  <2>4. HostOK(q)
    BY <1>p, <1>1, <2>1, <2>2, <2>3 DEF HostOK, GivenShape, PendingShape, CallsOpen, CallsAnswered,
     AtStart, InTool, InTurn, AtEnd
  <2> QED
    BY <2>3, <2>4 DEF q
<1>2. CASE AppendSession(h)
  <2>1. CASE /\ session' = Append(session, [by |-> "run", base |-> st.base, ids |-> st.asked])
             /\ Goto(h, [p EXCEPT !.pc = "appended"])
    <3> DEFINE q == [p EXCEPT !.pc = "appended"]
    <3>1. st.base \in Nat /\ st.asked \in SUBSET Calls
      BY <1>p DEF RunState
    <3>2. session' \in Seq([by : {"run", "other"}, base : Nat, ids : SUBSET Calls])
      BY <2>1, <3>1 DEF LocalInv, TypeOK
    <3>3. WorldOK'
      BY <1>2, <3>2 DEF AppendSession, LocalInv, TypeOK, WorldOK
    <3>4. q \in Processes /\ q.pc = "appended" /\ q.st = st /\ q.from = p.from /\ q.given = p.given
      BY <1>p DEF Processes, PCs
    <3> HIDE DEF q
    <3>5. HostOK(q)
      BY <1>2, <1>p, <3>4 DEF AppendSession, At, HostOK, GivenShape, PendingShape, CallsOpen, CallsAnswered,
       AtStart, InTool, InTurn, AtEnd
    <3> QED
      BY <2>1, <3>3, <3>5, GotoKeeps DEF q
  <2>2. CASE Throw(h, "error") /\ UNCHANGED session
    BY <1>2, <2>2, ThrowKeeps, WorldKept DEF AppendSession, LocalInv
  <2> QED
    BY <1>2, <2>1, <2>2 DEF AppendSession
<1>3. CASE SaveRevision(h)
  <2> DEFINE s == [st EXCEPT !.rev = st.rev + 1]
             r == [p EXCEPT !.pc = "afterRun"]
  <2>1. Save(h, s, r) /\ WorldOK' /\ p.pc \in AtEnd
    BY <1>3, WorldKept DEF SaveRevision, LocalInv, At, AtEnd
  <2>2. HostOK([r EXCEPT !.st = s]) /\ r \in Processes
    BY <1>1, <2>1
  <2> HIDE DEF s, r
  <2> QED
    BY <2>1, <2>2, SaveKeeps
<1>4. CASE SaveCompleted(h)
  <2> DEFINE s == [st EXCEPT !.status = "completed"]
             r == [p EXCEPT !.pc = "done"]
  <2>1. Save(h, s, r) /\ WorldOK' /\ p.pc \in AtEnd
    BY <1>4, WorldKept DEF SaveCompleted, LocalInv, At, AtEnd
  <2>2. HostOK([r EXCEPT !.st = s]) /\ r \in Processes
    BY <1>1, <2>1
  <2> HIDE DEF s, r
  <2> QED
    BY <2>1, <2>2, SaveKeeps
<1>5. ASSUME NEW s, StateOK(s), NEW status \in Statuses
      PROVE  StateOK([s EXCEPT !.status = status])
  <2> DEFINE u == [s EXCEPT !.status = status]
  <2>1. /\ u \in RunState /\ u.turn = s.turn /\ u.asked = s.asked /\ u.results = s.results
        /\ u.pending = s.pending
    BY <1>5 DEF StateOK, RunState
  <2> HIDE DEF u
  <2>2. StateOK(u)
    BY <1>5, <2>1 DEF StateOK
  <2> QED
    BY <2>2 DEF u
<1>6. CASE DeleteCheckpoint(h)
  <2>1. StateOK(ckpt)
    BY DEF LocalInv
  <2>2. /\ Store(h, ckpt) \/ UNCHANGED <<ckpt, stored, stale>>
        /\ proc' = [proc EXCEPT ![h] = Idle] /\ WorldOK'
    BY <1>6, WorldKept DEF DeleteCheckpoint, LocalInv
  <2> QED
    BY <2>1, <2>2, StoreKeeps
<1>7. CASE Settle(h)
  <2> DEFINE status == IF p.raised = "interrupt" THEN "interrupted"
                       ELSE IF p.aborted THEN "cancelled" ELSE "failed"
             s == [st EXCEPT !.status = status]
  <2>1. StateOK(s)
    BY <1>5, <1>p DEF Statuses
  <2>2. (Store(h, s) \/ UNCHANGED <<ckpt, stored, stale>>) /\ proc' = [proc EXCEPT ![h] = Idle] /\ WorldOK'
    BY <1>7, WorldKept DEF Settle, LocalInv
  <2> HIDE DEF s
  <2> QED
    BY <2>1, <2>2, StoreKeeps
<1> QED
  BY <1>2, <1>3, <1>4, <1>6, <1>7

LEMMA OtherTurnKeeps ==
  ASSUME LocalInv, OtherTurn
  PROVE  LocalInv'
<1>1. [by |-> "other", base |-> Len(session), ids |-> {}] \in [by : {"run", "other"}, base : Nat, ids : SUBSET Calls]
  BY DEF LocalInv, TypeOK
<1>2. session' \in Seq([by : {"run", "other"}, base : Nat, ids : SUBSET Calls])
  BY <1>1 DEF OtherTurn, LocalInv, TypeOK
<1>3. TypeOK' /\ ckpt' = ckpt /\ proc' = proc
  BY <1>2 DEF OtherTurn, LocalInv, TypeOK
<1> QED
  BY <1>3 DEF LocalInv

\* Every step is one of the world's or of a host's.
LEMMA NextSteps ==
  ASSUME Next
  PROVE  \/ OtherTurn
         \/ \E h \in Hosts :
              \/ HostStep(h)
              \/ LoadSession(h) \/ SaveInput(h) \/ ResumePending(h)
              \/ CallModel(h) \/ RunReadBatch(h)
              \/ OutOfTurns(h) \/ ReadBatchFails(h) \/ NextCall(h)
              \/ AppendSession(h) \/ SaveRevision(h) \/ SaveCompleted(h) \/ DeleteCheckpoint(h) \/ Settle(h)
              \/ AbortNoticed(h)
              \/ Prepare(h) \/ MarkStarted(h) \/ AwaitApproval(h)
              \/ Invoke(h) \/ ClearPending(h)
              \/ proc[h].pc \in {"running", "invoked"} /\ CommitResult(h)
  BY DEF Next, RunStep, ToolStep, ToolRefused, ToolSucceeds, ToolFails, At

LEMMA LocalInit == Init => LocalInv
<1> SUFFICES ASSUME Init PROVE LocalInv
  OBVIOUS
<1>1. TypeOK
  <2>1. Idle \in Processes /\ FreshState \in RunState
    BY FreshOK DEF HostOK, StateOK
  <2>2. proc \in [Hosts -> Processes] /\ ckpt \in RunState
    BY <2>1 DEF Init
  <2>3. session \in Seq([by : {"run", "other"}, base : Nat, ids : SUBSET Calls])
    BY DEF Init
  <2>4. executed \in [Calls -> Nat] /\ decision \in [Calls -> Decisions] /\ stale \in [Hosts -> BOOLEAN]
    BY DEF Init, Decisions
  <2> QED
    BY <2>2, <2>3, <2>4 DEF Init, TypeOK
<1> QED
  BY <1>1, FreshOK DEF Init, LocalInv

LEMMA LocalStep == LocalInv /\ [Next]_vars => LocalInv'
<1> SUFFICES ASSUME LocalInv, [Next]_vars PROVE LocalInv'
  OBVIOUS
<1>1. CASE UNCHANGED vars
  BY <1>1 DEF vars, LocalInv, TypeOK
<1>2. CASE Next
  <2>1. ASSUME NEW h \in Hosts, AbortNoticed(h) PROVE LocalInv'
    BY <2>1, ThrowKeeps, WorldKept DEF AbortNoticed, LocalInv
  <2> QED
    BY <1>2, <2>1, NextSteps, OtherTurnKeeps, HostStepKeeps, StartStepKeeps, CallModelKeeps, RunReadBatchKeeps,
       LoopStepKeeps, EndStepKeeps, PendingStepKeeps, InvokeKeeps, ClearPendingKeeps, CommitResultKeeps
<1> QED
  BY <1>1, <1>2

\* For any number of hosts, whatever fails and whoever resumes, every variable
\* keeps a value of its kind.
THEOREM TypeCorrect == Spec => []TypeOK
<1>1. LocalInv => TypeOK
  BY DEF LocalInv
<1> QED
  BY LocalInit, LocalStep, <1>1, PTL DEF Spec

\* A tool result enters the transcript once, even when a committed result is
\* found again by resumePendingTool() and even when two hosts execute the run.
THEOREM ResultsNotRepeated == Spec => []OneResultPerCall
<1>1. LocalInv => OneResultPerCall
  BY DEF LocalInv, HostOK, StateOK, OneResultPerCall
<1> QED
  BY LocalInit, LocalStep, <1>1, PTL DEF Spec

\* Within one execution the model is asked again only when every call it made
\* in that execution has its result.
THEOREM ModelAnswered == Spec => []ModelSeesItsResults
<1>1. LocalInv => ModelSeesItsResults
  BY DEF LocalInv, HostOK, CallsAnswered, ModelSeesItsResults, At
<1> QED
  BY LocalInit, LocalStep, <1>1, PTL DEF Spec

-----------------------------------------------------------------------------
(* CommitInv *)

LEMMA GotoBase ==
  ASSUME LocalInv, BaseOK, NoCommit' => NoCommit, NEW h \in Hosts, NEW p,
         NoCommit => BaseHost(p), Goto(h, p)
  PROVE  BaseOK'
<1>1. \A g \in Hosts : proc'[g] = IF g = h THEN p ELSE proc[g]
  BY DEF LocalInv, TypeOK, Goto
<1>2. NoCommit => \A g \in Hosts : BaseHost(proc'[g])
  BY <1>1 DEF BaseOK
<1>3. NoCommit => BaseState(ckpt')
  BY DEF BaseOK, Goto
<1> QED
  BY <1>2, <1>3 DEF BaseOK

LEMMA SaveBase ==
  ASSUME LocalInv, BaseOK, UNCHANGED session, NEW h \in Hosts, NEW st, NEW p \in Processes,
         NoCommit => BaseHost([p EXCEPT !.st = st]), Save(h, st, p)
  PROVE  BaseOK'
<1> DEFINE q == [p EXCEPT !.st = st]
           r == [p EXCEPT !.st = st, !.pc = "catch", !.raised = "error"]
<1>1. q.st = st /\ r.st = st /\ r.pc = "catch"
  BY DEF Processes
<1>2. NoCommit' <=> NoCommit
  BY DEF NoCommit
<1>3. CASE proc' = [proc EXCEPT ![h] = q] /\ Store(h, st)
  <2>1. \A g \in Hosts : proc'[g] = IF g = h THEN q ELSE proc[g]
    BY <1>3 DEF LocalInv, TypeOK
  <2> HIDE DEF q
  <2>2. NoCommit => \A g \in Hosts : BaseHost(proc'[g])
    BY <2>1 DEF BaseOK, q
  <2>3. NoCommit => BaseState(ckpt')
    BY <1>1, <1>3 DEF BaseHost, Store, q
  <2> QED
    BY <1>2, <2>2, <2>3 DEF BaseOK
<1>4. CASE Goto(h, r)
  <2>1. NoCommit => BaseHost(r)
    BY <1>1 DEF BaseHost
  <2> QED
    BY <1>2, <1>4, <2>1, GotoBase
<1> QED
  BY <1>3, <1>4 DEF Save

LEMMA ThrowBase ==
  ASSUME LocalInv, BaseOK, UNCHANGED session, NEW h \in Hosts, NEW w, Throw(h, w)
  PROVE  BaseOK'
<1> DEFINE q == [proc[h] EXCEPT !.pc = "catch", !.raised = w]
<1>1. q.pc = "catch" /\ q.st = proc[h].st
  BY DEF LocalInv, HostOK, Processes
<1>2. NoCommit => BaseHost(q)
  BY <1>1 DEF BaseHost, BaseOK
<1>3. NoCommit' => NoCommit
  BY DEF NoCommit
<1> QED
  BY <1>2, <1>3, GotoBase DEF Throw

LEMMA IdleBase == BaseHost(Idle) /\ BaseState(FreshState)
  BY DEF BaseHost, BaseState, Idle, FreshState

LEMMA StoreBase ==
  ASSUME LocalInv, BaseOK, UNCHANGED session, NEW h \in Hosts, NEW st, NoCommit => BaseState(st),
         proc' = [proc EXCEPT ![h] = Idle],
         Store(h, st) \/ UNCHANGED <<ckpt, stored, stale>>
  PROVE  BaseOK'
<1>1. \A g \in Hosts : proc'[g] = IF g = h THEN Idle ELSE proc[g]
  BY DEF LocalInv, TypeOK
<1>2. NoCommit => \A g \in Hosts : BaseHost(proc'[g])
  BY <1>1, IdleBase DEF BaseOK
<1>3. NoCommit => BaseState(ckpt')
  BY DEF BaseOK, Store
<1>4. NoCommit' => NoCommit
  BY DEF NoCommit
<1> QED
  BY <1>2, <1>3, <1>4 DEF BaseOK

LEMMA HostStepBase ==
  ASSUME LocalInv, BaseOK, NEW h \in Hosts, HostStep(h)
  PROVE  BaseOK'
<1> DEFINE p == proc[h]
<1>p. p \in Processes /\ (NoCommit => BaseHost(p)) /\ (NoCommit' => NoCommit) /\ UNCHANGED session
  BY DEF LocalInv, HostOK, BaseOK, NoCommit, HostStep, Start, Resume, Cancel, Crash, Fail
<1>1. CASE Start(h)
  <2> DEFINE q == [Idle EXCEPT !.pc = "load"]
  <2>1. q.pc = "load" /\ q.st = FreshState
    BY DEF Idle
  <2>2. BaseHost(q)
    BY <2>1, IdleBase DEF BaseHost
  <2> QED
    BY <1>1, <1>p, <2>2, GotoBase DEF Start
<1>2. CASE Resume(h)
  <2>1. PICK d : proc' = [proc EXCEPT ![h] = [Idle EXCEPT !.pc = "load", !.st = Restored(ckpt),
                                                          !.from = ckpt.turn, !.given = d]]
    BY <1>2 DEF Resume
  <2> DEFINE q == [Idle EXCEPT !.pc = "load", !.st = Restored(ckpt), !.from = ckpt.turn, !.given = d]
  <2>2. q.pc = "load" /\ q.st = Restored(ckpt)
    BY DEF Idle
  <2>3. Restored(ckpt).turn = ckpt.turn /\ Restored(ckpt).base = ckpt.base /\ Restored(ckpt).rev = ckpt.rev
    BY DEF LocalInv, TypeOK, RunState, Restored
  <2>4. NoCommit => BaseHost(q)
    BY <2>2, <2>3 DEF BaseHost, BaseState, BaseOK
  <2>5. \A g \in Hosts : proc'[g] = IF g = h THEN q ELSE proc[g]
    BY <2>1 DEF LocalInv, TypeOK
  <2>6. NoCommit => \A g \in Hosts : BaseHost(proc'[g])
    BY <2>4, <2>5 DEF BaseOK
  <2>7. ckpt' = ckpt
    BY <1>2 DEF Resume
  <2> QED
    BY <1>p, <2>6, <2>7 DEF BaseOK
<1>3. CASE Cancel(h)
  <2> DEFINE q == [p EXCEPT !.aborted = TRUE]
  <2>1. q.pc = p.pc /\ q.st = p.st
    BY <1>p DEF Processes
  <2>2. NoCommit => BaseHost(q)
    BY <1>p, <2>1 DEF BaseHost
  <2> QED
    BY <1>3, <1>p, <2>2, GotoBase DEF Cancel
<1>4. CASE Crash(h)
  BY <1>4, <1>p, IdleBase, GotoBase DEF Crash
<1>5. CASE Fail(h)
  BY <1>5, <1>p, ThrowBase DEF Fail
<1> QED
  BY <1>1, <1>2, <1>3, <1>4, <1>5 DEF HostStep

\* Between the input and the commit no step touches the base or the revision.
Midway(h) == proc[h].pc \notin {"idle", "load", "input", "catch"}

LEMMA SaveMid ==
  ASSUME LocalInv, BaseOK, UNCHANGED session, NEW h \in Hosts, Midway(h), NEW st, NEW p \in Processes,
         st.base = proc[h].st.base, st.rev = proc[h].st.rev, p.pc # "appended", Save(h, st, p)
  PROVE  BaseOK'
<1>1. [p EXCEPT !.st = st].st = st /\ [p EXCEPT !.st = st].pc = p.pc
  BY DEF Processes
<1>2. NoCommit => BaseHost([p EXCEPT !.st = st])
  BY <1>1 DEF BaseHost, BaseState, BaseOK, Midway
<1> QED
  BY <1>2, SaveBase

LEMMA GotoMid ==
  ASSUME LocalInv, BaseOK, UNCHANGED session, NEW h \in Hosts, Midway(h), NEW p,
         p.st = proc[h].st, p.pc # "appended", Goto(h, p)
  PROVE  BaseOK'
<1>1. NoCommit => BaseHost(p)
  BY DEF BaseHost, BaseState, BaseOK, Midway
<1>2. NoCommit' => NoCommit
  BY DEF NoCommit
<1> QED
  BY <1>1, <1>2, GotoBase

LEMMA StartStepBase ==
  ASSUME LocalInv, BaseOK, NEW h \in Hosts, LoadSession(h) \/ SaveInput(h) \/ ResumePending(h)
  PROVE  BaseOK'
<1> DEFINE p == proc[h]
           st == p.st
           pend == st.pending
<1>p. /\ p \in Processes /\ st \in RunState /\ st.turn \in Nat /\ (NoCommit => BaseHost(p)) /\ UNCHANGED session
      /\ NoCommit' => NoCommit
  <2>1. p \in Processes /\ st \in RunState /\ (NoCommit => BaseHost(p))
    BY DEF LocalInv, HostOK, StateOK, BaseOK
  <2>2. st.turn \in Nat
    BY <2>1, BoundsAssumption DEF RunState
  <2>3. UNCHANGED session
    BY DEF LoadSession, SaveInput, ResumePending
  <2> QED
    BY <2>1, <2>2, <2>3 DEF NoCommit
<1>g. ASSUME NEW pc \in PCs, NEW given \in Decisions
      PROVE  /\ [p EXCEPT !.pc = pc] \in Processes
             /\ [p EXCEPT !.pc = pc].pc = pc /\ [p EXCEPT !.pc = pc].st = st
             /\ [p EXCEPT !.pc = pc, !.given = given] \in Processes
             /\ [p EXCEPT !.pc = pc, !.given = given].pc = pc /\ [p EXCEPT !.pc = pc, !.given = given].st = st
  BY <1>p DEF Processes
<1>1. CASE LoadSession(h)
  <2>1. CASE st.turn = 0 /\ Save(h, [st EXCEPT !.rev = Len(session)], [p EXCEPT !.pc = "input"])
    <3> DEFINE s == [st EXCEPT !.rev = Len(session)]
               r == [p EXCEPT !.pc = "input"]
    <3>1. s.turn = 0 /\ r \in Processes /\ r.pc = "input"
      BY <1>p, <1>g, <2>1 DEF RunState, PCs, Decisions
    <3> HIDE DEF s, r
    <3>2. [r EXCEPT !.st = s].st = s /\ [r EXCEPT !.st = s].pc = "input"
      BY <3>1 DEF Processes
    <3>3. BaseHost([r EXCEPT !.st = s])
      BY <3>1, <3>2 DEF BaseHost, BaseState
    <3> QED
      BY <1>p, <2>1, <3>1, <3>3, SaveBase DEF s, r
  <2>2. CASE st.turn > 0 /\ Goto(h, [p EXCEPT !.pc = "resume"])
    <3>1. NoCommit => BaseHost([p EXCEPT !.pc = "resume"])
      BY <1>p, <1>g, <2>2 DEF PCs, Decisions, BaseHost, BaseState
    <3> QED
      BY <1>p, <2>2, <3>1, GotoBase
  <2>3. CASE Throw(h, "error")
    BY <1>p, <2>3, ThrowBase
  <2> QED
    BY <1>1, <2>1, <2>2, <2>3 DEF LoadSession
<1>2. CASE SaveInput(h)
  <2> DEFINE s == [st EXCEPT !.base = st.rev]
             r == [p EXCEPT !.pc = "resume"]
  <2>1. s.base = s.rev /\ r \in Processes /\ r.pc = "resume" /\ Save(h, s, r)
    BY <1>p, <1>g, <1>2 DEF RunState, PCs, Decisions, SaveInput
  <2> HIDE DEF s, r
  <2>2. [r EXCEPT !.st = s].st = s /\ [r EXCEPT !.st = s].pc = "resume"
    BY <2>1 DEF Processes
  <2>3. BaseHost([r EXCEPT !.st = s])
    BY <2>1, <2>2 DEF BaseHost, BaseState
  <2> QED
    BY <1>p, <2>1, <2>3, SaveBase
<1>3. CASE ResumePending(h)
  <2> DEFINE toModel == [p EXCEPT !.pc = "model", !.given = "none"]
             toPrepare == [p EXCEPT !.pc = "prepare"]
             cleared == [st EXCEPT !.pending = NoPending]
  <2>m. Midway(h)
    BY <1>3 DEF ResumePending, At, Midway
  <2>1. toModel \in Processes /\ toModel.pc = "model" /\ toModel.st = st
    BY <1>g DEF PCs, Decisions
  <2>2. toPrepare \in Processes /\ toPrepare.pc = "prepare" /\ toPrepare.st = st
    BY <1>g DEF PCs, Decisions
  <2>3. cleared.base = st.base /\ cleared.rev = st.rev
    BY <1>p DEF RunState
  <2>4. /\ AddResult(cleared, pend.call).base = st.base /\ AddResult(cleared, pend.call).rev = st.rev
        /\ CompleteCommitted(st).base = st.base /\ CompleteCommitted(st).rev = st.rev
    BY <1>p DEF RunState, AddResult, CompleteCommitted
  <2>5. /\ [st EXCEPT !.pending = [pend EXCEPT !.status = "prepared"]].base = st.base
        /\ [st EXCEPT !.pending = [pend EXCEPT !.status = "prepared"]].rev = st.rev
    BY <1>p DEF RunState
  <2>6. \/ Goto(h, toModel) \/ Goto(h, toPrepare) \/ Throw(h, "interrupt")
        \/ Save(h, CompleteCommitted(st), toModel) \/ Save(h, AddResult(cleared, pend.call), toModel)
        \/ Save(h, [st EXCEPT !.pending = [pend EXCEPT !.status = "prepared"]], toPrepare)
    BY <1>3 DEF ResumePending
  <2> HIDE DEF toModel, toPrepare, cleared
  <2> QED
    BY <1>p, <2>m, <2>1, <2>2, <2>4, <2>5, <2>6, ThrowBase, GotoMid, SaveMid
<1> QED
  BY <1>1, <1>2, <1>3

LEMMA LoopStepBase ==
  ASSUME LocalInv, BaseOK, NEW h \in Hosts,
         CallModel(h) \/ RunReadBatch(h) \/ OutOfTurns(h) \/ ReadBatchFails(h) \/ NextCall(h)
  PROVE  BaseOK'
<1> DEFINE p == proc[h]
           st == p.st
<1>p. p \in Processes /\ st \in RunState /\ p.calls \in Seq(Calls) /\ UNCHANGED session
  BY DEF LocalInv, HostOK, StateOK, Processes, CallModel, RunReadBatch, OutOfTurns, ReadBatchFails, NextCall
<1>m. Midway(h)
  BY DEF CallModel, RunReadBatch, OutOfTurns, ReadBatchFails, NextCall, At, Midway
<1>1. CASE CallModel(h)
  <2> DEFINE turn == st.turn + 1
             s(calls) == [st EXCEPT !.turn = turn, !.asked = @ \union Range(calls)]
             r(n, calls) == [p EXCEPT !.pc = IF n = 0 THEN "finalize" ELSE "tools", !.calls = calls]
  <2>a. PICK n \in 0..MaxCalls : \E tools \in [1..n -> Tools] :
          Save(h, s(ResponseCalls(turn, tools)), r(n, ResponseCalls(turn, tools)))
    BY <1>1 DEF CallModel
  <2>1. PICK tools \in [1..n -> Tools] :
          Save(h, s(ResponseCalls(turn, tools)), r(n, ResponseCalls(turn, tools)))
    BY <2>a
  <2> DEFINE calls == ResponseCalls(turn, tools)
  <2>2. calls \in Seq(Calls)
    <3>1. turn \in 1..MaxTurns
      <4>1. st.turn \in 0..MaxTurns /\ st.turn < MaxTurns
        BY <1>1, <1>p DEF CallModel, TurnsLeft, RunState
      <4> QED
        BY <4>1, BoundsAssumption
    <3> HIDE DEF turn
    <3> QED
      BY <3>1, BoundsAssumption DEF ResponseCalls, Calls
  <2> HIDE DEF calls
  <2>3. s(calls).base = st.base /\ s(calls).rev = st.rev
    BY <1>p DEF RunState
  <2>4. r(n, calls) \in Processes /\ r(n, calls).pc # "appended"
    BY <1>p, <2>2 DEF Processes, PCs
  <2>5. Save(h, s(calls), r(n, calls))
    BY <2>1 DEF calls
  <2> HIDE DEF s, r
  <2> QED
    BY <1>p, <1>m, <2>3, <2>4, <2>5, SaveMid
<1>2. CASE RunReadBatch(h)
  <2> DEFINE n == Batch(p.calls)
             batch == Range(SubSeq(p.calls, 1, n))
             counted(f) == [c \in Calls |-> IF c \in batch THEN f[c] + 1 ELSE f[c]]
             s == [st EXCEPT !.results = counted(st.results)]
             r == [p EXCEPT !.calls = SubSeq(p.calls, n + 1, Len(p.calls))]
  <2>1. Save(h, s, r)
    BY <1>2 DEF RunReadBatch
  <2>2. s.base = st.base /\ s.rev = st.rev
    BY <1>p DEF RunState
  <2>3. n \in 0..Len(p.calls)
    BY <1>p, BatchProperties
  <2> HIDE DEF n
  <2>4. SubSeq(p.calls, n + 1, Len(p.calls)) \in Seq(Calls)
    BY <1>p, <2>3
  <2>5. r \in Processes /\ r.pc = "tools"
    BY <1>2, <1>p, <2>4 DEF Processes, RunReadBatch, At
  <2> HIDE DEF s, r
  <2> QED
    BY <1>p, <1>m, <2>1, <2>2, <2>5, SaveMid
<1>3. CASE OutOfTurns(h) \/ ReadBatchFails(h)
  BY <1>3, <1>p, ThrowBase DEF OutOfTurns, ReadBatchFails
<1>4. CASE NextCall(h)
  <2>1. ASSUME NEW pc \in {"model", "prepare"}
        PROVE  [p EXCEPT !.pc = pc].st = st /\ [p EXCEPT !.pc = pc].pc # "appended"
    BY <1>p DEF Processes
  <2>2. Goto(h, [p EXCEPT !.pc = "model"]) \/ Goto(h, [p EXCEPT !.pc = "prepare"])
    BY <1>4 DEF NextCall
  <2> QED
    BY <1>p, <1>m, <2>1, <2>2, GotoMid
<1> QED
  BY <1>1, <1>2, <1>3, <1>4

LEMMA ToolStepBase ==
  ASSUME LocalInv, BaseOK, NEW h \in Hosts,
         \/ Prepare(h) \/ MarkStarted(h) \/ AwaitApproval(h) \/ Invoke(h) \/ ClearPending(h)
         \/ proc[h].pc \in {"running", "invoked"} /\ CommitResult(h)
  PROVE  BaseOK'
<1> DEFINE p == proc[h]
           st == p.st
<1>p. p \in Processes /\ st \in RunState /\ p.calls \in Seq(Calls) /\ UNCHANGED session /\ HostOK(p)
  BY DEF LocalInv, HostOK, StateOK, Processes, Prepare, MarkStarted, AwaitApproval, Invoke, ClearPending, CommitResult
<1>m. Midway(h)
  BY DEF Prepare, MarkStarted, AwaitApproval, Invoke, ClearPending, At, Midway
<1>1. ASSUME NEW pend
      PROVE  [st EXCEPT !.pending = pend].base = st.base /\ [st EXCEPT !.pending = pend].rev = st.rev
  BY <1>p DEF RunState
<1>2. ASSUME NEW pc \in PCs, pc # "appended", NEW raised \in {"none", "interrupt", "error"}
      PROVE  /\ [p EXCEPT !.pc = pc] \in Processes
             /\ [p EXCEPT !.pc = pc].pc = pc /\ [p EXCEPT !.pc = pc].st = st
             /\ [p EXCEPT !.pc = pc, !.raised = raised] \in Processes
             /\ [p EXCEPT !.pc = pc, !.raised = raised].pc = pc
  BY <1>p, <1>2 DEF Processes
<1>3. CASE Prepare(h)
  <2> DEFINE s == [st EXCEPT !.pending = [status |-> "prepared", call |-> Current(h), asksUser |-> FALSE]]
             r == [p EXCEPT !.pc = "before"]
  <2>1. Save(h, s, r) /\ s.base = st.base /\ s.rev = st.rev /\ r \in Processes /\ r.pc = "before"
    BY <1>1, <1>2, <1>3 DEF Prepare, PCs
  <2> HIDE DEF s, r
  <2> QED
    BY <1>p, <1>m, <2>1, SaveMid
<1>4. CASE MarkStarted(h)
  <2> DEFINE s == [st EXCEPT !.pending = [@ EXCEPT !.status = "started"]]
             r == [p EXCEPT !.pc = "running"]
  <2>1. Save(h, s, r) /\ s.base = st.base /\ s.rev = st.rev /\ r \in Processes /\ r.pc = "running"
    BY <1>p, <1>2, <1>4 DEF MarkStarted, PCs, RunState
  <2> HIDE DEF s, r
  <2> QED
    BY <1>p, <1>m, <2>1, SaveMid
<1>5. CASE AwaitApproval(h)
  <2> DEFINE s == [st EXCEPT !.pending = [@ EXCEPT !.status = "awaiting_approval", !.asksUser = TRUE]]
             r == [p EXCEPT !.pc = "catch", !.raised = "interrupt"]
  <2>1. Save(h, s, r) /\ s.base = st.base /\ s.rev = st.rev /\ r \in Processes /\ r.pc = "catch"
    BY <1>p, <1>2, <1>5 DEF AwaitApproval, PCs, RunState
  <2> HIDE DEF s, r
  <2> QED
    BY <1>p, <1>m, <2>1, SaveMid
<1>6. CASE Invoke(h)
  <2>1. [p EXCEPT !.pc = "invoked"].st = st /\ [p EXCEPT !.pc = "invoked"].pc # "appended"
    BY <1>2 DEF PCs
  <2> QED
    BY <1>p, <1>m, <1>6, <2>1, GotoMid DEF Invoke
<1>7. CASE ClearPending(h)
  <2> DEFINE s == [st EXCEPT !.pending = NoPending]
             r == IF p.given = "approve" THEN [p EXCEPT !.pc = "model", !.given = "none"]
                  ELSE [p EXCEPT !.pc = "tools", !.calls = Tail(@)]
  <2>1. p.given # "approve" => Tail(p.calls) \in Seq(Calls)
    <3>1. p.given # "approve" => p.calls # << >>
      BY <1>p, <1>7 DEF HostOK, GivenShape, InTool, ClearPending, At
    <3> QED
      BY <1>p, <3>1
  <2>2. Save(h, s, r) /\ s.base = st.base /\ s.rev = st.rev
    BY <1>1, <1>7 DEF ClearPending
  <2>3. r \in Processes /\ r.pc # "appended"
    BY <1>p, <2>1 DEF Processes, PCs, Decisions
  <2> HIDE DEF s, r
  <2> QED
    BY <1>p, <1>m, <2>2, <2>3, SaveMid
<1>8. CASE p.pc \in {"running", "invoked"} /\ CommitResult(h)
  <2> DEFINE s == [AddResult(st, Current(h)) EXCEPT !.pending = [@ EXCEPT !.status = "committed"]]
             r == [p EXCEPT !.pc = "committed"]
  <2>1. Save(h, s, r) /\ s.base = st.base /\ s.rev = st.rev /\ r \in Processes /\ r.pc = "committed" /\ Midway(h)
    BY <1>p, <1>2, <1>8 DEF CommitResult, PCs, RunState, AddResult, Midway
  <2> HIDE DEF s, r
  <2> QED
    BY <1>p, <2>1, SaveMid
<1> QED
  BY <1>3, <1>4, <1>5, <1>6, <1>7, <1>8

LEMMA EndStepBase ==
  ASSUME LocalInv, BaseOK, NEW h \in Hosts,
         AppendSession(h) \/ SaveRevision(h) \/ SaveCompleted(h) \/ DeleteCheckpoint(h) \/ Settle(h)
  PROVE  BaseOK'
<1> DEFINE p == proc[h]
           st == p.st
<1>p. p \in Processes /\ st \in RunState /\ ckpt \in RunState /\ (NoCommit => BaseHost(p) /\ BaseState(ckpt))
  BY DEF LocalInv, TypeOK, HostOK, StateOK, BaseOK
<1>1. CASE AppendSession(h)
  <2>1. CASE session' = Append(session, [by |-> "run", base |-> st.base, ids |-> st.asked])
    <3>1. Len(session) + 1 \in DOMAIN session' /\ session'[Len(session) + 1].by = "run"
      BY <2>1 DEF LocalInv, TypeOK
    <3>2. ~ NoCommit'
      BY <3>1 DEF NoCommit
    <3> QED
      BY <3>2 DEF BaseOK
  <2>2. CASE Throw(h, "error") /\ UNCHANGED session
    BY <2>2, ThrowBase
  <2> QED
    BY <1>1, <2>1, <2>2 DEF AppendSession
<1>2. CASE SaveRevision(h)
  <2>1. ~ NoCommit' /\ UNCHANGED session
    BY <1>2, <1>p DEF SaveRevision, At, NoCommit, BaseHost
  <2> QED
    BY <2>1 DEF BaseOK
<1>3. CASE SaveCompleted(h)
  <2> DEFINE s == [st EXCEPT !.status = "completed"]
             r == [p EXCEPT !.pc = "done"]
  <2>1. Save(h, s, r) /\ UNCHANGED session /\ Midway(h)
    BY <1>3 DEF SaveCompleted, Midway, At
  <2>2. s.base = st.base /\ s.rev = st.rev /\ r \in Processes /\ r.pc = "done"
    BY <1>p DEF RunState, Processes, PCs
  <2> HIDE DEF s, r
  <2> QED
    BY <2>1, <2>2, SaveMid
<1>4. CASE DeleteCheckpoint(h)
  <2>1. /\ Store(h, ckpt) \/ UNCHANGED <<ckpt, stored, stale>>
        /\ proc' = [proc EXCEPT ![h] = Idle] /\ UNCHANGED session
    BY <1>4 DEF DeleteCheckpoint
  <2>2. NoCommit => BaseState(ckpt)
    BY <1>p
  <2> QED
    BY <2>1, <2>2, StoreBase
<1>5. CASE Settle(h)
  <2> DEFINE status == IF p.raised = "interrupt" THEN "interrupted"
                       ELSE IF p.aborted THEN "cancelled" ELSE "failed"
             s == [st EXCEPT !.status = status]
  <2>1. s.base = st.base /\ s.rev = st.rev /\ s.turn = st.turn
    BY <1>p DEF RunState
  <2>2. (Store(h, s) \/ UNCHANGED <<ckpt, stored, stale>>) /\ proc' = [proc EXCEPT ![h] = Idle] /\ UNCHANGED session
    BY <1>5 DEF Settle
  <2> HIDE DEF s
  <2>3. NoCommit => BaseState(s)
    BY <1>p, <2>1 DEF BaseHost, BaseState
  <2> QED
    BY <2>2, <2>3, StoreBase
<1> QED
  BY <1>1, <1>2, <1>3, <1>4, <1>5

LEMMA BaseStep == LocalInv /\ BaseOK /\ [Next]_vars => BaseOK'
<1> SUFFICES ASSUME LocalInv, BaseOK, [Next]_vars PROVE BaseOK'
  OBVIOUS
<1>1. CASE UNCHANGED vars
  BY <1>1 DEF vars, BaseOK, NoCommit
<1>2. CASE Next
  <2>1. ASSUME NEW h \in Hosts, AbortNoticed(h) PROVE BaseOK'
    BY <2>1, ThrowBase DEF AbortNoticed
  <2>2. ASSUME OtherTurn PROVE BaseOK'
    <3>1. NoCommit' => NoCommit
      <4> SUFFICES ASSUME NoCommit', NEW i \in DOMAIN session PROVE session[i].by # "run"
        BY DEF NoCommit
      <4>1. i \in DOMAIN session' /\ session'[i] = session[i]
        BY <2>2 DEF OtherTurn, LocalInv, TypeOK
      <4> QED
        BY <4>1 DEF NoCommit
    <3> QED
      BY <2>2, <3>1 DEF BaseOK, OtherTurn
  <2> QED
    BY <1>2, <2>1, <2>2, NextSteps, HostStepBase, StartStepBase, LoopStepBase, ToolStepBase, EndStepBase
<1> QED
  BY <1>1, <1>2

\* Only an append changes the session, and ours is accepted at its revision.
LEMMA CommitStep == LocalInv /\ CommitInv /\ [Next]_vars => CommitInv'
<1> SUFFICES ASSUME LocalInv, CommitInv, [Next]_vars PROVE CommitsOnTopOfItsHistory'
  BY BaseStep DEF CommitInv
<1>1. ASSUME NEW t, session' = Append(session, t),
             t.by = "run" => (NoCommit => t.base = Len(session))
      PROVE  CommitsOnTopOfItsHistory'
  <2>1. /\ DOMAIN session' = 1..(Len(session) + 1) /\ session'[Len(session) + 1] = t
        /\ DOMAIN session = 1..Len(session) /\ Len(session) \in Nat
        /\ \A i \in DOMAIN session : session'[i] = session[i]
    BY <1>1 DEF LocalInv, TypeOK
  <2> SUFFICES ASSUME NEW i \in DOMAIN session', session'[i].by = "run",
                      \A j \in 1..(i - 1) : session'[j].by # "run"
               PROVE  session'[i].base = i - 1
    BY DEF CommitsOnTopOfItsHistory
  <2>2. CASE i \in DOMAIN session
    <3>1. \A j \in 1..(i - 1) : j \in DOMAIN session
      BY <2>1, <2>2
    <3> QED
      BY <2>1, <2>2, <3>1 DEF CommitInv, CommitsOnTopOfItsHistory
  <2>3. CASE i = Len(session) + 1
    <3>1. NoCommit
      BY <2>1, <2>3 DEF NoCommit
    <3> QED
      BY <1>1, <2>1, <2>3, <3>1
  <2> QED
    BY <2>1, <2>2, <2>3
<1>2. CASE UNCHANGED session
  BY <1>2 DEF CommitInv, CommitsOnTopOfItsHistory
<1>3. CASE OtherTurn
  BY <1>1, <1>3 DEF OtherTurn
<1>4. ASSUME NEW h \in Hosts, AppendSession(h)
      PROVE  CommitsOnTopOfItsHistory'
  <2> DEFINE st == proc[h].st
             t == [by |-> "run", base |-> st.base, ids |-> st.asked]
  <2>1. CASE Accepted(st) /\ session' = Append(session, t)
    <3>1. NoCommit => st.base = st.rev
      BY <1>4 DEF CommitInv, BaseOK, BaseHost, AppendSession, At
    <3>2. st.rev = Len(session) /\ t.base = st.base
      BY <2>1 DEF Accepted
    <3> HIDE DEF t
    <3> QED
      BY <1>1, <2>1, <3>1, <3>2
  <2> QED
    BY <1>2, <1>4, <2>1 DEF AppendSession
<1>5. \/ UNCHANGED session \/ OtherTurn \/ \E h \in Hosts : AppendSession(h)
  <2>1. ASSUME NEW h \in Hosts, HostStep(h) PROVE UNCHANGED session
    BY <2>1 DEF HostStep, Start, Resume, Cancel, Crash, Fail
  <2>2. ASSUME NEW h \in Hosts, ToolStep(h) PROVE UNCHANGED session
    <3>1. Prepare(h) \/ MarkStarted(h) \/ AwaitApproval(h) \/ Invoke(h) => UNCHANGED session
      BY DEF Prepare, MarkStarted, AwaitApproval, Invoke
    <3>2. ToolRefused(h) \/ ToolSucceeds(h) \/ ToolFails(h) \/ ClearPending(h) => UNCHANGED session
      BY DEF ToolRefused, ToolSucceeds, ToolFails, CommitResult, ClearPending
    <3> QED
      BY <2>2, <3>1, <3>2 DEF ToolStep
  <2>3. ASSUME NEW h \in Hosts, RunStep(h) PROVE UNCHANGED session \/ AppendSession(h)
    <3>1. LoadSession(h) \/ SaveInput(h) \/ ResumePending(h) => UNCHANGED session
      BY DEF LoadSession, SaveInput, ResumePending
    <3>2. CallModel(h) \/ OutOfTurns(h) \/ NextCall(h) => UNCHANGED session
      BY DEF CallModel, OutOfTurns, NextCall
    <3>3. RunReadBatch(h) \/ ReadBatchFails(h) => UNCHANGED session
      BY DEF RunReadBatch, ReadBatchFails
    <3>4. SaveRevision(h) \/ SaveCompleted(h) \/ DeleteCheckpoint(h) \/ AbortNoticed(h) \/ Settle(h)
            => UNCHANGED session
      BY DEF SaveRevision, SaveCompleted, DeleteCheckpoint, AbortNoticed, Settle
    <3> QED
      BY <2>3, <3>1, <3>2, <3>3, <3>4 DEF RunStep
  <2> QED
    BY <2>1, <2>2, <2>3 DEF Next, vars
<1> QED
  BY <1>2, <1>3, <1>4, <1>5

\* For any number of hosts and of turns other runs commit in between, the first
\* turn this run commits sits directly on the history its transcript was built
\* from.
THEOREM CommitsOnTop == Spec => []CommitsOnTopOfItsHistory
<1>1. Init => CommitInv
  <2> SUFFICES ASSUME Init PROVE CommitInv
    OBVIOUS
  <2>1. \A h \in Hosts : proc[h] = Idle
    BY DEF Init
  <2> QED
    BY <2>1, IdleBase DEF Init, CommitInv, BaseOK, CommitsOnTopOfItsHistory
<1>2. CommitInv => CommitsOnTopOfItsHistory
  BY DEF CommitInv
<1> QED
  BY LocalInit, LocalStep, <1>1, CommitStep, <1>2, PTL DEF Spec

-----------------------------------------------------------------------------
(* SingleInv *)

Grows == stored => Extends(ckpt', ckpt)

LEMMA RecordTypes ==
  ASSUME NEW s \in RunState
  PROVE  /\ s.turn \in Nat /\ s.asked \subseteq Calls /\ s.results \in [Calls -> Nat]
         /\ s.pending \in PendingTool \union {NoPending}
  BY BoundsAssumption DEF RunState

LEMMA ExtendsItself ==
  ASSUME NEW s \in RunState, NEW t \in RunState, SameRecord(s, t)
  PROVE  Extends(s, t)
  BY RecordTypes DEF Extends, SameRecord

LEMMA ExtendsTransitive ==
  ASSUME NEW s \in RunState, NEW t \in RunState, NEW u \in RunState, Extends(s, t), Extends(t, u)
  PROVE  Extends(s, u)
<1>1. /\ s.turn \in Nat /\ t.turn \in Nat /\ u.turn \in Nat
      /\ s.results \in [Calls -> Nat] /\ t.results \in [Calls -> Nat] /\ u.results \in [Calls -> Nat]
  BY RecordTypes
<1>2. \A c \in Calls : s.results[c] >= u.results[c]
  <2> TAKE c \in Calls
  <2>1. s.results[c] >= t.results[c] /\ t.results[c] >= u.results[c]
    BY DEF Extends
  <2> QED
    BY <1>1, <2>1
<1> QED
  BY <1>1, <1>2 DEF Extends

LEMMA IdleSafe ==
  ASSUME NEW p, p.pc = "idle", NEW ran, NEW dec, NEW ck, NEW has
  PROVE  HostSafe(p, ran, dec) /\ HostSync(p, ck, has)
  BY DEF HostSafe, NotRunYet, Approved, HostSync, AtStart, InTool, InTurn

\* While one host moves, the others are idle: what is shown of the moving host
\* and of the store is all there is to show.
LEMMA OneMoves ==
  ASSUME LocalInv, NEW h \in Hosts, \A g \in Hosts \ {h} : At(g, "idle"), NEW q,
         proc' = [proc EXCEPT ![h] = q], StoreSafe',
         HostSafe(q, executed', decision'), HostSync(q, ckpt', stored')
  PROVE  SingleInv'
<1>1. \A g \in Hosts : proc'[g] = IF g = h THEN q ELSE proc[g]
  BY DEF LocalInv, TypeOK
<1>2. \A g \in Hosts \ {h} : proc'[g].pc = "idle"
  BY <1>1 DEF At
<1>3. OneHost'
  BY <1>2 DEF OneHost, At
<1>4. \A g \in Hosts : HostSafe(proc'[g], executed', decision') /\ HostSync(proc'[g], ckpt', stored')
  BY <1>1, <1>2, IdleSafe
<1> QED
  BY <1>3, <1>4 DEF SingleInv

LEMMA OthersIdle ==
  ASSUME SingleInv, NEW h \in Hosts, ~ At(h, "idle")
  PROVE  \A g \in Hosts \ {h} : At(g, "idle")
  BY DEF SingleInv, OneHost

\* A save of a state that extends the host's own, from a state in step with the
\* store; tools may run in the same step.
LEMMA SaveSafe ==
  ASSUME LocalInv, SingleInv, NEW h \in Hosts, proc[h].pc \notin {"idle", "catch"},
         \A c \in Calls : executed'[c] <= 1 /\ (executed'[c] > 0 => stored),
         stored => Knows(executed', proc[h].st),
         NEW st \in RunState, NEW p \in Processes, p.pc # "idle",
         Extends(st, proc[h].st), p.pc # "load",
         HostSafe([p EXCEPT !.st = st], executed', decision'), Save(h, st, p)
  PROVE  SingleInv' /\ Grows
<1> DEFINE old == proc[h].st
           q == [p EXCEPT !.st = st]
           r == [p EXCEPT !.st = st, !.pc = "catch", !.raised = "error"]
<1>1. q.st = st /\ q.pc = p.pc /\ r.st = st /\ r.pc = "catch"
  BY DEF Processes
<1>2. old \in RunState /\ ckpt \in RunState
  BY DEF LocalInv, TypeOK, HostOK, StateOK
<1>3. Knows(executed', st)
  BY <1>1 DEF HostSafe
<1>4. \A g \in Hosts \ {h} : At(g, "idle")
  BY OthersIdle DEF At
<1>5. stored => SameRecord(old, ckpt) /\ Extends(old, ckpt)
  BY DEF SingleInv, HostSync
<1>6. stored => Extends(st, ckpt)
  BY <1>2, <1>5, ExtendsTransitive
<1>7. CASE proc' = [proc EXCEPT ![h] = q] /\ Store(h, st)
  <2>1. ckpt' = st /\ stored' = TRUE
    BY <1>7 DEF Store
  <2>2. Extends(st, st)
    BY ExtendsItself DEF SameRecord
  <2> HIDE DEF q
  <2>3. HostSync(q, ckpt', stored')
    BY <1>1, <2>1, <2>2 DEF HostSync, SameRecord
  <2>4. StoreSafe'
    BY <1>3, <2>1 DEF StoreSafe
  <2>5. SingleInv'
    BY <1>4, <1>7, <2>3, <2>4, OneMoves DEF q
  <2> QED
    BY <1>6, <2>1, <2>5 DEF Grows
<1>8. CASE Goto(h, r)
  <2>1. proc' = [proc EXCEPT ![h] = r] /\ ckpt' = ckpt /\ stored' = stored
    BY <1>8 DEF Goto
  <2> HIDE DEF r
  <2>2. HostSync(r, ckpt', stored')
    BY <1>1, <1>6, <2>1 DEF HostSync
  <2>3. HostSafe(r, executed', decision')
    BY <1>1, <1>3 DEF HostSafe, NotRunYet, Approved, AtStart, InTool, InTurn
  <2>4. stored => Knows(executed', ckpt)
    BY <1>5 DEF Knows, SameRecord
  <2>5. StoreSafe'
    BY <2>1, <2>4 DEF StoreSafe
  <2>6. SingleInv'
    BY <1>4, <2>1, <2>2, <2>3, <2>5, OneMoves
  <2>7. Extends(ckpt, ckpt)
    BY <1>2, ExtendsItself DEF SameRecord
  <2> QED
    BY <2>1, <2>6, <2>7 DEF Grows
<1> QED
  BY <1>7, <1>8 DEF Save

\* A step in memory that leaves the run state alone.
LEMMA GotoSafe ==
  ASSUME LocalInv, SingleInv, NEW h \in Hosts, proc[h].pc # "idle",
         \A c \in Calls : executed'[c] <= 1 /\ (executed'[c] > 0 => stored),
         stored => Knows(executed', ckpt),
         NEW q, q.st = proc[h].st, q.pc # "load" \/ proc[h].pc = "load",
         q.pc # "catch" => proc[h].pc # "catch" /\ (proc[h].pc # "load" \/ stored \/ q.pc = "load"),
         HostSafe(q, executed', decision'), Goto(h, q)
  PROVE  SingleInv' /\ Grows
<1>1. \A g \in Hosts \ {h} : At(g, "idle")
  BY OthersIdle DEF At
<1>2. proc' = [proc EXCEPT ![h] = q] /\ ckpt' = ckpt /\ stored' = stored
  BY DEF Goto
<1>3. HostSync(proc[h], ckpt, stored)
  BY DEF SingleInv
<1>4. HostSync(q, ckpt, stored)
  BY <1>3 DEF HostSync
<1>5. StoreSafe'
  BY <1>2 DEF StoreSafe
<1>6. SingleInv'
  BY <1>1, <1>2, <1>4, <1>5, OneMoves
<1>7. Extends(ckpt, ckpt)
  BY ExtendsItself DEF SameRecord, LocalInv, TypeOK
<1> QED
  BY <1>2, <1>6, <1>7 DEF Grows

\* The two hypotheses on the tools when none of them runs in the step.
LEMMA NoneRuns ==
  ASSUME SingleInv, UNCHANGED executed, NEW h \in Hosts, proc[h].pc # "idle"
  PROVE  /\ \A c \in Calls : executed'[c] <= 1 /\ (executed'[c] > 0 => stored)
         /\ stored => Knows(executed', ckpt)
         /\ Knows(executed', proc[h].st)
  BY DEF SingleInv, StoreSafe, HostSafe, Knows

LEMMA ThrowSafe ==
  ASSUME LocalInv, SingleInv, UNCHANGED executed, NEW h \in Hosts, proc[h].pc # "idle", NEW w, Throw(h, w)
  PROVE  SingleInv' /\ Grows
<1> DEFINE q == [proc[h] EXCEPT !.pc = "catch", !.raised = w]
<1>1. q.pc = "catch" /\ q.st = proc[h].st
  BY DEF LocalInv, HostOK, Processes
<1>2. Goto(h, q)
  BY DEF Throw
<1> HIDE DEF q
<1>3. HostSafe(q, executed', decision')
  BY <1>1, NoneRuns DEF HostSafe, NotRunYet, Approved, AtStart, InTool, InTurn
<1> QED
  BY <1>1, <1>2, <1>3, NoneRuns, GotoSafe

\* The execution ends; the store keeps what it has or takes an extension of it.
LEMMA StoreIdleSafe ==
  ASSUME LocalInv, SingleInv, UNCHANGED executed, NEW h \in Hosts, proc[h].pc # "idle",
         NEW st \in RunState, Knows(executed, st), stored => Extends(st, ckpt),
         proc' = [proc EXCEPT ![h] = Idle],
         Store(h, st) \/ UNCHANGED <<ckpt, stored, stale>>
  PROVE  SingleInv' /\ Grows
<1>1. \A g \in Hosts \ {h} : At(g, "idle")
  BY OthersIdle DEF At
<1>2. HostSafe(Idle, executed', decision') /\ HostSync(Idle, ckpt', stored')
  BY IdleSafe DEF Idle
<1>3. StoreSafe'
  BY DEF SingleInv, StoreSafe, Store
<1>4. Extends(ckpt, ckpt)
  BY ExtendsItself DEF SameRecord, LocalInv, TypeOK
<1>5. SingleInv'
  BY <1>1, <1>2, <1>3, OneMoves
<1> QED
  BY <1>4, <1>5 DEF Grows, Store

LEMMA HostStepSafe ==
  ASSUME SingleHost, LocalInv, SingleInv, NEW h \in Hosts, HostStep(h)
  PROVE  SingleInv' /\ Grows
<1> DEFINE p == proc[h]
<1>p. p \in Processes /\ HostSafe(p, executed, decision) /\ ckpt \in RunState
  BY DEF LocalInv, TypeOK, HostOK, SingleInv
<1>e. Extends(ckpt, ckpt)
  BY <1>p, ExtendsItself DEF SameRecord
<1>1. CASE Start(h)
  <2> DEFINE q == [Idle EXCEPT !.pc = "load"]
  <2>1. q.pc = "load" /\ q.st = FreshState /\ q.given = "none"
    BY DEF Idle
  <2>2. /\ \A g \in Hosts \ {h} : At(g, "idle")
        /\ ~ stored /\ proc' = [proc EXCEPT ![h] = q] /\ UNCHANGED <<ckpt, stored, executed, decision>>
    BY <1>1 DEF Start, Goto
  <2> HIDE DEF q
  <2>3. StoreSafe' /\ \A c \in Calls : ~ (executed[c] > 0) /\ executed[c] \in Nat
    BY <2>2 DEF SingleInv, StoreSafe, LocalInv, TypeOK
  <2>4. HostSafe(q, executed', decision') /\ HostSync(q, ckpt', stored')
    BY <2>1, <2>2, <2>3 DEF HostSafe, HostSync, Knows, NotRunYet, Approved, AtStart, InTool, InTurn, FreshState, NoPending
  <2> QED
    BY <2>2, <2>3, <2>4, OneMoves DEF Grows
<1>2. CASE Resume(h)
  <2>1. PICK d \in Decisions :
          /\ d # "none" => ckpt.pending.status \in {"awaiting_approval", "prepared"}
          /\ decision' = IF d = "none" THEN decision ELSE [decision EXCEPT ![ckpt.pending.call] = d]
          /\ proc' = [proc EXCEPT ![h] = [Idle EXCEPT !.pc = "load", !.st = Restored(ckpt),
                                                      !.from = ckpt.turn, !.given = d]]
    BY <1>2 DEF Resume
  <2> DEFINE q == [Idle EXCEPT !.pc = "load", !.st = Restored(ckpt), !.from = ckpt.turn, !.given = d]
  <2>2. q.pc = "load" /\ q.st = Restored(ckpt) /\ q.given = d
    BY DEF Idle
  <2>3. SameRecord(q.st, ckpt) /\ q.st \in RunState
    BY <1>p, <2>2 DEF RunState, Statuses, Restored, SameRecord
  <2>4. /\ \A g \in Hosts \ {h} : At(g, "idle")
        /\ stored /\ proc' = [proc EXCEPT ![h] = q] /\ UNCHANGED <<ckpt, stored, executed>>
    BY <1>2, <2>1 DEF Resume, MayExecute
  <2> HIDE DEF q
  <2>5. StoreSafe' /\ Knows(executed, ckpt)
    BY <2>4 DEF SingleInv, StoreSafe
  <2>6. d = "approve" => decision'[ckpt.pending.call] = "approve"
    <3>1. d = "approve" => ckpt.pending.call \in Calls
      BY <1>p, <2>1, RecordTypes DEF PendingTool, NoPending
    <3> QED
      BY <2>1, <3>1 DEF LocalInv, TypeOK
  <2>7. HostSafe(q, executed', decision')
    BY <2>2, <2>3, <2>4, <2>5, <2>6 DEF HostSafe, SameRecord, Knows, NotRunYet, Approved, InTool, InTurn
  <2>8. HostSync(q, ckpt', stored')
    BY <1>p, <2>2, <2>3, <2>4, ExtendsItself DEF HostSync
  <2> QED
    BY <1>e, <2>4, <2>5, <2>7, <2>8, OneMoves DEF Grows
<1>3. CASE Cancel(h)
  <2> DEFINE q == [p EXCEPT !.aborted = TRUE]
  <2>1. q.pc = p.pc /\ q.st = p.st /\ q.given = p.given /\ q.calls = p.calls /\ p.pc \notin {"idle", "catch"}
    BY <1>3, <1>p DEF Processes, Cancel
  <2>2. Goto(h, q) /\ UNCHANGED <<executed, decision>>
    BY <1>3 DEF Cancel
  <2> HIDE DEF q
  <2>3. HostSafe(q, executed', decision')
    BY <1>p, <2>1, <2>2 DEF HostSafe, NotRunYet, Approved
  <2>4. p.pc # "catch" /\ (p.pc # "load" \/ stored \/ q.pc = "load") /\ (q.pc # "load" \/ p.pc = "load")
    BY <2>1
  <2> QED
    BY <2>1, <2>2, <2>3, <2>4, NoneRuns, GotoSafe
<1>4. CASE Crash(h)
  <2>1. p.pc # "idle" /\ proc' = [proc EXCEPT ![h] = Idle] /\ UNCHANGED <<ckpt, stored, executed, stale>>
    BY <1>4 DEF Crash, Goto, At
  <2>2. Knows(executed, p.st) /\ p.st \in RunState /\ (stored => Extends(p.st, ckpt))
    BY <2>1, <1>p DEF HostSafe, SingleInv, HostSync, LocalInv, HostOK, StateOK
  <2> QED
    BY <2>1, <2>2, StoreIdleSafe
<1>5. CASE Fail(h)
  BY <1>5, ThrowSafe DEF Fail, FailPoint
<1> QED
  BY <1>1, <1>2, <1>3, <1>4, <1>5 DEF HostStep

\* A state with the same turn, calls and results extends the old one.
LEMMA KeepsResults ==
  ASSUME NEW s \in RunState, NEW t \in RunState, s.turn = t.turn, t.asked = s.asked, s.results = t.results
  PROVE  Extends(s, t)
  BY RecordTypes DEF Extends

LEMMA StartStepSafe ==
  ASSUME LocalInv, SingleInv, NEW h \in Hosts, LoadSession(h) \/ SaveInput(h) \/ ResumePending(h)
  PROVE  SingleInv' /\ Grows
<1> DEFINE p == proc[h]
           st == p.st
           pend == st.pending
<1>p. /\ p \in Processes /\ HostOK(p) /\ st \in RunState /\ StateOK(st)
      /\ HostSafe(p, executed, decision) /\ HostSync(p, ckpt, stored) /\ p.pc \in AtStart /\ p.pc \notin {"idle", "catch"}
      /\ UNCHANGED <<executed, decision>>
  BY DEF LocalInv, HostOK, StateOK, SingleInv, LoadSession, SaveInput, ResumePending, At, AtStart
<1>t. /\ st.turn \in Nat /\ st.asked \subseteq Calls /\ st.results \in [Calls -> Nat]
      /\ pend \in PendingTool \union {NoPending} /\ st.rev \in Nat /\ st.base \in Nat
  BY <1>p, RecordTypes DEF RunState
<1>n. /\ \A c \in Calls : executed'[c] <= 1 /\ (executed'[c] > 0 => stored)
      /\ stored => Knows(executed', ckpt)
      /\ Knows(executed', st)
  BY <1>p, NoneRuns
<1>1. CASE LoadSession(h)
  <2>1. CASE Save(h, [st EXCEPT !.rev = Len(session)], [p EXCEPT !.pc = "input"])
    <3> DEFINE s == [st EXCEPT !.rev = Len(session)]
               r == [p EXCEPT !.pc = "input"]
    <3>0. Len(session) \in Nat
      BY DEF LocalInv, TypeOK
    <3>1. s \in RunState /\ s.turn = st.turn /\ s.asked = st.asked /\ s.results = st.results /\ s.pending = pend
      BY <1>p, <3>0 DEF RunState
    <3> HIDE DEF s
    <3>2. /\ r \in Processes /\ r.pc = "input" /\ [r EXCEPT !.st = s].pc = "input" /\ [r EXCEPT !.st = s].st = s
          /\ [r EXCEPT !.st = s].given = p.given
      BY <1>p DEF Processes, PCs
    <3> HIDE DEF r
    <3>3. HostSafe([r EXCEPT !.st = s], executed', decision')
      BY <1>p, <1>n, <3>1, <3>2 DEF HostSafe, NotRunYet, Approved, Knows, AtStart, InTool, InTurn
    <3> QED
      BY <1>p, <1>n, <2>1, <3>1, <3>2, <3>3, KeepsResults, SaveSafe DEF s, r
  <2>2. CASE st.turn > 0 /\ Goto(h, [p EXCEPT !.pc = "resume"])
    <3> DEFINE q == [p EXCEPT !.pc = "resume"]
    <3>1. q.pc = "resume" /\ q.st = st /\ q.given = p.given
      BY <1>p DEF Processes, PCs
    <3> HIDE DEF q
    <3>2. HostSafe(q, executed', decision')
      BY <1>p, <1>n, <3>1 DEF HostSafe, NotRunYet, Approved, AtStart, InTool, InTurn
    <3>3. stored
      BY <1>1, <1>p, <1>t, <2>2 DEF HostSync, LoadSession, At
    <3> QED
      BY <1>p, <1>n, <2>2, <3>1, <3>2, <3>3, GotoSafe DEF q
  <2>3. CASE Throw(h, "error")
    BY <1>p, <2>3, ThrowSafe
  <2> QED
    BY <1>1, <2>1, <2>2, <2>3 DEF LoadSession
<1>2. CASE SaveInput(h)
  <2> DEFINE s == [st EXCEPT !.base = st.rev]
             r == [p EXCEPT !.pc = "resume"]
  <2>0. Save(h, s, r)
    BY <1>2 DEF SaveInput
  <2>1. s \in RunState /\ s.turn = st.turn /\ s.asked = st.asked /\ s.results = st.results /\ s.pending = pend
    BY <1>p, <1>t DEF RunState
  <2> HIDE DEF s
  <2>2. /\ r \in Processes /\ r.pc = "resume" /\ [r EXCEPT !.st = s].pc = "resume" /\ [r EXCEPT !.st = s].st = s
        /\ [r EXCEPT !.st = s].given = p.given
    BY <1>p DEF Processes, PCs
  <2> HIDE DEF r
  <2>3. HostSafe([r EXCEPT !.st = s], executed', decision')
    BY <1>p, <1>n, <2>1, <2>2 DEF HostSafe, NotRunYet, Approved, Knows, AtStart, InTool, InTurn
  <2> QED
    BY <1>p, <1>n, <2>0, <2>1, <2>2, <2>3, KeepsResults, SaveSafe
<1>3. CASE ResumePending(h)
  <2> DEFINE toModel == [p EXCEPT !.pc = "model", !.given = "none"]
             toPrepare == [p EXCEPT !.pc = "prepare"]
             cleared == [st EXCEPT !.pending = NoPending]
  <2>0. p.pc = "resume"
    BY <1>3 DEF ResumePending, At
  <2>1. toModel \in Processes /\ toModel.pc = "model" /\ toModel.st = st /\ toModel.given = "none"
    BY <1>p DEF Processes, PCs, Decisions
  <2>2. toPrepare \in Processes /\ toPrepare.pc = "prepare" /\ toPrepare.st = st
        /\ toPrepare.given = p.given /\ toPrepare.calls = p.calls
    BY <1>p DEF Processes, PCs
  <2>3. ASSUME NEW s \in RunState, s.turn = st.turn, s.asked = st.asked, s.pending = NoPending,
               \A c \in Calls : s.results[c] >= st.results[c],
               pend.status # "started", Save(h, s, toModel)
        PROVE  SingleInv' /\ Grows
    <3>1. Extends(s, st) /\ s.results \in [Calls -> Nat]
      BY <1>t, <2>3, RecordTypes DEF Extends
    <3>2. Knows(executed', s)
      BY <1>n, <1>t, <2>3, <3>1 DEF Knows, NoPending
    <3>3. [toModel EXCEPT !.st = s].pc = "model" /\ [toModel EXCEPT !.st = s].st = s
          /\ [toModel EXCEPT !.st = s].given = "none"
      BY <2>1 DEF Processes
    <3>4. HostSafe([toModel EXCEPT !.st = s], executed', decision')
      BY <2>3, <3>2, <3>3 DEF HostSafe, NotRunYet, Approved, NoPending, InTool, InTurn
    <3> HIDE DEF toModel
    <3> QED
      BY <1>p, <1>n, <2>1, <2>3, <3>1, <3>4, SaveSafe
  <2>4. cleared \in RunState /\ cleared.turn = st.turn /\ cleared.asked = st.asked
        /\ cleared.results = st.results /\ cleared.pending = NoPending
    BY <1>p DEF RunState
  <2>5. ASSUME pend.status # "none"
        PROVE  LET s == AddResult(cleared, pend.call)
               IN  /\ s \in RunState /\ s.turn = st.turn /\ s.asked = st.asked /\ s.pending = NoPending
                   /\ \A c \in Calls : s.results[c] >= st.results[c]
    <3> DEFINE s == AddResult(cleared, pend.call)
    <3>1. pend.call \in Calls
      BY <1>t, <2>5 DEF PendingTool, NoPending
    <3> HIDE DEF cleared
    <3>2. s = [cleared EXCEPT !.results = [st.results EXCEPT ![pend.call] = @ + 1]]
      BY <2>4 DEF AddResult, RunState
    <3>3. [st.results EXCEPT ![pend.call] = @ + 1] \in [Calls -> Nat]
      BY <1>t, <3>1
    <3>4. s \in RunState /\ s.turn = st.turn /\ s.asked = st.asked /\ s.pending = NoPending
          /\ s.results = [st.results EXCEPT ![pend.call] = @ + 1]
      BY <2>4, <3>2, <3>3 DEF RunState
    <3> HIDE DEF s
    <3>5. \A c \in Calls : s.results[c] >= st.results[c]
      BY <1>t, <3>1, <3>4
    <3> QED
      BY <3>4, <3>5 DEF s
  <2>6. CASE Goto(h, toModel) /\ ~ (pend.status = "started" /\ pend.call.tool \in SideEffects)
    <3> HIDE DEF toModel
    <3>1. HostSafe(toModel, executed', decision')
      BY <1>n, <2>1, <2>6 DEF HostSafe, NotRunYet, Approved, InTool, InTurn
    <3> QED
      BY <1>p, <1>n, <2>0, <2>1, <2>6, <3>1, GotoSafe
  <2>7. CASE pend.status = "committed" /\ Save(h, CompleteCommitted(st), toModel)
    <3>1. \A c \in Calls : cleared.results[c] >= st.results[c]
      BY <1>t, <2>4
    <3>2. CompleteCommitted(st) = AddResult(cleared, pend.call) \/ CompleteCommitted(st) = cleared
      BY DEF CompleteCommitted
    <3> HIDE DEF cleared, toModel
    <3> QED
      BY <2>3, <2>4, <2>5, <2>7, <3>1, <3>2
  <2>8. CASE pend.status = "awaiting_approval" /\ Save(h, AddResult(cleared, pend.call), toModel)
    <3> HIDE DEF cleared, toModel
    <3> QED
      BY <2>3, <2>5, <2>8
  <2>9. CASE pend.status = "prepared" /\ p.given = "approve" /\ Goto(h, toPrepare)
    <3> HIDE DEF toPrepare
    <3>0. p.calls = << >>
      BY <1>p DEF HostOK, GivenShape
    <3>1. HostSafe(toPrepare, executed', decision')
      BY <1>p, <1>n, <2>2, <2>9, <3>0 DEF HostSafe, NotRunYet, Approved, InTool, InTurn
    <3> QED
      BY <1>p, <1>n, <2>0, <2>2, <2>9, <3>1, GotoSafe
  <2>10. CASE /\ pend.status = "awaiting_approval" /\ p.given = "approve"
              /\ Save(h, [st EXCEPT !.pending = [pend EXCEPT !.status = "prepared"]], toPrepare)
    <3> DEFINE s == [st EXCEPT !.pending = [pend EXCEPT !.status = "prepared"]]
               q == [toPrepare EXCEPT !.st = s]
    <3>1. /\ s.pending.status = "prepared" /\ s.pending.call = pend.call /\ s \in RunState
          /\ s.turn = st.turn /\ s.asked = st.asked /\ s.results = st.results
      BY <1>p, <1>t, <2>10 DEF RunState, PendingTool, NoPending, PendingStatus
    <3> HIDE DEF s
    <3>2. q.pc = "prepare" /\ q.st = s /\ q.given = "approve" /\ q.calls = p.calls
      BY <2>2, <2>10 DEF Processes
    <3> HIDE DEF q, toPrepare
    <3>3. p.calls = << >>
      BY <1>p DEF HostOK, GivenShape
    <3>4. Knows(executed', s)
      BY <1>n, <2>10, <3>1 DEF Knows
    <3>5. decision'[pend.call] = "approve"
      BY <1>p, <2>10 DEF HostSafe, Approved
    <3>6. HostSafe(q, executed', decision')
      BY <3>1, <3>2, <3>3, <3>4, <3>5 DEF HostSafe, NotRunYet, Approved, InTool, InTurn
    <3> QED
      BY <1>p, <1>n, <2>2, <2>10, <3>1, <3>6, KeepsResults, SaveSafe DEF s, q
  <2>11. CASE Throw(h, "interrupt")
    BY <1>p, <2>11, ThrowSafe
  <2> QED
    BY <1>3, <2>6, <2>7, <2>8, <2>9, <2>10, <2>11 DEF ResumePending
<1> QED
  BY <1>1, <1>2, <1>3

\* The calls of a new response have not run: what ran was asked before.
LEMMA CallModelSafe ==
  ASSUME LocalInv, SingleInv, NEW h \in Hosts, CallModel(h)
  PROVE  SingleInv' /\ Grows
<1> DEFINE p == proc[h]
           st == p.st
           turn == st.turn + 1
<1>p. /\ p \in Processes /\ HostOK(p) /\ st \in RunState /\ StateOK(st) /\ p.pc = "model" /\ p.given = "none"
      /\ HostSafe(p, executed, decision) /\ UNCHANGED <<executed, decision>>
  BY DEF LocalInv, HostOK, StateOK, SingleInv, CallModel, At, GivenShape
<1>t. /\ st.turn \in Nat /\ st.asked \subseteq Calls /\ st.results \in [Calls -> Nat]
      /\ st.pending \in PendingTool \union {NoPending} /\ turn \in 1..MaxTurns
  <2>1. st.turn \in 0..MaxTurns /\ st.turn < MaxTurns
    BY <1>p DEF CallModel, TurnsLeft, RunState
  <2> QED
    BY <1>p, <2>1, RecordTypes, BoundsAssumption
<1>n. /\ \A c \in Calls : executed'[c] <= 1 /\ (executed'[c] > 0 => stored)
      /\ stored => Knows(executed', ckpt)
      /\ Knows(executed', st)
  BY <1>p, NoneRuns
<1>1. PICK n \in 0..MaxCalls : \E tools \in [1..n -> Tools] :
        LET calls == ResponseCalls(turn, tools)
        IN  Save(h, [st EXCEPT !.turn = turn, !.asked = @ \union Range(calls)],
                    [p EXCEPT !.pc = IF n = 0 THEN "finalize" ELSE "tools", !.calls = calls])
  BY DEF CallModel
<1>2. PICK tools \in [1..n -> Tools] :
        LET calls == ResponseCalls(turn, tools)
        IN  Save(h, [st EXCEPT !.turn = turn, !.asked = @ \union Range(calls)],
                    [p EXCEPT !.pc = IF n = 0 THEN "finalize" ELSE "tools", !.calls = calls])
  BY <1>1
<1> DEFINE calls == ResponseCalls(turn, tools)
           s == [st EXCEPT !.turn = turn, !.asked = @ \union Range(calls)]
           r == [p EXCEPT !.pc = IF n = 0 THEN "finalize" ELSE "tools", !.calls = calls]
           q == [r EXCEPT !.st = s]
<1>3. calls \in Seq(Calls) /\ \A i \in DOMAIN calls : calls[i].turn = turn /\ calls[i] \in Calls
  BY <1>t, BoundsAssumption DEF ResponseCalls, Calls
<1> HIDE DEF calls
<1>4. Range(calls) \subseteq Calls
  BY <1>3 DEF Range
<1>5. /\ s \in RunState /\ s.turn = turn /\ s.asked = st.asked \union Range(calls)
      /\ s.results = st.results /\ s.pending = st.pending
  <2>1. turn \in 0..MaxTurns /\ st.asked \union Range(calls) \in SUBSET Calls
    BY <1>t, <1>4
  <2>2. s = [st EXCEPT !.turn = turn, !.asked = st.asked \union Range(calls)]
    BY <1>p DEF RunState
  <2> HIDE DEF turn, s
  <2> QED
    BY <1>p, <2>1, <2>2 DEF RunState
<1>6. /\ r \in Processes /\ r.pc \in {"finalize", "tools"} /\ q.pc = r.pc /\ q.calls = calls /\ q.st = s
      /\ q.given = "none"
  BY <1>p, <1>3 DEF Processes, PCs
<1>7. Save(h, s, r)
  BY <1>2 DEF calls
<1> HIDE DEF s, r, q
<1>8. Extends(s, st)
  BY <1>t, <1>5 DEF Extends
<1>9. Knows(executed', s)
  BY <1>n, <1>5 DEF Knows
<1>10. \A i \in DOMAIN calls : executed'[calls[i]] = 0
  <2> TAKE i \in DOMAIN calls
  <2>1. calls[i] \in Calls /\ calls[i] \notin st.asked
    BY <1>p, <1>t, <1>3 DEF StateOK
  <2>2. executed'[calls[i]] \in Nat
    BY <1>p, <2>1 DEF LocalInv, TypeOK
  <2> QED
    BY <1>n, <2>1, <2>2 DEF Knows
<1>11. HostSafe(q, executed', decision')
  BY <1>p, <1>5, <1>6, <1>9, <1>10 DEF HostSafe, NotRunYet, Approved, AtStart, InTool, InTurn
<1> QED
  BY <1>p, <1>n, <1>5, <1>6, <1>7, <1>8, <1>11, SaveSafe DEF q

\* Facts of a batch of parallel reads: distinct calls that were asked, of which
\* none has run, has a result or is pending, and none is a side effect.
LEMMA BatchFresh ==
  ASSUME LocalInv, SingleInv, NEW h \in Hosts, proc[h].pc = "tools"
  PROVE  LET p == proc[h]
             n == Batch(p.calls)
             batch == Range(SubSeq(p.calls, 1, n))
             rest == SubSeq(p.calls, n + 1, Len(p.calls))
         IN  /\ stored /\ batch \subseteq Calls /\ rest \in Seq(Calls)
             /\ \A c \in batch :
                  /\ c \in p.st.asked /\ p.st.results[c] = 0 /\ executed[c] = 0
                  /\ c.tool \notin SideEffects /\ c.tool \notin NeedsApproval
                  /\ p.st.pending.status # "none" => p.st.pending.call # c
             /\ \A i \in DOMAIN rest : rest[i] \notin batch /\ executed[rest[i]] = 0 /\ rest[i] \in Calls
<1> DEFINE p == proc[h]
           st == p.st
           n == Batch(p.calls)
           batch == Range(SubSeq(p.calls, 1, n))
           rest == SubSeq(p.calls, n + 1, Len(p.calls))
<1>p. /\ HostOK(p) /\ p.calls \in Seq(Calls) /\ HostSafe(p, executed, decision) /\ HostSync(p, ckpt, stored)
      /\ StateOK(st) /\ st.asked \subseteq Calls
  BY DEF LocalInv, HostOK, SingleInv, Processes, StateOK, RunState
<1>1. n \in 0..Len(p.calls) /\ \A i \in 1..n : Parallel(p.calls[i])
  BY <1>p, BatchProperties
<1>2. \A i \in DOMAIN p.calls :
        /\ p.calls[i] \in st.asked /\ st.results[p.calls[i]] = 0 /\ executed[p.calls[i]] = 0
        /\ st.pending.status # "none" => st.pending.call # p.calls[i]
  BY <1>p DEF HostOK, CallsOpen, HostSafe, NotRunYet, InTurn
<1>3. \A i, j \in DOMAIN p.calls : p.calls[i] = p.calls[j] => i = j
  BY <1>p DEF HostOK, CallsOpen, InTurn
<1> HIDE DEF n
<1>4. \A c : c \in batch <=> \E i \in 1..n : c = p.calls[i]
  <2>1. DOMAIN SubSeq(p.calls, 1, n) = 1..n /\ \A i \in 1..n : SubSeq(p.calls, 1, n)[i] = p.calls[i]
    BY <1>p, <1>1
  <2> QED
    BY <2>1 DEF Range
<1>5. /\ rest \in Seq(Calls) /\ DOMAIN rest = 1..(Len(p.calls) - n)
      /\ \A i \in DOMAIN rest : n + i \in DOMAIN p.calls /\ rest[i] = p.calls[n + i]
  BY <1>p, <1>1
<1> HIDE DEF rest, batch
<1>6. \A i \in 1..n : i \in DOMAIN p.calls
  BY <1>p, <1>1
<1>7. \A c \in batch : c.tool \notin SideEffects /\ c.tool \notin NeedsApproval
  BY <1>1, <1>4 DEF Parallel, IsRead
<1>8. \A c \in batch : /\ c \in st.asked /\ st.results[c] = 0 /\ executed[c] = 0
                       /\ st.pending.status # "none" => st.pending.call # c
  BY <1>2, <1>4, <1>6
<1>9. \A i \in DOMAIN rest : rest[i] \notin batch /\ executed[rest[i]] = 0 /\ rest[i] \in Calls
  BY <1>1, <1>2, <1>3, <1>4, <1>5, <1>6, <1>p
<1>10. stored
  BY <1>p DEF HostSync
<1> QED
  BY <1>p, <1>5, <1>7, <1>8, <1>9, <1>10 DEF n, batch, rest

\* Tools of a batch ran, whether or not their results are recorded.
LEMMA BatchRan ==
  ASSUME LocalInv, SingleInv, NEW h \in Hosts, proc[h].pc = "tools",
         NEW ran, ran \subseteq Range(SubSeq(proc[h].calls, 1, Batch(proc[h].calls))),
         executed' = [c \in Calls |-> IF c \in ran THEN executed[c] + 1 ELSE executed[c]]
  PROVE  /\ stored
         /\ \A c \in Calls : executed'[c] <= 1
         /\ Knows(executed', proc[h].st)
         /\ Knows(executed', ckpt)
<1> DEFINE st == proc[h].st
           batch == Range(SubSeq(proc[h].calls, 1, Batch(proc[h].calls)))
<1>1. /\ stored /\ batch \subseteq Calls
      /\ \A c \in batch :
           /\ c \in st.asked /\ executed[c] = 0 /\ c.tool \notin SideEffects
           /\ st.pending.status # "none" => st.pending.call # c
  BY BatchFresh
<1> HIDE DEF batch
<1>2. /\ \A c \in Calls : executed[c] \in Nat /\ executed[c] <= 1
      /\ Knows(executed, st)
      /\ SameRecord(st, ckpt)
  BY <1>1 DEF SingleInv, StoreSafe, HostSafe, HostSync, LocalInv, TypeOK
<1>3. \A c \in Calls : executed'[c] = IF c \in ran THEN 1 ELSE executed[c]
  BY <1>1 DEF batch
<1>4. st.pending.status # "none" => st.pending.call \in Calls
  BY RecordTypes DEF LocalInv, HostOK, StateOK, PendingTool
<1>5. Knows(executed', st)
  BY <1>1, <1>2, <1>3, <1>4 DEF Knows, batch
<1> QED
  BY <1>1, <1>2, <1>3, <1>5 DEF Knows, SameRecord

LEMMA RunReadBatchSafe ==
  ASSUME LocalInv, SingleInv, NEW h \in Hosts, RunReadBatch(h)
  PROVE  SingleInv' /\ Grows
<1> DEFINE p == proc[h]
           st == p.st
           n == Batch(p.calls)
           batch == Range(SubSeq(p.calls, 1, n))
           rest == SubSeq(p.calls, n + 1, Len(p.calls))
           counted(f) == [c \in Calls |-> IF c \in batch THEN f[c] + 1 ELSE f[c]]
           s == [st EXCEPT !.results = counted(st.results)]
           r == [p EXCEPT !.calls = rest]
           q == [r EXCEPT !.st = s]
<1>p. /\ p \in Processes /\ HostOK(p) /\ st \in RunState /\ p.pc = "tools" /\ p.given = "none"
      /\ HostSafe(p, executed, decision) /\ UNCHANGED decision
  BY DEF LocalInv, HostOK, StateOK, SingleInv, RunReadBatch, At, GivenShape
<1>t. st.turn \in Nat /\ st.asked \subseteq Calls /\ st.results \in [Calls -> Nat]
  BY <1>p, RecordTypes
<1>s. Save(h, s, r) /\ executed' = counted(executed)
  BY DEF RunReadBatch
<1>b. /\ stored /\ batch \subseteq Calls /\ rest \in Seq(Calls)
      /\ \A i \in DOMAIN rest : rest[i] \notin batch /\ executed[rest[i]] = 0 /\ rest[i] \in Calls
  BY <1>p, BatchFresh
<1>r. /\ \A c \in Calls : executed'[c] <= 1
      /\ Knows(executed', st)
  BY <1>p, <1>s, BatchRan
<1>1. \A i \in DOMAIN rest : executed'[rest[i]] = 0
  BY <1>s, <1>b
<1> HIDE DEF n, batch, rest
<1>2. counted(st.results) \in [Calls -> Nat] /\ \A c \in Calls : counted(st.results)[c] >= st.results[c]
  BY <1>t
<1> HIDE DEF counted
<1>3. /\ s \in RunState /\ s.turn = st.turn /\ s.asked = st.asked /\ s.pending = st.pending
      /\ s.results = counted(st.results)
  BY <1>p, <1>2 DEF RunState
<1> HIDE DEF s
<1>4. r \in Processes /\ r.pc = "tools" /\ q.pc = "tools" /\ q.calls = rest /\ q.st = s /\ q.given = "none"
  BY <1>p, <1>b DEF Processes, PCs
<1> HIDE DEF r, q
<1>5. Extends(s, st)
  BY <1>t, <1>2, <1>3 DEF Extends
<1>6. Knows(executed', s)
  <2>1. \A c \in Calls : st.results[c] > 0 => s.results[c] > 0
    BY <1>2, <1>3, <1>t
  <2> QED
    BY <1>r, <1>3, <2>1 DEF Knows
<1>7. HostSafe(q, executed', decision')
  BY <1>p, <1>1, <1>3, <1>4, <1>6 DEF HostSafe, NotRunYet, Approved, AtStart, InTool, InTurn
<1> QED
  BY <1>p, <1>s, <1>b, <1>r, <1>3, <1>4, <1>5, <1>7, SaveSafe DEF q

LEMMA LoopStepSafe ==
  ASSUME LocalInv, SingleInv, NEW h \in Hosts, OutOfTurns(h) \/ ReadBatchFails(h) \/ NextCall(h)
  PROVE  SingleInv' /\ Grows
<1> DEFINE p == proc[h]
<1>p. p \in Processes /\ HostOK(p) /\ HostSafe(p, executed, decision)
  BY DEF LocalInv, HostOK, SingleInv
<1>1. CASE OutOfTurns(h)
  BY <1>1, ThrowSafe DEF OutOfTurns, At
<1>2. CASE ReadBatchFails(h)
  <2> DEFINE q == [p EXCEPT !.pc = "catch", !.raised = "error"]
  <2>1. PICK ran : /\ ran \subseteq Range(SubSeq(p.calls, 1, Batch(p.calls)))
                   /\ executed' = [c \in Calls |-> IF c \in ran THEN executed[c] + 1 ELSE executed[c]]
    BY <1>2 DEF ReadBatchFails
  <2>2. /\ stored /\ p.pc = "tools"
        /\ \A c \in Calls : executed'[c] <= 1
        /\ Knows(executed', p.st) /\ Knows(executed', ckpt)
    BY <1>2, <2>1, BatchRan DEF ReadBatchFails, At
  <2>3. Goto(h, q) /\ q.pc = "catch" /\ q.st = p.st
    BY <1>2, <1>p DEF ReadBatchFails, Throw, Processes
  <2> HIDE DEF q
  <2>4. HostSafe(q, executed', decision')
    BY <2>2, <2>3 DEF HostSafe, NotRunYet, Approved, AtStart, InTool, InTurn
  <2> QED
    BY <2>2, <2>3, <2>4, GotoSafe
<1>3. CASE NextCall(h)
  <2>1. PICK pc \in {"model", "prepare"} : Goto(h, [p EXCEPT !.pc = pc]) /\ (pc = "prepare" => p.calls # << >>)
    BY <1>3 DEF NextCall
  <2> DEFINE q == [p EXCEPT !.pc = pc]
  <2>2. q.pc = pc /\ q.st = p.st /\ q.calls = p.calls /\ q.given = p.given /\ p.pc = "tools" /\ p.given = "none"
    BY <1>3, <1>p DEF Processes, NextCall, At, HostOK, GivenShape
  <2>3. UNCHANGED <<executed, decision>>
    BY <1>3 DEF NextCall
  <2> HIDE DEF q
  <2>4. HostSafe(q, executed', decision')
    BY <1>p, <2>2, <2>3 DEF HostSafe, NotRunYet, Approved, AtStart, InTool, InTurn
  <2> QED
    BY <2>1, <2>2, <2>3, <2>4, NoneRuns, GotoSafe DEF q
<1> QED
  BY <1>1, <1>2, <1>3

\* The call executeToolCall works on has not run before it is invoked.
LEMMA CurrentNotRun ==
  ASSUME LocalInv, SingleInv, NEW h \in Hosts, proc[h].pc \in {"prepare", "before", "running"}
  PROVE  executed[Current(h)] = 0
<1> DEFINE p == proc[h]
<1>p. HostOK(p) /\ HostSafe(p, executed, decision)
  BY DEF LocalInv, SingleInv
<1>1. CASE p.given = "approve"
  BY <1>1, <1>p DEF HostOK, PendingShape, HostSafe, Knows, NotRunYet, Current, InTool
<1>2. CASE p.given = "none"
  <2>1. 1 \in DOMAIN p.calls /\ p.calls[1] = Current(h)
    BY <1>2, CurrentOpen DEF InTool
  <2> QED
    BY <1>p, <2>1 DEF HostSafe, NotRunYet, InTurn, InTool
<1> QED
  BY <1>1, <1>2, CurrentOpen DEF InTool

LEMMA PendingStepSafe ==
  ASSUME LocalInv, SingleInv, NEW h \in Hosts, Prepare(h) \/ MarkStarted(h) \/ AwaitApproval(h)
  PROVE  SingleInv' /\ Grows
<1> DEFINE p == proc[h]
           st == p.st
           c == Current(h)
<1>p. /\ p \in Processes /\ HostOK(p) /\ st \in RunState /\ HostSafe(p, executed, decision)
      /\ UNCHANGED <<executed, decision>> /\ p.pc \in {"prepare", "before", "running"}
  BY DEF LocalInv, HostOK, StateOK, SingleInv, Prepare, MarkStarted, AwaitApproval, At
<1>c. /\ c \in Calls /\ executed[c] = 0
      /\ p.pc # "prepare" => st.pending \in PendingTool /\ st.pending.call = c
      /\ p.given = "approve" => c = st.pending.call
  BY <1>p, CurrentOpen, CurrentNotRun DEF InTool, Current
<1>n. /\ \A d \in Calls : executed'[d] <= 1 /\ (executed'[d] > 0 => stored)
      /\ stored => Knows(executed', ckpt)
      /\ Knows(executed', st)
  BY <1>p, NoneRuns
<1> HIDE DEF c
\* Before the step no side effect rests on the pending tool alone.
<1>k. ~ \E d \in Calls : executed[d] > 0 /\ d.tool \in SideEffects /\ ~ (st.results[d] > 0)
  <2> SUFFICES ASSUME NEW d \in Calls, executed[d] > 0, d.tool \in SideEffects, ~ (st.results[d] > 0) PROVE FALSE
    OBVIOUS
  <2>1. st.pending.status = "started" /\ st.pending.call = d
    BY <1>p, <1>n DEF Knows
  <2>2. CASE p.pc = "prepare"
    BY <1>p, <2>1, <2>2 DEF HostSafe, NotRunYet
  <2>3. CASE p.pc # "prepare"
    BY <1>c, <2>1, <2>3
  <2> QED
    BY <2>2, <2>3
<1>1. ASSUME NEW pend \in PendingTool, pend.call = c, NEW r \in Processes,
             r.given = p.given, r.calls = p.calls, Save(h, [st EXCEPT !.pending = pend], r),
             \/ r.pc = "before"
             \/ r.pc = "running" /\ p.pc = "before" /\ pend.status = "started"
             \/ r.pc = "catch"
      PROVE  SingleInv' /\ Grows
  <2> DEFINE s == [st EXCEPT !.pending = pend]
             q == [r EXCEPT !.st = s]
  <2>1. /\ s \in RunState /\ s.turn = st.turn /\ s.asked = st.asked /\ s.results = st.results /\ s.pending = pend
    BY <1>p, <1>1 DEF RunState
  <2> HIDE DEF s
  <2>2. q.pc = r.pc /\ q.st = s /\ q.given = p.given /\ q.calls = p.calls
    BY <1>1 DEF Processes
  <2> HIDE DEF q
  <2>3. Knows(executed', s)
    BY <1>p, <1>c, <1>n, <1>k, <1>1, <2>1 DEF Knows
  <2>4. NotRunYet(q, executed')
    <3>1. p.pc \in InTurn /\ \A i \in DOMAIN p.calls : executed[p.calls[i]] = 0
      BY <1>p DEF HostSafe, NotRunYet, InTurn, InTool
    <3> QED
      BY <1>p, <1>c, <1>1, <2>1, <2>2, <3>1 DEF NotRunYet
  <2>5. Approved(q, decision')
    BY <1>p, <1>c, <1>1, <2>1, <2>2 DEF HostSafe, Approved, InTool, AtStart
  <2>6. HostSafe(q, executed', decision')
    BY <2>2, <2>3, <2>4, <2>5 DEF HostSafe
  <2> QED
    BY <1>p, <1>n, <1>1, <2>1, <2>6, KeepsResults, SaveSafe DEF s, q
<1>2. ASSUME NEW pc \in PCs, NEW raised \in {"none", "interrupt", "error"}
      PROVE  /\ [p EXCEPT !.pc = pc] \in Processes /\ [p EXCEPT !.pc = pc, !.raised = raised] \in Processes
             /\ [p EXCEPT !.pc = pc].pc = pc /\ [p EXCEPT !.pc = pc, !.raised = raised].pc = pc
             /\ [p EXCEPT !.pc = pc].given = p.given /\ [p EXCEPT !.pc = pc, !.raised = raised].given = p.given
             /\ [p EXCEPT !.pc = pc].calls = p.calls /\ [p EXCEPT !.pc = pc, !.raised = raised].calls = p.calls
  BY <1>p DEF Processes
<1>3. CASE Prepare(h)
  <2> DEFINE pend == [status |-> "prepared", call |-> c, asksUser |-> FALSE]
             r == [p EXCEPT !.pc = "before"]
  <2>1. pend \in PendingTool /\ pend.call = c
    BY <1>c DEF PendingTool, PendingStatus
  <2>2. Save(h, [st EXCEPT !.pending = pend], r)
    BY <1>3 DEF Prepare, c
  <2>3. r \in Processes /\ r.pc = "before" /\ r.given = p.given /\ r.calls = p.calls
    BY <1>2 DEF PCs
  <2> HIDE DEF pend, r
  <2> QED
    BY <1>1, <2>1, <2>2, <2>3
<1>4. CASE MarkStarted(h)
  <2> DEFINE pend == [st.pending EXCEPT !.status = "started"]
             r == [p EXCEPT !.pc = "running"]
  <2>0. p.pc = "before"
    BY <1>4 DEF MarkStarted, At
  <2>1. pend \in PendingTool /\ pend.call = c /\ pend.status = "started"
    BY <1>c, <2>0 DEF PendingTool, PendingStatus
  <2>2. Save(h, [st EXCEPT !.pending = pend], r)
    <3>1. [st EXCEPT !.pending = [@ EXCEPT !.status = "started"]] = [st EXCEPT !.pending = pend]
      BY <1>p DEF RunState
    <3> QED
      BY <1>4, <3>1 DEF MarkStarted
  <2>3. r \in Processes /\ r.pc = "running" /\ r.given = p.given /\ r.calls = p.calls
    BY <1>2 DEF PCs
  <2> HIDE DEF pend, r
  <2> QED
    BY <1>1, <2>0, <2>1, <2>2, <2>3
<1>5. CASE AwaitApproval(h)
  <2> DEFINE pend == [st.pending EXCEPT !.status = "awaiting_approval", !.asksUser = TRUE]
             r == [p EXCEPT !.pc = "catch", !.raised = "interrupt"]
  <2>0. p.pc = "running"
    BY <1>5 DEF AwaitApproval, At
  <2>1. pend \in PendingTool /\ pend.call = c
    BY <1>c, <2>0 DEF PendingTool, PendingStatus
  <2>2. Save(h, [st EXCEPT !.pending = pend], r)
    <3>1. [st EXCEPT !.pending = [@ EXCEPT !.status = "awaiting_approval", !.asksUser = TRUE]]
            = [st EXCEPT !.pending = pend]
      BY <1>p DEF RunState
    <3> QED
      BY <1>5, <3>1 DEF AwaitApproval
  <2>3. r \in Processes /\ r.pc = "catch" /\ r.given = p.given /\ r.calls = p.calls
    BY <1>2 DEF PCs
  <2> HIDE DEF pend, r
  <2> QED
    BY <1>1, <2>1, <2>2, <2>3
<1> QED
  BY <1>3, <1>4, <1>5

\* The tool of the current call runs for the first time; store and memory both
\* say that it was started.
LEMMA InvokeSafe ==
  ASSUME LocalInv, SingleInv, NEW h \in Hosts, Invoke(h)
  PROVE  SingleInv' /\ Grows
<1> DEFINE p == proc[h]
           st == p.st
           c == Current(h)
           q == [p EXCEPT !.pc = "invoked"]
<1>p. /\ p \in Processes /\ HostOK(p) /\ st \in RunState /\ StateOK(st) /\ p.pc = "running"
      /\ HostSafe(p, executed, decision) /\ HostSync(p, ckpt, stored) /\ UNCHANGED decision
      /\ executed' = [executed EXCEPT ![c] = @ + 1] /\ Goto(h, q)
  BY DEF LocalInv, HostOK, StateOK, SingleInv, Invoke, At
<1>c. /\ c \in Calls /\ c \in st.asked /\ executed[c] = 0 /\ st.pending.call = c /\ st.pending.status = "started"
      /\ p.given = "none" => 1 \in DOMAIN p.calls /\ p.calls[1] = c
      /\ p.given = "approve" => p.calls = << >>
      /\ p.given \in {"none", "approve"}
  BY <1>p, CurrentOpen, CurrentNotRun DEF InTool, HostOK, PendingShape, GivenShape
<1>1. /\ stored /\ SameRecord(st, ckpt) /\ Knows(executed, st)
      /\ \A d \in Calls : executed[d] \in Nat /\ executed[d] <= 1
  BY <1>p DEF HostSync, HostSafe, SingleInv, StoreSafe, LocalInv, TypeOK
<1> HIDE DEF c
<1>2. \A d \in Calls : executed'[d] = IF d = c THEN 1 ELSE executed[d]
  BY <1>p, <1>c, <1>1 DEF LocalInv, TypeOK
<1>3. Knows(executed', st)
  BY <1>c, <1>1, <1>2 DEF Knows
<1>4. Knows(executed', ckpt)
  BY <1>1, <1>3 DEF Knows, SameRecord
<1>5. q.pc = "invoked" /\ q.st = st /\ q.given = p.given /\ q.calls = p.calls
  BY <1>p DEF Processes
<1>g. Goto(h, q)
  BY <1>p
<1> HIDE DEF q
<1>6. \A i \in DOMAIN p.calls : i > 1 => executed'[p.calls[i]] = 0
  <2> SUFFICES ASSUME NEW i \in DOMAIN p.calls, i > 1 PROVE executed'[p.calls[i]] = 0
    OBVIOUS
  <2>1. p.given = "none"
    BY <1>c
  <2>2. p.calls[i] # c /\ p.calls[i] \in Calls
    BY <1>p, <1>c, <2>1 DEF HostOK, CallsOpen, InTurn, InTool, Processes
  <2>3. executed[p.calls[i]] = 0
    BY <1>p DEF HostSafe, NotRunYet, InTurn, InTool
  <2> QED
    BY <1>2, <2>2, <2>3
<1>7. HostSafe(q, executed', decision')
  BY <1>p, <1>3, <1>5, <1>6 DEF HostSafe, NotRunYet, Approved, InTurn, InTool, AtStart
<1>8. \A d \in Calls : executed'[d] <= 1 /\ (executed'[d] > 0 => stored)
  BY <1>1, <1>2
<1>9. p.pc # "idle" /\ p.pc # "catch" /\ p.pc # "load" /\ q.pc # "load"
  BY <1>p, <1>5
<1> QED
  BY <1>g, <1>4, <1>5, <1>7, <1>8, <1>9, GotoSafe

LEMMA CommitResultSafe ==
  ASSUME LocalInv, SingleInv, NEW h \in Hosts, proc[h].pc \in {"running", "invoked"}, CommitResult(h)
  PROVE  SingleInv' /\ Grows
<1> DEFINE p == proc[h]
           st == p.st
           c == Current(h)
           pend == [st.pending EXCEPT !.status = "committed"]
           s == [AddResult(st, c) EXCEPT !.pending = [@ EXCEPT !.status = "committed"]]
           r == [p EXCEPT !.pc = "committed"]
           q == [r EXCEPT !.st = s]
<1>p. /\ p \in Processes /\ HostOK(p) /\ st \in RunState /\ HostSafe(p, executed, decision)
      /\ UNCHANGED <<executed, decision>> /\ Save(h, s, r)
  BY DEF LocalInv, HostOK, StateOK, SingleInv, CommitResult
<1>t. st.turn \in Nat /\ st.results \in [Calls -> Nat]
  BY <1>p, RecordTypes
<1>c. c \in Calls /\ st.pending \in PendingTool /\ st.pending.call = c
  BY CurrentOpen DEF InTool
<1>n. /\ \A d \in Calls : executed'[d] <= 1 /\ (executed'[d] > 0 => stored)
      /\ stored => Knows(executed', ckpt)
      /\ Knows(executed', st)
  BY <1>p, NoneRuns
<1> HIDE DEF c
<1>1. pend \in PendingTool /\ pend.call = c /\ pend.status = "committed"
  BY <1>c DEF PendingTool, PendingStatus
<1>2. /\ s \in RunState /\ s.turn = st.turn /\ s.asked = st.asked /\ s.pending = pend
      /\ \A d \in Calls : s.results[d] = IF d = c THEN st.results[d] + 1 ELSE st.results[d]
  <2>1. s = [st EXCEPT !.results = [st.results EXCEPT ![c] = @ + 1], !.pending = pend]
    BY <1>p, <1>c DEF AddResult, RunState
  <2>2. [st.results EXCEPT ![c] = @ + 1] \in [Calls -> Nat]
    BY <1>t, <1>c
  <2> HIDE DEF s, pend
  <2> QED
    BY <1>p, <1>t, <1>1, <1>c, <2>1, <2>2 DEF RunState
<1>s. Save(h, s, r)
  BY <1>p
<1> HIDE DEF s, pend
<1>3. r \in Processes /\ r.pc = "committed" /\ q.pc = "committed" /\ q.st = s /\ q.given = p.given /\ q.calls = p.calls
  BY <1>p DEF Processes, PCs
<1> HIDE DEF r, q
<1>4. \A d \in Calls : s.results[d] >= st.results[d] /\ s.results[d] \in Nat /\ s.results[c] > 0
  BY <1>2, <1>t, <1>c
<1>5. Extends(s, st)
  BY <1>2, <1>4, <1>t DEF Extends
<1>6. Knows(executed', s)
  <2>1. \A d \in Calls : executed'[d] > 0 /\ d.tool \in SideEffects => s.results[d] > 0
    <3> SUFFICES ASSUME NEW d \in Calls, executed'[d] > 0, d.tool \in SideEffects PROVE s.results[d] > 0
      OBVIOUS
    <3>1. st.results[d] > 0 \/ d = c
      BY <1>n, <1>c DEF Knows
    <3> QED
      BY <1>4, <1>t, <3>1
  <2> QED
    BY <1>n, <1>1, <1>2, <2>1 DEF Knows
<1>7. HostSafe(q, executed', decision')
  BY <1>p, <1>c, <1>1, <1>2, <1>3, <1>6 DEF HostSafe, NotRunYet, Approved, InTurn, InTool, AtStart
<1> QED
  BY <1>p, <1>s, <1>n, <1>2, <1>3, <1>5, <1>7, SaveSafe DEF q

LEMMA ClearPendingSafe ==
  ASSUME LocalInv, SingleInv, NEW h \in Hosts, ClearPending(h)
  PROVE  SingleInv' /\ Grows
<1> DEFINE p == proc[h]
           st == p.st
           s == [st EXCEPT !.pending = NoPending]
           r == IF p.given = "approve" THEN [p EXCEPT !.pc = "model", !.given = "none"]
                ELSE [p EXCEPT !.pc = "tools", !.calls = Tail(@)]
           q == [r EXCEPT !.st = s]
<1>p. /\ p \in Processes /\ HostOK(p) /\ st \in RunState /\ HostSafe(p, executed, decision) /\ p.pc = "committed"
      /\ UNCHANGED <<executed, decision>> /\ p.calls \in Seq(Calls)
  BY DEF LocalInv, HostOK, StateOK, SingleInv, ClearPending, At, Processes
<1>s. Save(h, s, r)
  BY DEF ClearPending
<1>n. /\ \A d \in Calls : executed'[d] <= 1 /\ (executed'[d] > 0 => stored)
      /\ stored => Knows(executed', ckpt)
      /\ Knows(executed', st)
  BY <1>p, NoneRuns
<1>1. s \in RunState /\ s.turn = st.turn /\ s.asked = st.asked /\ s.results = st.results /\ s.pending = NoPending
  BY <1>p DEF RunState
<1> HIDE DEF s
<1>2. Knows(executed', s)
  <2>1. st.pending.status = "committed"
    BY <1>p DEF HostOK, PendingShape
  <2> QED
    BY <1>n, <1>1, <2>1 DEF Knows, NoPending
<1>3. CASE p.given = "approve"
  <2>1. r \in Processes /\ r.pc = "model" /\ q.pc = "model" /\ q.st = s /\ q.given = "none"
    BY <1>p, <1>3 DEF Processes, PCs, Decisions
  <2> HIDE DEF r, q
  <2>2. HostSafe(q, executed', decision')
    BY <1>1, <1>2, <2>1 DEF HostSafe, NotRunYet, Approved, InTurn, InTool, AtStart, NoPending
  <2> QED
    BY <1>p, <1>s, <1>n, <1>1, <2>1, <2>2, KeepsResults, SaveSafe DEF q
<1>4. CASE p.given # "approve"
  <2>0. p.given = "none" /\ p.calls # << >> /\ Len(p.calls) > 0
    BY <1>p, <1>4 DEF HostOK, GivenShape, InTool
  <2>t. /\ Tail(p.calls) \in Seq(Calls) /\ DOMAIN Tail(p.calls) = 1..(Len(p.calls) - 1)
        /\ \A i \in 1..(Len(p.calls) - 1) : Tail(p.calls)[i] = p.calls[i + 1] /\ i + 1 \in DOMAIN p.calls /\ i + 1 > 1
    BY <1>p, <2>0
  <2>1. /\ r \in Processes /\ r.pc = "tools" /\ q.pc = "tools" /\ q.st = s /\ q.given = "none" /\ q.calls = Tail(p.calls)
    BY <1>p, <1>4, <2>0, <2>t DEF Processes, PCs
  <2> HIDE DEF r, q
  <2>2. \A i \in DOMAIN Tail(p.calls) : executed'[Tail(p.calls)[i]] = 0
    <3>1. \A i \in DOMAIN p.calls : i > 1 => executed[p.calls[i]] = 0
      BY <1>p DEF HostSafe, NotRunYet, InTurn, InTool
    <3> QED
      BY <1>p, <2>t, <3>1
  <2>3. HostSafe(q, executed', decision')
    BY <1>1, <1>2, <2>1, <2>2 DEF HostSafe, NotRunYet, Approved, InTurn, InTool, AtStart, NoPending
  <2> QED
    BY <1>p, <1>s, <1>n, <1>1, <2>1, <2>3, KeepsResults, SaveSafe DEF q
<1> QED
  BY <1>3, <1>4

LEMMA EndStepSafe ==
  ASSUME LocalInv, SingleInv, NEW h \in Hosts,
         AppendSession(h) \/ SaveRevision(h) \/ SaveCompleted(h) \/ DeleteCheckpoint(h) \/ Settle(h)
  PROVE  SingleInv' /\ Grows
<1> DEFINE p == proc[h]
           st == p.st
<1>p. /\ p \in Processes /\ HostOK(p) /\ st \in RunState /\ ckpt \in RunState /\ st.rev \in Nat
      /\ HostSafe(p, executed, decision) /\ HostSync(p, ckpt, stored)
      /\ UNCHANGED <<executed, decision>> /\ p.pc \in AtEnd \union {"catch"}
  BY DEF LocalInv, TypeOK, HostOK, StateOK, RunState, SingleInv, AppendSession, SaveRevision, SaveCompleted,
     DeleteCheckpoint, Settle, At, AtEnd
<1>n. /\ \A d \in Calls : executed'[d] <= 1 /\ (executed'[d] > 0 => stored)
      /\ stored => Knows(executed', ckpt)
      /\ Knows(executed', st)
  BY <1>p, NoneRuns DEF AtEnd
<1>1. ASSUME NEW s \in RunState, SameRecord(s, st), NEW r \in Processes, r.pc \in AtEnd, p.pc \in AtEnd, Save(h, s, r)
      PROVE  SingleInv' /\ Grows
  <2> DEFINE q == [r EXCEPT !.st = s]
  <2>1. q.pc = r.pc /\ q.st = s
    BY DEF Processes
  <2> HIDE DEF q
  <2>2. Knows(executed', s)
    BY <1>n, <1>1 DEF Knows, SameRecord
  <2>3. HostSafe(q, executed', decision')
    BY <1>1, <2>1, <2>2 DEF HostSafe, NotRunYet, Approved, InTurn, InTool, AtStart, AtEnd
  <2> QED
    BY <1>p, <1>n, <1>1, <2>3, ExtendsItself, SaveSafe DEF q, AtEnd
<1>2. CASE AppendSession(h)
  <2>1. CASE Goto(h, [p EXCEPT !.pc = "appended"])
    <3> DEFINE q == [p EXCEPT !.pc = "appended"]
    <3>1. q.pc = "appended" /\ q.st = st
      BY <1>p DEF Processes
    <3> HIDE DEF q
    <3>2. HostSafe(q, executed', decision')
      BY <1>n, <3>1 DEF HostSafe, NotRunYet, Approved, InTurn, InTool, AtStart
    <3> QED
      BY <1>2, <1>n, <2>1, <3>1, <3>2, GotoSafe DEF q, AppendSession, At
  <2>2. CASE Throw(h, "error")
    BY <1>2, <2>2, ThrowSafe DEF AppendSession, At
  <2> QED
    BY <1>2, <2>1, <2>2 DEF AppendSession
<1>3. CASE SaveRevision(h)
  <2> DEFINE s == [st EXCEPT !.rev = st.rev + 1]
             r == [p EXCEPT !.pc = "afterRun"]
  <2>1. Save(h, s, r) /\ p.pc \in AtEnd
    BY <1>3 DEF SaveRevision, At, AtEnd
  <2>2. s \in RunState /\ SameRecord(s, st)
    BY <1>p DEF RunState, SameRecord
  <2>3. r \in Processes /\ r.pc \in AtEnd
    BY <1>p DEF Processes, PCs, AtEnd
  <2> HIDE DEF s, r
  <2> QED
    BY <1>1, <2>1, <2>2, <2>3
<1>4. CASE SaveCompleted(h)
  <2> DEFINE s == [st EXCEPT !.status = "completed"]
             r == [p EXCEPT !.pc = "done"]
  <2>1. Save(h, s, r) /\ p.pc \in AtEnd
    BY <1>4 DEF SaveCompleted, At, AtEnd
  <2>2. s \in RunState /\ SameRecord(s, st) /\ r \in Processes /\ r.pc \in AtEnd
    BY <1>p DEF RunState, SameRecord, Processes, PCs, AtEnd, Statuses
  <2> HIDE DEF s, r
  <2> QED
    BY <1>1, <2>1, <2>2
<1>5. CASE DeleteCheckpoint(h)
  <2>1. ckpt \in RunState /\ SameRecord(ckpt, ckpt)
    BY <1>p DEF SameRecord
  <2>2. /\ p.pc = "done" /\ proc' = [proc EXCEPT ![h] = Idle]
        /\ Store(h, ckpt) \/ UNCHANGED <<ckpt, stored, stale>>
    BY <1>5 DEF DeleteCheckpoint, At
  <2>3. stored
    BY <1>p, <2>2 DEF HostSync
  <2>4. Knows(executed, ckpt) /\ Extends(ckpt, ckpt)
    BY <1>p, <1>n, <2>1, <2>3, ExtendsItself DEF Knows
  <2> QED
    BY <1>p, <2>1, <2>2, <2>4, StoreIdleSafe
<1>6. CASE Settle(h)
  <2> DEFINE status == IF p.raised = "interrupt" THEN "interrupted"
                       ELSE IF p.aborted THEN "cancelled" ELSE "failed"
             s == [st EXCEPT !.status = status]
  <2>1. s \in RunState /\ SameRecord(s, st)
    BY <1>p DEF RunState, SameRecord, Statuses
  <2>2. /\ p.pc = "catch" /\ proc' = [proc EXCEPT ![h] = Idle]
        /\ Store(h, s) \/ UNCHANGED <<ckpt, stored, stale>>
    BY <1>6 DEF Settle, At
  <2> HIDE DEF s
  <2>3. Knows(executed, s)
    BY <1>p, <1>n, <2>1 DEF Knows, SameRecord
  <2>4. stored => Extends(s, ckpt)
    BY <1>p, <2>1, <2>2, ExtendsItself, ExtendsTransitive DEF HostSync
  <2> QED
    BY <1>p, <2>1, <2>2, <2>3, <2>4, StoreIdleSafe
<1> QED
  BY <1>2, <1>3, <1>4, <1>5, <1>6

LEMMA SingleInit == Init => SingleInv
<1> SUFFICES ASSUME Init PROVE SingleInv
  OBVIOUS
<1>1. \A h \in Hosts : proc[h].pc = "idle"
  BY DEF Init, Idle
<1>2. StoreSafe
  BY DEF Init, StoreSafe
<1>3. OneHost
  BY <1>1 DEF OneHost, At
<1> QED
  BY <1>1, <1>2, <1>3, IdleSafe DEF SingleInv

LEMMA SingleStep ==
  ASSUME SingleHost
  PROVE  LocalInv /\ SingleInv /\ [Next]_vars => SingleInv' /\ Grows
<1> SUFFICES ASSUME LocalInv, SingleInv, [Next]_vars PROVE SingleInv' /\ Grows
  OBVIOUS
<1>e. Extends(ckpt, ckpt)
  BY ExtendsItself DEF LocalInv, TypeOK, SameRecord
<1>1. CASE UNCHANGED vars
  BY <1>e, <1>1 DEF vars, SingleInv, OneHost, At, StoreSafe, Grows
<1>2. CASE OtherTurn
  BY <1>e, <1>2 DEF OtherTurn, SingleInv, OneHost, At, StoreSafe, Grows
<1>3. CASE Next
  <2>1. ASSUME NEW h \in Hosts, AbortNoticed(h) PROVE SingleInv' /\ Grows
    <3>1. Throw(h, "error") /\ UNCHANGED executed /\ proc[h].pc # "idle"
      BY <2>1 DEF AbortNoticed, AbortPoint
    <3> QED
      BY <3>1, ThrowSafe
  <2> QED
    BY <1>2, <1>3, <2>1, NextSteps, HostStepSafe, StartStepSafe, CallModelSafe, RunReadBatchSafe, LoopStepSafe,
       EndStepSafe, PendingStepSafe, InvokeSafe, ClearPendingSafe, CommitResultSafe
<1> QED
  BY <1>1, <1>3

\* ADR-010: when a run is resumed only where no host executes it, no crash,
\* cancellation, failed save, decision or resume makes a tool call run twice.
THEOREM RunsAtMostOnce == ASSUME SingleHost PROVE Spec => []ToolRunsAtMostOnce
<1>1. SingleInv => ToolRunsAtMostOnce
  BY DEF SingleInv, StoreSafe, ToolRunsAtMostOnce
<1>2. LocalInv /\ SingleInv /\ [Next]_vars => SingleInv'
  BY SingleStep
<1> QED
  BY LocalInit, LocalStep, SingleInit, <1>1, <1>2, PTL DEF Spec

\* Write-ahead: once a side-effect tool ran, the stored checkpoint says so.
THEOREM TraceLeft == ASSUME SingleHost PROVE Spec => []SideEffectLeavesTrace
<1>1. SingleInv => SideEffectLeavesTrace
  BY DEF SingleInv, StoreSafe, Knows, SideEffectLeavesTrace
<1>2. LocalInv /\ SingleInv /\ [Next]_vars => SingleInv'
  BY SingleStep
<1> QED
  BY LocalInit, LocalStep, SingleInit, <1>1, <1>2, PTL DEF Spec

\* No save loses a turn, a call or a result that the checkpoint had recorded.
THEOREM CheckpointGrows == ASSUME SingleHost PROVE Spec => CheckpointOnlyGrows
<1>1. LocalInv /\ SingleInv /\ [Next]_vars => SingleInv'
  BY SingleStep
<1>2. LocalInv /\ SingleInv /\ [Next]_vars =>
        [stored => /\ ckpt'.turn >= ckpt.turn
                   /\ ckpt.asked \subseteq ckpt'.asked
                   /\ \A c \in Calls : ckpt'.results[c] >= ckpt.results[c]]_vars
  BY SingleStep DEF Grows, Extends
<1> QED
  BY LocalInit, LocalStep, SingleInit, <1>1, <1>2, PTL DEF Spec, CheckpointOnlyGrows

\* The other steps run no tool.
LEMMA OthersRunNothing ==
  ASSUME LocalInv, [Next]_vars, ~ \E h \in Hosts : Invoke(h) \/ RunReadBatch(h) \/ ReadBatchFails(h)
  PROVE  UNCHANGED executed
<1>1. ASSUME NEW h \in Hosts, HostStep(h) PROVE UNCHANGED executed
  BY <1>1 DEF HostStep, Start, Resume, Cancel, Crash, Fail
<1>2. ASSUME NEW h \in Hosts, ToolStep(h) PROVE UNCHANGED executed
  <2>1. Prepare(h) \/ MarkStarted(h) \/ AwaitApproval(h) => UNCHANGED executed
    BY DEF Prepare, MarkStarted, AwaitApproval
  <2>2. ToolRefused(h) \/ ToolSucceeds(h) \/ ToolFails(h) \/ ClearPending(h) => UNCHANGED executed
    BY DEF ToolRefused, ToolSucceeds, ToolFails, CommitResult, ClearPending
  <2> QED
    BY <1>2, <2>1, <2>2 DEF ToolStep
<1>3. ASSUME NEW h \in Hosts, RunStep(h) PROVE UNCHANGED executed
  <2>1. LoadSession(h) \/ SaveInput(h) \/ ResumePending(h) => UNCHANGED executed
    BY DEF LoadSession, SaveInput, ResumePending
  <2>2. CallModel(h) \/ OutOfTurns(h) \/ NextCall(h) => UNCHANGED executed
    BY DEF CallModel, OutOfTurns, NextCall
  <2>3. AppendSession(h) \/ SaveRevision(h) \/ SaveCompleted(h) \/ DeleteCheckpoint(h) => UNCHANGED executed
    BY DEF AppendSession, SaveRevision, SaveCompleted, DeleteCheckpoint
  <2>4. AbortNoticed(h) \/ Settle(h) => UNCHANGED executed
    BY DEF AbortNoticed, Settle
  <2> QED
    BY <1>3, <2>1, <2>2, <2>3, <2>4 DEF RunStep
<1>4. OtherTurn => UNCHANGED executed
  BY DEF OtherTurn
<1> QED
  BY <1>1, <1>2, <1>3, <1>4 DEF Next, vars

LEMMA ApprovalStep ==
  ASSUME LocalInv, SingleInv, [Next]_vars, NEW c \in Calls, executed'[c] # executed[c], c.tool \in NeedsApproval
  PROVE  decision[c] = "approve"
<1>1. PICK h \in Hosts : Invoke(h) \/ RunReadBatch(h) \/ ReadBatchFails(h)
  BY OthersRunNothing
<1>2. CASE Invoke(h)
  <2>1. c = Current(h) /\ proc[h].given = "approve" /\ proc[h].pc = "running"
    BY <1>2 DEF Invoke, At, LocalInv, TypeOK
  <2>2. c = proc[h].st.pending.call
    BY <2>1 DEF Current
  <2> QED
    BY <2>1, <2>2 DEF SingleInv, HostSafe, Approved, InTool
<1>3. CASE RunReadBatch(h) \/ ReadBatchFails(h)
  <2> DEFINE batch == Range(SubSeq(proc[h].calls, 1, Batch(proc[h].calls)))
  <2>1. c \in batch /\ proc[h].pc = "tools"
    BY <1>3 DEF RunReadBatch, ReadBatchFails, At
  <2>2. \A d \in batch : d.tool \notin NeedsApproval
    BY <2>1, BatchFresh
  <2> QED
    BY <2>1, <2>2
<1> QED
  BY <1>1, <1>2, <1>3

\* A tool that needs approval runs only while the latest decision on its call
\* is an approval, whoever resumed the run and however often.
THEOREM RunsOnlyApproved == ASSUME SingleHost PROVE Spec => ApprovalRespected
<1>1. LocalInv /\ SingleInv /\ [Next]_vars => SingleInv'
  BY SingleStep
<1>2. LocalInv /\ SingleInv /\ [Next]_vars =>
        [\A c \in Calls : executed'[c] # executed[c] /\ c.tool \in NeedsApproval
              => decision[c] = "approve"]_vars
  BY ApprovalStep
<1> QED
  BY LocalInit, LocalStep, SingleInit, <1>1, <1>2, PTL DEF Spec, ApprovalRespected


-----------------------------------------------------------------------------
(* ImplementsToolCalls *)

\* What the state s of a host can be ahead of the checkpoint t: the calls of one
\* more turn, or results of calls that are on record.
Adds(s, t) ==
    /\ t.asked \subseteq s.asked
    /\ \/ s.asked = t.asked
       \/ /\ s.results = t.results
          /\ \A c \in s.asked \ t.asked : c.turn = s.turn /\ t.turn < c.turn

\* Whatever saves have failed, a host is one such step ahead of the store.
AheadInv ==
    /\ ~ stored => ckpt.asked = {}
    /\ \A h \in Hosts : ~ At(h, "idle") => Adds(proc[h].st, ckpt)

\* What a step does to the checkpoint, in the terms of ToolCalls.
OneAdds == AheadInv' /\ Adds(ckpt', ckpt)

LEMMA AheadInit == Init => AheadInv
  BY DEF Init, AheadInv, FreshState, At, Idle

LEMMA AddsNothing ==
  ASSUME NEW s, NEW t, s.asked = t.asked
  PROVE  Adds(s, t)
  BY DEF Adds

\* Before its first failed save a host has asked for just what is on record.
LEMMA InStep ==
  ASSUME LocalInv, SingleInv, AheadInv, NEW h \in Hosts, proc[h].pc \notin {"idle", "catch"}
  PROVE  proc[h].st.asked = ckpt.asked
<1> DEFINE p == proc[h]
           st == p.st
<1>p. HostSync(p, ckpt, stored) /\ StateOK(st)
  BY DEF SingleInv, LocalInv, HostOK
<1>1. CASE stored
  BY <1>1, <1>p DEF HostSync, SameRecord
<1>2. CASE ~ stored
  <2>1. st.turn = 0 /\ ckpt.asked = {}
    BY <1>2, <1>p DEF HostSync, AheadInv
  <2>2. \A c \in st.asked : c \in Calls /\ c.turn <= 0
    BY <1>p, <2>1 DEF StateOK, RunState
  <2>3. \A c \in Calls : c.turn >= 1
    BY BoundsAssumption DEF Calls
  <2>4. \A c \in Calls : c.turn \in Int
    BY BoundsAssumption DEF Calls
  <2>5. \A c : c \notin st.asked
    BY <2>2, <2>3, <2>4
  <2> QED
    BY <2>1, <2>5
<1> QED
  BY <1>1, <1>2

\* A step in memory.
LEMMA GotoAdds ==
  ASSUME LocalInv, AheadInv, NEW h \in Hosts, NEW q, q.pc = "idle" \/ Adds(q.st, ckpt),
         proc' = [proc EXCEPT ![h] = q], UNCHANGED <<ckpt, stored>>
  PROVE  OneAdds
<1>1. \A g \in Hosts : proc'[g] = IF g = h THEN q ELSE proc[g]
  BY DEF LocalInv, TypeOK
<1>2. Adds(ckpt', ckpt)
  BY AddsNothing
<1>3. \A g \in Hosts : proc'[g].pc # "idle" => Adds(proc'[g].st, ckpt')
  BY <1>1 DEF AheadInv, At
<1> QED
  BY <1>2, <1>3 DEF OneAdds, AheadInv, At

\* A step in memory that keeps the run state.
LEMMA SameAdds ==
  ASSUME LocalInv, AheadInv, NEW h \in Hosts, ~ At(h, "idle"), NEW q, q.st = proc[h].st, Goto(h, q)
  PROVE  OneAdds
<1>1. Adds(q.st, ckpt)
  BY DEF AheadInv
<1> QED
  BY <1>1, GotoAdds DEF Goto

LEMMA ThrowAdds ==
  ASSUME LocalInv, AheadInv, NEW h \in Hosts, ~ At(h, "idle"), NEW w, Throw(h, w)
  PROVE  OneAdds
<1> DEFINE q == [proc[h] EXCEPT !.pc = "catch", !.raised = w]
<1>1. q.st = proc[h].st /\ Goto(h, q)
  BY DEF Throw, LocalInv, HostOK, Processes
<1> HIDE DEF q
<1> QED
  BY <1>1, SameAdds

\* A save that reaches the store: the host that saves is in step with it or
\* idle, and so are the others.
LEMMA StoreAdds ==
  ASSUME LocalInv, NEW h \in Hosts, \A g \in Hosts \ {h} : At(g, "idle"),
         NEW s, NEW q, q.pc = "idle" \/ q.st = s, Adds(s, ckpt),
         proc' = [proc EXCEPT ![h] = q], Store(h, s)
  PROVE  OneAdds
<1>1. \A g \in Hosts : proc'[g] = IF g = h THEN q ELSE proc[g]
  BY DEF LocalInv, TypeOK
<1>2. ckpt' = s /\ stored' = TRUE
  BY DEF Store
<1>3. \A g \in Hosts : proc'[g].pc # "idle" => Adds(proc'[g].st, ckpt')
  BY <1>1, <1>2, AddsNothing DEF At
<1> QED
  BY <1>2, <1>3 DEF OneAdds, AheadInv, At

\* update(), whether or not the save succeeds.
LEMMA SaveAdds ==
  ASSUME LocalInv, SingleInv, AheadInv, NEW h \in Hosts, ~ At(h, "idle"),
         NEW s, NEW p \in Processes, Adds(s, ckpt), Save(h, s, p)
  PROVE  OneAdds
<1> DEFINE q == [p EXCEPT !.st = s]
           r == [p EXCEPT !.st = s, !.pc = "catch", !.raised = "error"]
<1>1. q.st = s /\ r.st = s
  BY DEF Processes
<1>2. \A g \in Hosts \ {h} : At(g, "idle")
  BY OthersIdle
<1>3. (proc' = [proc EXCEPT ![h] = q] /\ Store(h, s)) \/ Goto(h, r)
  BY DEF Save
<1> HIDE DEF q, r
<1>4. CASE proc' = [proc EXCEPT ![h] = q] /\ Store(h, s)
  BY <1>1, <1>2, <1>4, StoreAdds
<1>5. CASE Goto(h, r)
  BY <1>1, <1>5, GotoAdds DEF Goto
<1> QED
  BY <1>3, <1>4, <1>5

\* A save that asks for no call.
LEMMA KeepsAsked ==
  ASSUME LocalInv, SingleInv, AheadInv, NEW h \in Hosts, proc[h].pc \notin {"idle", "catch"},
         NEW s, s.asked = proc[h].st.asked, NEW p \in Processes, Save(h, s, p)
  PROVE  OneAdds
<1>1. Adds(s, ckpt)
  BY InStep, AddsNothing
<1> QED
  BY <1>1, SaveAdds DEF At

LEMMA HostStepAdds ==
  ASSUME LocalInv, AheadInv, NEW h \in Hosts, HostStep(h)
  PROVE  OneAdds
<1> DEFINE p == proc[h]
<1>p. p \in Processes
  BY DEF LocalInv, HostOK
<1>1. CASE Start(h)
  <2> DEFINE q == [Idle EXCEPT !.pc = "load"]
  <2>1. Goto(h, q) /\ q.st.asked = {} /\ ckpt.asked = {}
    BY <1>1 DEF Start, Idle, FreshState, AheadInv
  <2> HIDE DEF q
  <2>2. Adds(q.st, ckpt)
    BY <2>1, AddsNothing
  <2> QED
    BY <2>1, <2>2, GotoAdds DEF Goto
<1>2. CASE Resume(h)
  <2>1. PICK d \in Decisions :
          proc' = [proc EXCEPT ![h] = [Idle EXCEPT !.pc = "load", !.st = Restored(ckpt), !.from = ckpt.turn, !.given = d]]
    BY <1>2 DEF Resume
  <2> DEFINE q == [Idle EXCEPT !.pc = "load", !.st = Restored(ckpt), !.from = ckpt.turn, !.given = d]
  <2>2. q.st.asked = ckpt.asked
    BY DEF Idle, Restored, LocalInv, TypeOK, RunState
  <2>3. UNCHANGED <<ckpt, stored>> /\ proc' = [proc EXCEPT ![h] = q]
    BY <1>2, <2>1 DEF Resume
  <2> HIDE DEF q
  <2>4. Adds(q.st, ckpt)
    BY <2>2, AddsNothing
  <2> QED
    BY <2>3, <2>4, GotoAdds
<1>3. CASE Cancel(h)
  <2> DEFINE q == [p EXCEPT !.aborted = TRUE]
  <2>1. Goto(h, q) /\ q.st = p.st /\ ~ At(h, "idle")
    BY <1>3, <1>p DEF Cancel, At, Processes
  <2> HIDE DEF q
  <2> QED
    BY <2>1, SameAdds
<1>4. CASE Crash(h)
  <2>1. proc' = [proc EXCEPT ![h] = Idle] /\ UNCHANGED <<ckpt, stored>> /\ Idle.pc = "idle"
    BY <1>4 DEF Crash, Goto, Idle
  <2> QED
    BY <2>1, GotoAdds
<1>5. CASE Fail(h)
  <2>1. Throw(h, "error") /\ ~ At(h, "idle")
    BY <1>5 DEF Fail, FailPoint, At
  <2> QED
    BY <2>1, ThrowAdds
<1> QED
  BY <1>1, <1>2, <1>3, <1>4, <1>5 DEF HostStep


LEMMA StartStepAdds ==
  ASSUME LocalInv, SingleInv, AheadInv, NEW h \in Hosts, LoadSession(h) \/ SaveInput(h) \/ ResumePending(h)
  PROVE  OneAdds
<1> DEFINE p == proc[h]
           st == p.st
           pend == st.pending
<1>p. p \in Processes /\ st \in RunState /\ p.pc \in AtStart
  BY DEF LocalInv, HostOK, StateOK, LoadSession, SaveInput, ResumePending, At, AtStart
<1>s. ASSUME NEW s, s.asked = st.asked, NEW r \in Processes, Save(h, s, r) PROVE OneAdds
  BY <1>p, <1>s, KeepsAsked DEF AtStart
<1>g. ASSUME NEW q, q.st = st, Goto(h, q) PROVE OneAdds
  BY <1>p, <1>g, SameAdds DEF At, AtStart
<1>t. ASSUME NEW w, Throw(h, w) PROVE OneAdds
  BY <1>p, <1>t, ThrowAdds DEF At, AtStart
<1>1. CASE LoadSession(h)
  <2>1. CASE Save(h, [st EXCEPT !.rev = Len(session)], [p EXCEPT !.pc = "input"])
    <3>1. [st EXCEPT !.rev = Len(session)].asked = st.asked /\ [p EXCEPT !.pc = "input"] \in Processes
      BY <1>p DEF RunState, Processes, PCs
    <3> QED
      BY <2>1, <3>1, <1>s
  <2>2. CASE Goto(h, [p EXCEPT !.pc = "resume"])
    <3>1. [p EXCEPT !.pc = "resume"].st = st
      BY <1>p DEF Processes
    <3> QED
      BY <2>2, <3>1, <1>g
  <2> QED
    BY <1>1, <2>1, <2>2, <1>t DEF LoadSession
<1>2. CASE SaveInput(h)
  <2>1. [st EXCEPT !.base = st.rev].asked = st.asked /\ [p EXCEPT !.pc = "resume"] \in Processes
    BY <1>p DEF RunState, Processes, PCs
  <2> QED
    BY <1>2, <2>1, <1>s DEF SaveInput
<1>3. CASE ResumePending(h)
  <2> DEFINE toModel == [p EXCEPT !.pc = "model", !.given = "none"]
             toPrepare == [p EXCEPT !.pc = "prepare"]
             cleared == [st EXCEPT !.pending = NoPending]
  <2>1. /\ toModel \in Processes /\ toModel.st = st /\ toPrepare \in Processes /\ toPrepare.st = st
    BY <1>p DEF Processes, PCs, Decisions
  <2>2. /\ cleared.asked = st.asked /\ AddResult(cleared, pend.call).asked = st.asked
        /\ [st EXCEPT !.pending = [pend EXCEPT !.status = "prepared"]].asked = st.asked
    BY <1>p DEF RunState, AddResult
  <2>3. CompleteCommitted(st).asked = st.asked
    BY <2>2 DEF CompleteCommitted
  <2>4. CASE Goto(h, toModel) \/ Goto(h, toPrepare)
    <3> HIDE DEF toModel, toPrepare
    <3> QED
      BY <2>1, <2>4, <1>g
  <2>5. CASE Save(h, CompleteCommitted(st), toModel)
    <3> HIDE DEF toModel
    <3> QED
      BY <2>1, <2>3, <2>5, <1>s
  <2>6. CASE Save(h, AddResult(cleared, pend.call), toModel)
    <3> DEFINE s == AddResult(cleared, pend.call)
    <3>1. s.asked = st.asked /\ Save(h, s, toModel)
      BY <2>2, <2>6
    <3> HIDE DEF toModel, s
    <3> QED
      BY <2>1, <3>1, <1>s
  <2>7. CASE Save(h, [st EXCEPT !.pending = [pend EXCEPT !.status = "prepared"]], toPrepare)
    <3> DEFINE s == [st EXCEPT !.pending = [pend EXCEPT !.status = "prepared"]]
    <3>1. s.asked = st.asked /\ Save(h, s, toPrepare)
      BY <2>2, <2>7
    <3> HIDE DEF toPrepare, s
    <3> QED
      BY <2>1, <3>1, <1>s
  <2>8. CASE Throw(h, "interrupt")
    BY <2>8, <1>t
  <2> QED
    BY <1>3, <2>4, <2>5, <2>6, <2>7, <2>8 DEF ResumePending
<1> QED
  BY <1>1, <1>2, <1>3

\* The model's response: the calls of the next turn.
LEMMA CallModelAdds ==
  ASSUME LocalInv, SingleInv, AheadInv, NEW h \in Hosts, CallModel(h)
  PROVE  OneAdds
<1> DEFINE p == proc[h]
           st == p.st
           turn == st.turn + 1
<1>p. p \in Processes /\ st \in RunState /\ p.pc = "model" /\ HostSync(p, ckpt, stored)
  BY DEF LocalInv, HostOK, StateOK, CallModel, At, SingleInv
<1>t. st.turn \in Nat /\ SameRecord(st, ckpt)
  BY <1>p, RecordTypes DEF HostSync
<1>0. PICK n \in 0..MaxCalls : \E tools \in [1..n -> Tools] :
        Save(h, [st EXCEPT !.turn = turn, !.asked = @ \union Range(ResponseCalls(turn, tools))],
                [p EXCEPT !.pc = IF n = 0 THEN "finalize" ELSE "tools", !.calls = ResponseCalls(turn, tools)])
  BY DEF CallModel
<1>1. PICK tools \in [1..n -> Tools] :
        Save(h, [st EXCEPT !.turn = turn, !.asked = @ \union Range(ResponseCalls(turn, tools))],
                [p EXCEPT !.pc = IF n = 0 THEN "finalize" ELSE "tools", !.calls = ResponseCalls(turn, tools)])
  BY <1>0
<1> DEFINE calls == ResponseCalls(turn, tools)
           s == [st EXCEPT !.turn = turn, !.asked = @ \union Range(calls)]
           r == [p EXCEPT !.pc = IF n = 0 THEN "finalize" ELSE "tools", !.calls = calls]
<1>2. turn \in 1..MaxTurns
  <2>1. st.turn < MaxTurns
    BY DEF CallModel, TurnsLeft
  <2> HIDE DEF st
  <2> QED
    BY <1>t, <2>1, BoundsAssumption
<1>3. calls \in Seq(Calls) /\ \A i \in DOMAIN calls : calls[i].turn = turn
  BY <1>2, BoundsAssumption DEF ResponseCalls, Calls
<1> HIDE DEF calls
<1>4. \A c \in Range(calls) : c.turn = turn
  BY <1>3 DEF Range
<1>5. s.turn = turn /\ s.asked = st.asked \union Range(calls) /\ s.results = st.results
  BY <1>p DEF RunState
<1>6. r \in Processes
  BY <1>p, <1>3 DEF Processes, PCs
<1>7. Save(h, s, r)
  BY <1>1 DEF calls
<1> HIDE DEF s, r
<1>8. Adds(s, ckpt)
  BY <1>t, <1>4, <1>5 DEF Adds, SameRecord
<1> QED
  BY <1>p, <1>6, <1>7, <1>8, SaveAdds DEF At

LEMMA LoopStepAdds ==
  ASSUME LocalInv, SingleInv, AheadInv, NEW h \in Hosts,
         OutOfTurns(h) \/ RunReadBatch(h) \/ ReadBatchFails(h) \/ NextCall(h)
  PROVE  OneAdds
<1> DEFINE p == proc[h]
           st == p.st
<1>p. p \in Processes /\ st \in RunState /\ p.pc \in {"model", "tools"} /\ p.calls \in Seq(Calls)
  BY DEF LocalInv, HostOK, StateOK, OutOfTurns, RunReadBatch, ReadBatchFails, NextCall, At, Processes
<1>1. CASE OutOfTurns(h) \/ ReadBatchFails(h)
  BY <1>1, <1>p, ThrowAdds DEF OutOfTurns, ReadBatchFails, At
<1>2. CASE RunReadBatch(h)
  <2> DEFINE n == Batch(p.calls)
             batch == Range(SubSeq(p.calls, 1, n))
             counted(f) == [c \in Calls |-> IF c \in batch THEN f[c] + 1 ELSE f[c]]
             s == [st EXCEPT !.results = counted(st.results)]
             rest == SubSeq(p.calls, n + 1, Len(p.calls))
             r == [p EXCEPT !.calls = rest]
  <2>1. Save(h, s, r)
    BY <1>2 DEF RunReadBatch
  <2>2. rest \in Seq(Calls)
    <3>1. p.pc = "tools"
      BY <1>2 DEF RunReadBatch, At
    <3> QED
      BY <3>1, BatchFresh
  <2> HIDE DEF rest, counted
  <2>3. s.asked = st.asked /\ r \in Processes
    BY <1>p, <2>2 DEF RunState, Processes
  <2> HIDE DEF s, r
  <2> QED
    BY <1>p, <2>1, <2>3, KeepsAsked
<1>3. CASE NextCall(h)
  <2>1. PICK pc \in {"model", "prepare"} : Goto(h, [p EXCEPT !.pc = pc])
    BY <1>3 DEF NextCall
  <2>2. [p EXCEPT !.pc = pc].st = st
    BY <1>p DEF Processes
  <2> QED
    BY <1>p, <2>1, <2>2, SameAdds DEF At
<1> QED
  BY <1>1, <1>2, <1>3

LEMMA ToolStepAdds ==
  ASSUME LocalInv, SingleInv, AheadInv, NEW h \in Hosts,
         \/ Prepare(h) \/ MarkStarted(h) \/ AwaitApproval(h) \/ Invoke(h) \/ ClearPending(h)
         \/ proc[h].pc \in {"running", "invoked"} /\ CommitResult(h)
  PROVE  OneAdds
<1> DEFINE p == proc[h]
           st == p.st
<1>p. p \in Processes /\ HostOK(p) /\ st \in RunState /\ p.pc \in InTool /\ p.calls \in Seq(Calls)
  BY DEF LocalInv, HostOK, StateOK, Prepare, MarkStarted, AwaitApproval, Invoke, ClearPending, At, InTool, Processes
<1>s. ASSUME NEW s, s.asked = st.asked, NEW r \in Processes, Save(h, s, r) PROVE OneAdds
  BY <1>p, <1>s, KeepsAsked DEF InTool
<1>1. CASE Prepare(h)
  <2> DEFINE s == [st EXCEPT !.pending = [status |-> "prepared", call |-> Current(h), asksUser |-> FALSE]]
             r == [p EXCEPT !.pc = "before"]
  <2>1. s.asked = st.asked /\ r \in Processes /\ Save(h, s, r)
    BY <1>1, <1>p DEF RunState, Processes, PCs, Prepare
  <2> HIDE DEF s, r
  <2> QED
    BY <2>1, <1>s
<1>2. CASE MarkStarted(h)
  <2> DEFINE s == [st EXCEPT !.pending = [@ EXCEPT !.status = "started"]]
             r == [p EXCEPT !.pc = "running"]
  <2>1. s.asked = st.asked /\ r \in Processes /\ Save(h, s, r)
    BY <1>2, <1>p DEF RunState, Processes, PCs, MarkStarted
  <2> HIDE DEF s, r
  <2> QED
    BY <2>1, <1>s
<1>3. CASE AwaitApproval(h)
  <2> DEFINE s == [st EXCEPT !.pending = [@ EXCEPT !.status = "awaiting_approval", !.asksUser = TRUE]]
             r == [p EXCEPT !.pc = "catch", !.raised = "interrupt"]
  <2>1. s.asked = st.asked /\ r \in Processes /\ Save(h, s, r)
    BY <1>3, <1>p DEF RunState, Processes, PCs, AwaitApproval
  <2> HIDE DEF s, r
  <2> QED
    BY <2>1, <1>s
<1>4. CASE Invoke(h)
  <2>1. Goto(h, [p EXCEPT !.pc = "invoked"]) /\ [p EXCEPT !.pc = "invoked"].st = st
    BY <1>4, <1>p DEF Invoke, Processes
  <2> QED
    BY <1>p, <2>1, SameAdds DEF At, InTool
<1>5. CASE CommitResult(h)
  <2> DEFINE s == [AddResult(st, Current(h)) EXCEPT !.pending = [@ EXCEPT !.status = "committed"]]
             r == [p EXCEPT !.pc = "committed"]
  <2>1. s.asked = st.asked /\ r \in Processes /\ Save(h, s, r)
    BY <1>5, <1>p DEF RunState, Processes, PCs, CommitResult, AddResult
  <2> HIDE DEF s, r
  <2> QED
    BY <2>1, <1>s
<1>6. CASE ClearPending(h)
  <2> DEFINE s == [st EXCEPT !.pending = NoPending]
             r == IF p.given = "approve" THEN [p EXCEPT !.pc = "model", !.given = "none"]
                  ELSE [p EXCEPT !.pc = "tools", !.calls = Tail(@)]
  <2>1. s.asked = st.asked /\ Save(h, s, r)
    BY <1>6, <1>p DEF RunState, ClearPending
  <2>2. p.given # "approve" => Tail(p.calls) \in Seq(Calls)
    BY <1>p DEF HostOK, GivenShape
  <2>3. r \in Processes
    BY <1>p, <2>2 DEF Processes, PCs, Decisions
  <2> HIDE DEF s, r
  <2> QED
    BY <2>1, <2>3, <1>s
<1> QED
  BY <1>1, <1>2, <1>3, <1>4, <1>5, <1>6

LEMMA EndStepAdds ==
  ASSUME LocalInv, SingleInv, AheadInv, NEW h \in Hosts,
         AppendSession(h) \/ SaveRevision(h) \/ SaveCompleted(h) \/ DeleteCheckpoint(h) \/ Settle(h)
  PROVE  OneAdds
<1> DEFINE p == proc[h]
           st == p.st
<1>p. p \in Processes /\ st \in RunState /\ ckpt \in RunState /\ p.pc \in AtEnd \union {"catch"} /\ ~ At(h, "idle")
  BY DEF LocalInv, TypeOK, HostOK, StateOK, AppendSession, SaveRevision, SaveCompleted, DeleteCheckpoint,
     Settle, At, AtEnd
<1>o. \A g \in Hosts \ {h} : At(g, "idle")
  BY <1>p, OthersIdle
<1>i. Idle.pc = "idle"
  BY DEF Idle
<1>1. CASE AppendSession(h)
  <2>1. CASE Goto(h, [p EXCEPT !.pc = "appended"])
    <3>1. [p EXCEPT !.pc = "appended"].st = st
      BY <1>p DEF Processes
    <3> QED
      BY <1>p, <2>1, <3>1, SameAdds
  <2> QED
    BY <1>1, <1>p, <2>1, ThrowAdds DEF AppendSession
<1>2. CASE SaveRevision(h)
  <2> DEFINE s == [st EXCEPT !.rev = st.rev + 1]
             r == [p EXCEPT !.pc = "afterRun"]
  <2>1. s.asked = st.asked /\ r \in Processes /\ Save(h, s, r) /\ p.pc = "appended"
    BY <1>2, <1>p DEF RunState, Processes, PCs, SaveRevision, At
  <2> HIDE DEF s, r
  <2> QED
    BY <2>1, KeepsAsked
<1>3. CASE SaveCompleted(h)
  <2> DEFINE s == [st EXCEPT !.status = "completed"]
             r == [p EXCEPT !.pc = "done"]
  <2>1. s.asked = st.asked /\ r \in Processes /\ Save(h, s, r) /\ p.pc = "afterRun"
    BY <1>3, <1>p DEF RunState, Processes, PCs, SaveCompleted, At
  <2> HIDE DEF s, r
  <2> QED
    BY <2>1, KeepsAsked
<1>4. ASSUME NEW s, Adds(s, ckpt), proc' = [proc EXCEPT ![h] = Idle],
             Store(h, s) \/ UNCHANGED <<ckpt, stored, stale>>
      PROVE  OneAdds
  <2>1. CASE Store(h, s)
    BY <1>o, <1>i, <1>4, <2>1, StoreAdds
  <2>2. CASE UNCHANGED <<ckpt, stored, stale>>
    BY <1>i, <1>4, <2>2, GotoAdds
  <2> QED
    BY <1>4, <2>1, <2>2
<1>5. CASE DeleteCheckpoint(h)
  <2>1. proc' = [proc EXCEPT ![h] = Idle] /\ (Store(h, ckpt) \/ UNCHANGED <<ckpt, stored, stale>>)
    BY <1>5 DEF DeleteCheckpoint
  <2> QED
    BY <1>4, <2>1, AddsNothing
<1>6. CASE Settle(h)
  <2> DEFINE status == IF p.raised = "interrupt" THEN "interrupted"
                       ELSE IF p.aborted THEN "cancelled" ELSE "failed"
             s == [st EXCEPT !.status = status]
  <2>1. /\ s.asked = st.asked /\ s.results = st.results /\ s.turn = st.turn
        /\ proc' = [proc EXCEPT ![h] = Idle]
        /\ Store(h, s) \/ UNCHANGED <<ckpt, stored, stale>>
    BY <1>6, <1>p DEF RunState, Settle
  <2> HIDE DEF s
  <2>2. Adds(st, ckpt)
    BY <1>p DEF AheadInv
  <2>3. Adds(s, ckpt)
    BY <2>1, <2>2 DEF Adds
  <2> QED
    BY <1>4, <2>1, <2>3
<1> QED
  BY <1>1, <1>2, <1>3, <1>5, <1>6

LEMMA AheadStep ==
  ASSUME LocalInv, SingleInv, AheadInv, [Next]_vars
  PROVE  OneAdds
<1>1. CASE UNCHANGED <<ckpt, stored, proc>>
  BY <1>1, AddsNothing DEF OneAdds, AheadInv, At
<1>2. ASSUME NEW h \in Hosts, AbortNoticed(h) PROVE OneAdds
  <2>1. Throw(h, "error") /\ ~ At(h, "idle")
    BY <1>2 DEF AbortNoticed, AbortPoint, At
  <2> QED
    BY <2>1, ThrowAdds
<1>3. CASE Next
  <2>1. OtherTurn => UNCHANGED <<ckpt, stored, proc>>
    BY DEF OtherTurn
  <2> QED
    BY <1>1, <1>2, <1>3, <2>1, NextSteps, HostStepAdds, StartStepAdds, CallModelAdds, LoopStepAdds, ToolStepAdds,
       EndStepAdds
<1> QED
  BY <1>1, <1>3 DEF vars


\* The tools that run in a step: each for a call that is on record without a
\* result, and none of them has run before.
ToolsRun(now) ==
    /\ \A c \in now : c \in ckpt.asked /\ ckpt.results[c] = 0 /\ executed[c] = 0
    /\ executed' = [c \in Calls |-> IF c \in now THEN 1 ELSE executed[c]]

LEMMA InvokeRuns ==
  ASSUME LocalInv, SingleInv, NEW h \in Hosts, Invoke(h)
  PROVE  ToolsRun({Current(h)})
<1> DEFINE p == proc[h]
           c == Current(h)
<1>p. p.pc = "running" /\ HostSync(p, ckpt, stored) /\ executed \in [Calls -> Nat]
      /\ executed' = [executed EXCEPT ![c] = @ + 1]
  <2>1. p.pc = "running" /\ executed' = [executed EXCEPT ![c] = @ + 1]
    BY DEF Invoke, At
  <2>2. HostSync(p, ckpt, stored)
    BY DEF SingleInv
  <2>3. executed \in [Calls -> Nat]
    BY DEF LocalInv, TypeOK
  <2> QED
    BY <2>1, <2>2, <2>3
<1>1. c \in Calls /\ c \in p.st.asked /\ p.st.results[c] = 0 /\ executed[c] = 0
  BY <1>p, CurrentOpen, CurrentNotRun DEF InTool
<1>2. SameRecord(p.st, ckpt)
  BY <1>p DEF HostSync
<1>3. c \in ckpt.asked /\ ckpt.results[c] = 0
  BY <1>1, <1>2 DEF SameRecord
<1> HIDE DEF c
<1>4. executed' = [d \in Calls |-> IF d \in {c} THEN 1 ELSE executed[d]]
  <2>1. executed \in [Calls -> Nat] /\ c \in Calls /\ executed[c] = 0
    BY <1>p, <1>1
  <2>2. executed' = [executed EXCEPT ![c] = 1]
    BY <1>p, <2>1
  <2> QED
    BY <2>1, <2>2
<1> QED
  BY <1>1, <1>3, <1>4 DEF ToolsRun, c

LEMMA BatchRuns ==
  ASSUME LocalInv, SingleInv, NEW h \in Hosts, proc[h].pc = "tools",
         NEW ran, ran \subseteq Range(SubSeq(proc[h].calls, 1, Batch(proc[h].calls))),
         executed' = [c \in Calls |-> IF c \in ran THEN executed[c] + 1 ELSE executed[c]]
  PROVE  ToolsRun(ran)
<1> DEFINE st == proc[h].st
           batch == Range(SubSeq(proc[h].calls, 1, Batch(proc[h].calls)))
<1>1. stored /\ \A c \in batch : c \in st.asked /\ st.results[c] = 0 /\ executed[c] = 0
  BY BatchFresh
<1> HIDE DEF batch
<1>2. SameRecord(st, ckpt)
  BY <1>1 DEF SingleInv, HostSync
<1>3. \A c \in ran : c \in ckpt.asked /\ ckpt.results[c] = 0 /\ executed[c] = 0
  BY <1>1, <1>2 DEF SameRecord, batch
<1> QED
  BY <1>3 DEF ToolsRun

\* A step that runs tools asks for no call.
LEMMA SomeRun ==
  ASSUME LocalInv, SingleInv, NEW h \in Hosts, Invoke(h) \/ RunReadBatch(h) \/ ReadBatchFails(h)
  PROVE  ckpt'.asked = ckpt.asked /\ \E now : ToolsRun(now)
<1> DEFINE p == proc[h]
           st == p.st
<1>1. CASE Invoke(h)
  BY <1>1, InvokeRuns DEF Invoke, Goto
<1>2. CASE ReadBatchFails(h)
  <2>1. p.pc = "tools" /\ UNCHANGED ckpt
    BY <1>2 DEF ReadBatchFails, At, Throw, Goto
  <2>2. PICK ran : /\ ran \subseteq Range(SubSeq(p.calls, 1, Batch(p.calls)))
                   /\ executed' = [c \in Calls |-> IF c \in ran THEN executed[c] + 1 ELSE executed[c]]
    BY <1>2 DEF ReadBatchFails
  <2>3. ToolsRun(ran)
    BY <2>1, <2>2, BatchRuns
  <2> QED
    BY <2>1, <2>3
<1>3. CASE RunReadBatch(h)
  <2> DEFINE batch == Range(SubSeq(p.calls, 1, Batch(p.calls)))
             counted(f) == [c \in Calls |-> IF c \in batch THEN f[c] + 1 ELSE f[c]]
             s == [st EXCEPT !.results = counted(st.results)]
  <2>1. p.pc = "tools" /\ executed' = counted(executed) /\ (ckpt' = ckpt \/ ckpt' = s)
    BY <1>3 DEF RunReadBatch, At, Save, Store, Goto
  <2>2. ToolsRun(batch)
    BY <2>1, BatchRuns
  <2>3. s.asked = st.asked
    BY DEF LocalInv, HostOK, StateOK, RunState
  <2>4. st.asked = ckpt.asked
    BY <2>1 DEF SingleInv, HostSync, SameRecord
  <2> HIDE DEF s
  <2> QED
    BY <2>1, <2>2, <2>3, <2>4
<1> QED
  BY <1>1, <1>2, <1>3

\* Answered is what has a result in the checkpoint.
HasResult == {c \in Calls : ckpt.results[c] > 0}

\* A step that asks for nothing serves open calls, or changes nothing.
LEMMA ServeImplements ==
  ASSUME LocalInv, LocalInv', Grows, AheadInv, ckpt'.asked = ckpt.asked, NEW now, ToolsRun(now)
  PROVE  Durable!Serve
<1>1. \A c \in Calls : ckpt'.results[c] > 0 => c \in ckpt.asked
  BY DEF LocalInv, StateOK
<1>2. \A c \in Calls : ckpt.results[c] > 0 => c \in ckpt.asked
  BY DEF LocalInv, StateOK
<1>3. HasResult \subseteq HasResult'
  <2>1. CASE stored
    <3>1. \A c \in Calls : ckpt'.results[c] >= ckpt.results[c]
      BY <2>1 DEF Grows, Extends
    <3>2. ckpt.results \in [Calls -> Nat] /\ ckpt'.results \in [Calls -> Nat]
      BY RecordTypes DEF LocalInv, TypeOK
    <3>3. \A c \in Calls : ckpt.results[c] > 0 => ckpt'.results[c] > 0
      BY <3>1, <3>2
    <3> QED
      BY <3>3 DEF HasResult
  <2>2. CASE ~ stored
    BY <1>2, <2>2 DEF HasResult, AheadInv
  <2> QED
    BY <2>1, <2>2
<1>4. HasResult' \subseteq ckpt.asked
  BY <1>1 DEF HasResult
<1>5. now \subseteq {c \in ckpt.asked \ HasResult : executed[c] = 0}
  BY DEF ToolsRun, HasResult
<1>6. executed' = [c \in Calls |-> IF c \in now THEN 1 ELSE executed[c]]
  BY DEF ToolsRun
<1>7. \E S \in SUBSET {c \in ckpt.asked \ HasResult : executed[c] = 0} :
        executed' = [c \in Calls |-> IF c \in S THEN 1 ELSE executed[c]]
  BY <1>5, <1>6
<1> QED
  BY <1>3, <1>4, <1>7 DEF Durable!Serve, Durable!Open, HasResult

\* A step that adds calls to the checkpoint adds those of a later turn.
LEMMA AskImplements ==
  ASSUME LocalInv, LocalInv', Adds(ckpt', ckpt), ckpt'.asked # ckpt.asked, UNCHANGED executed
  PROVE  Durable!Ask
<1>1. /\ ckpt.asked \subseteq ckpt'.asked /\ ckpt'.results = ckpt.results
      /\ \A c \in ckpt'.asked \ ckpt.asked : c.turn = ckpt'.turn /\ ckpt.turn < c.turn
  BY DEF Adds
<1>2. ckpt'.asked \subseteq Calls /\ ckpt.asked \subseteq Calls /\ ckpt.turn \in Nat
  BY RecordTypes DEF LocalInv, TypeOK
<1>3. \A c \in ckpt.asked : c.turn <= ckpt.turn
  BY DEF LocalInv, StateOK
<1>4. \A c \in Calls : c.turn \in Nat /\ Turns[c] = c.turn
  BY BoundsAssumption DEF Calls, Turns
<1>5. \A c \in ckpt'.asked \ ckpt.asked :
        /\ \A d \in ckpt.asked : Turns[d] < Turns[c]
        /\ \A d \in ckpt'.asked \ ckpt.asked : Turns[d] = Turns[c]
  <2> TAKE c \in ckpt'.asked \ ckpt.asked
  <2>1. ASSUME NEW d \in ckpt.asked PROVE Turns[d] < Turns[c]
    <3>1. d.turn <= ckpt.turn /\ ckpt.turn < c.turn /\ d \in Calls /\ c \in Calls
      BY <1>1, <1>2, <1>3
    <3>2. d.turn \in Nat /\ c.turn \in Nat /\ Turns[d] = d.turn /\ Turns[c] = c.turn
      BY <1>4, <3>1
    <3> QED
      BY <1>2, <3>1, <3>2
  <2>2. \A d \in ckpt'.asked \ ckpt.asked : Turns[d] = Turns[c]
    BY <1>1, <1>2, <1>4
  <2> QED
    BY <2>1, <2>2
<1> QED
  BY <1>1, <1>2, <1>5 DEF Durable!Ask

LEMMA StepImplements ==
  ASSUME LocalInv, LocalInv', SingleInv, Grows, AheadInv, OneAdds, [Next]_vars
  PROVE  [Durable!Next]_(Durable!vars)
<1>1. CASE \E h \in Hosts : Invoke(h) \/ RunReadBatch(h) \/ ReadBatchFails(h)
  BY <1>1, SomeRun, ServeImplements DEF Durable!Next
<1>2. CASE ~ \E h \in Hosts : Invoke(h) \/ RunReadBatch(h) \/ ReadBatchFails(h)
  <2>1. UNCHANGED executed
    BY <1>2, OthersRunNothing
  <2>2. CASE ckpt'.asked = ckpt.asked
    <3>1. executed' = [c \in Calls |-> IF c \in {} THEN 1 ELSE executed[c]]
      BY <2>1 DEF LocalInv, TypeOK
    <3>2. ToolsRun({})
      BY <3>1 DEF ToolsRun
    <3> QED
      BY <2>2, <3>2, ServeImplements DEF Durable!Next
  <2>3. CASE ckpt'.asked # ckpt.asked
    BY <2>1, <2>3, AskImplements DEF OneAdds, Durable!Next
  <2> QED
    BY <2>2, <2>3
<1> QED
  BY <1>1, <1>2

\* ADR-010: a call is persisted before its tool runs and recovery starts no
\* tool again. Seen through the stored checkpoint, a run that one host at a time
\* executes is a run of ToolCalls, whatever saves fail and hosts crash.
THEOREM CallsAreDurable == ASSUME SingleHost PROVE Spec => ImplementsToolCalls
<1>1. Init => Durable!Init
  BY DEF Init, FreshState, Durable!Init
<1>2. LocalInv /\ SingleInv /\ [Next]_vars => SingleInv' /\ Grows
  BY SingleStep
<1>3. LocalInv /\ SingleInv /\ AheadInv /\ [Next]_vars => AheadInv' /\ OneAdds
  BY AheadStep DEF OneAdds
<1>4. LocalInv /\ LocalInv' /\ SingleInv /\ AheadInv /\ [Next]_vars => [Durable!Next]_(Durable!vars)
  BY <1>2, <1>3, StepImplements
<1> QED
  BY LocalInit, LocalStep, SingleInit, AheadInit, <1>1, <1>2, <1>3, <1>4, PTL DEF Spec, ImplementsToolCalls, Durable!Spec
=============================================================================
