------------------------------ MODULE AgentRun ------------------------------
(***************************************************************************)
(* One durable run of AgentRuntime (src/src/runtime-v2/agentRuntime.ts):    *)
(* the state machine of execute(), its tool calls, the checkpoint written   *)
(* by every update(), the commit to the session, and what a host may do     *)
(* around it: cancel the run, crash, and resume the stored checkpoint with  *)
(* or without a decision on the tool call that waits for approval.          *)
(*                                                                          *)
(* Atomicity follows the awaits of the code: a step ends where the run has  *)
(* awaited a checkpoint save, a session access or a tool, because a crash   *)
(* or a cancellation can fall exactly there.                                *)
(***************************************************************************)
EXTENDS Integers, Sequences, FiniteSets

CONSTANTS
    Hosts,            \* processes that may execute or resume the run
    Tools,            \* registered tools
    SideEffects,      \* tools whose effect is 'side-effect'
    IdempotentWrites, \* tools whose effect is 'idempotent-write'; others read
    NeedsApproval,    \* tools with behavior.requiresApproval
    MaxTurns,         \* limits.maxTurns
    MaxCalls,         \* bound: tool calls in one model response
    MaxParallelTools, \* limits.maxParallelTools
    MaxResumes,       \* bound: resume() calls on this run
    MaxOtherTurns,    \* bound: turns other runs commit to the same session
    SingleHost        \* TRUE: a host resumes only when no host executes

ASSUME ToolsAssumption ==
    /\ SideEffects \subseteq Tools
    /\ IdempotentWrites \subseteq Tools \ SideEffects
    /\ NeedsApproval \subseteq Tools

ASSUME BoundsAssumption ==
    /\ MaxTurns \in Nat \ {0}
    /\ MaxCalls \in Nat
    /\ MaxParallelTools \in Nat \ {0}
    /\ MaxResumes \in Nat
    /\ MaxOtherTurns \in Nat
    /\ SingleHost \in BOOLEAN

VARIABLES
    ckpt,      \* the SerializedRunState in the checkpoint store
    stored,    \* the store holds a checkpoint of the run
    proc,      \* proc[h]: the execution of the run at host h
    session,   \* the committed turns of the session; its length is the revision
    executed,  \* executed[c]: how often the tool of call c ran
    decision,  \* decision[c]: the user's latest decision on call c
    stale,     \* stale[h]: the store moved on since h last read or wrote it
    resumes,   \* resume() calls so far
    others     \* turns other runs have committed

vars == <<ckpt, stored, proc, session, executed, decision, stale, resumes, others>>

-----------------------------------------------------------------------------
(* Data *)

\* A tool call item: the turn and position of the response it came in.
Calls == [turn : 1..MaxTurns, idx : 1..MaxCalls, tool : Tools]

PendingStatus == {"awaiting_approval", "prepared", "started", "committed"}

NoPending == [status |-> "none"]

\* SerializedPendingTool; asksUser says that an interruptionId is present.
PendingTool == [status : PendingStatus, call : Calls, asksUser : BOOLEAN]

Statuses == {"running", "interrupted", "completed", "cancelled", "failed"}

\* SerializedRunState: rev is expectedSessionRevision, base the revision of the
\* history the transcript was built on, asked and results the tool_call and
\* tool_result items of the transcript (results counts them).
RunState ==
    [ status  : Statuses,
      turn    : 0..MaxTurns,
      rev     : Nat,
      base    : Nat,
      pending : PendingTool \union {NoPending},
      asked   : SUBSET Calls,
      results : [Calls -> Nat] ]

FreshState ==
    [ status |-> "running", turn |-> 0, rev |-> 0, base |-> 0,
      pending |-> NoPending, asked |-> {}, results |-> [c \in Calls |-> 0] ]

\* Where execute() stands; a host that executes nothing is "idle".
PCs == { "idle", "load", "input", "resume", "model", "tools", "prepare",
         "before", "running", "invoked", "committed",
         "finalize", "appended", "afterRun", "done", "catch" }

Decisions == {"none", "approve", "reject"}

Processes ==
    [ pc       : PCs,
      st       : RunState,
      calls    : Seq(Calls),                   \* calls of the response not yet handled
      given    : Decisions,                    \* the decision passed to resume()
      from     : 0..MaxTurns,                  \* turn at which this execution began
      aborted  : BOOLEAN,
      raised   : {"none", "interrupt", "error"} ]

Idle == [ pc |-> "idle", st |-> FreshState, calls |-> << >>, given |-> "none",
          from |-> 0, aborted |-> FALSE, raised |-> "none" ]

IsRead(t) == t \notin SideEffects \union IdempotentWrites

\* canParallelizeReadTool: without a tool policy, a read that needs no approval.
Parallel(c) == MaxParallelTools > 1 /\ IsRead(c.tool) /\ c.tool \notin NeedsApproval

\* The longest prefix of calls the inner loop of execute() puts in one batch.
Batch(calls) ==
    LET fits(n) == /\ n <= MaxParallelTools
                   /\ \A i \in 1..n : Parallel(calls[i])
    IN  CHOOSE n \in 0..Len(calls) :
            fits(n) /\ \A m \in 0..Len(calls) : fits(m) => m <= n

\* One more tool_result for call c.
AddResult(st, c) == [st EXCEPT !.results[c] = @ + 1]

\* The tool calls of the model's response to turn t.
ResponseCalls(t, tools) == [i \in DOMAIN tools |-> [turn |-> t, idx |-> i, tool |-> tools[i]]]

Range(s) == {s[i] : i \in DOMAIN s}

\* The state resume() continues with. (Mutant: the turn is not restored.)
RestoredAtTurnZero(st) == [st EXCEPT !.status = "running", !.turn = 0]
Restored(st) == [st EXCEPT !.status = "running"]

\* resumePendingTool() of a committed call: its result is added unless the
\* transcript has it. (Mutant: without looking for it.)
CommittedAgain(st) == AddResult([st EXCEPT !.pending = NoPending], st.pending.call)
CompleteCommitted(st) ==
    IF st.results[st.pending.call] = 0
    THEN AddResult([st EXCEPT !.pending = NoPending], st.pending.call)
    ELSE [st EXCEPT !.pending = NoPending]

\* The condition of the turn loop. (Mutant: one turn too many.)
TurnsLeftInclusive(st) == st.turn <= MaxTurns
TurnsLeft(st) == st.turn < MaxTurns

\* The call executeToolCall is working on: the approved one or the next of the
\* response.
Current(h) == IF proc[h].given = "approve" THEN proc[h].st.pending.call ELSE Head(proc[h].calls)

\* The ids of the call items already journalled in the session.
Journalled == UNION {session[i].ids : i \in DOMAIN session}

\* append() of the session store refuses a stale revision, and an item id it
\* already holds. (Mutant: without the revision.)
AcceptedAtAnyRevision(st) == st.asked \cap Journalled = {}
Accepted(st) == st.rev = Len(session) /\ st.asked \cap Journalled = {}

-----------------------------------------------------------------------------
(* Steps shared by the actions *)

\* A step that changes only the memory of the host.
Goto(h, p) ==
    /\ proc' = [proc EXCEPT ![h] = p]
    /\ UNCHANGED <<ckpt, stored, stale>>

\* checkpointStore.save(). The SQLite adapter reads the current revision just
\* before it writes, so it writes over whatever another host has saved.
Store(h, st) ==
    /\ ckpt' = st
    /\ stored' = TRUE
    /\ stale' = [g \in Hosts |-> g # h /\ proc[g].pc # "idle"]

\* update(): the new run state becomes the host's state and is saved; when the
\* store fails, the run goes on to its catch block with the new state.
Save(h, st, p) ==
    \/ /\ proc' = [proc EXCEPT ![h] = [p EXCEPT !.st = st]]
       /\ Store(h, st)
    \/ Goto(h, [p EXCEPT !.st = st, !.pc = "catch", !.raised = "error"])

Throw(h, what) == Goto(h, [proc[h] EXCEPT !.pc = "catch", !.raised = what])

\* Where a middleware stage, the model call or the loop head sees the abort.
AbortPoint(p) ==
    \/ p.pc \in {"load", "model", "before", "running", "invoked", "finalize", "afterRun"}
    \/ p.pc = "tools" /\ (p.calls # << >> => Parallel(Head(p.calls)))

\* Where something other than a tool can throw: middleware, guardrails, the
\* provider, an event sink.
FailPoint(p) ==
    \/ p.pc \in {"load", "input", "model", "before", "running", "invoked", "committed",
                 "finalize", "appended", "afterRun", "done"}
    \/ p.pc = "tools"

At(h, pc) == proc[h].pc = pc
Live(h) == ~(proc[h].aborted /\ AbortPoint(proc[h]))

-----------------------------------------------------------------------------
(* Starting, resuming, cancelling, crashing *)

MayExecute(h) == At(h, "idle") /\ (SingleHost => \A g \in Hosts : At(g, "idle"))

\* run() or stream(): createSeed gives a fresh state and its own run id, so a
\* run starts at one host only. A run whose first save never happened is
\* started again by its caller.
Start(h) ==
    /\ \A g \in Hosts : At(g, "idle")
    /\ ~stored
    /\ Goto(h, [Idle EXCEPT !.pc = "load"])
    /\ UNCHANGED <<session, executed, decision, resumes, others>>

\* resume(): the host loads the checkpoint of a run that stopped or whose
\* process died, and may pass the user's decision on the waiting call. The
\* status of the checkpoint is not looked at.
Resume(h) ==
    /\ MayExecute(h)
    /\ stored
    /\ resumes < MaxResumes
    /\ resumes' = resumes + 1
    /\ \E d \in Decisions :
        /\ d # "none" => ckpt.pending.status \in {"awaiting_approval", "prepared"}
        /\ d # "none" => ckpt.pending.asksUser
        /\ decision' = IF d = "none" THEN decision
                       ELSE [decision EXCEPT ![ckpt.pending.call] = d]
        /\ proc' = [proc EXCEPT ![h] =
                       [Idle EXCEPT !.pc = "load", !.st = Restored(ckpt),
                                    !.from = ckpt.turn, !.given = d]]
        /\ stale' = [stale EXCEPT ![h] = FALSE]
    /\ UNCHANGED <<ckpt, stored, session, executed, others>>

\* RunHandle.cancel(), the caller's signal or the run deadline.
Cancel(h) ==
    /\ proc[h].pc \notin {"idle", "catch"}
    /\ ~proc[h].aborted
    /\ Goto(h, [proc[h] EXCEPT !.aborted = TRUE])
    /\ UNCHANGED <<session, executed, decision, resumes, others>>

\* The process dies, or the execution fails before its try block (run.started
\* could not be emitted, no permit): what it held in memory is gone.
Crash(h) ==
    /\ ~At(h, "idle")
    /\ Goto(h, Idle)
    /\ UNCHANGED <<session, executed, decision, resumes, others>>

\* Another run of the same session commits a turn.
OtherTurn ==
    /\ others < MaxOtherTurns
    /\ others' = others + 1
    /\ session' = Append(session, [by |-> "other", base |-> Len(session), ids |-> {}])
    /\ UNCHANGED <<ckpt, stored, proc, executed, decision, stale, resumes>>

-----------------------------------------------------------------------------
(* execute(): before the first model call *)

\* Turn 0 loads the session and remembers its revision; a later turn only
\* checks that the session has not moved since.
LoadSession(h) ==
    LET p == proc[h]
        st == p.st
    IN  /\ At(h, "load") /\ Live(h)
        /\ \/ /\ st.turn = 0
              /\ Save(h, [st EXCEPT !.rev = Len(session)], [p EXCEPT !.pc = "input"])
           \/ /\ st.turn > 0 /\ st.rev = Len(session)
              /\ Goto(h, [p EXCEPT !.pc = "resume"])
           \/ /\ st.turn > 0 /\ st.rev # Len(session)      \* SESSION_REVISION_CONFLICT
              /\ Throw(h, "error")
        /\ UNCHANGED <<session, executed, decision, resumes, others>>

\* The transcript is the loaded history plus the input.
SaveInput(h) ==
    /\ At(h, "input")
    /\ Save(h, [proc[h].st EXCEPT !.base = proc[h].st.rev], [proc[h] EXCEPT !.pc = "resume"])
    /\ UNCHANGED <<session, executed, decision, resumes, others>>

\* resumePendingTool(), and the choice to run an approved call.
ResumePending(h) ==
    LET p == proc[h]
        st == p.st
        pend == st.pending
        toModel == [p EXCEPT !.pc = "model", !.given = "none"]
        cleared == [st EXCEPT !.pending = NoPending]
    IN  /\ At(h, "resume")
        /\ \/ /\ pend.status = "none"
              /\ Goto(h, toModel)
           \/ /\ pend.status = "committed"
              /\ Save(h, CompleteCommitted(st), toModel)
           \/ /\ pend.status = "started" /\ pend.call.tool \in SideEffects
              /\ Throw(h, "interrupt")
           \/ /\ pend.status = "started" /\ pend.call.tool \notin SideEffects
              /\ Goto(h, toModel)
           \/ /\ pend.status = "prepared" /\ p.given = "approve"
              /\ Goto(h, [p EXCEPT !.pc = "prepare"])
           \/ /\ pend.status = "prepared" /\ p.given # "approve"
              /\ Goto(h, toModel)
           \/ /\ pend.status = "awaiting_approval" /\ p.given = "none"
              /\ Throw(h, "interrupt")
           \/ /\ pend.status = "awaiting_approval" /\ p.given = "reject"
              /\ Save(h, AddResult(cleared, pend.call), toModel)
           \/ /\ pend.status = "awaiting_approval" /\ p.given = "approve"
              /\ Save(h, [st EXCEPT !.pending = [pend EXCEPT !.status = "prepared"]],
                         [p EXCEPT !.pc = "prepare"])
        /\ UNCHANGED <<session, executed, decision, resumes, others>>

-----------------------------------------------------------------------------
(* execute(): the turn loop *)

\* The loop head: a model call and the save of its response, or the end of the
\* run when the turns are used up.
CallModel(h) ==
    LET p == proc[h]
        turn == p.st.turn + 1
    IN  /\ At(h, "model") /\ Live(h)
        /\ TurnsLeft(p.st)
        /\ \E n \in 0..MaxCalls : \E tools \in [1..n -> Tools] :
             LET calls == ResponseCalls(turn, tools)
             IN  Save(h, [p.st EXCEPT !.turn = turn, !.asked = @ \union Range(calls)],
                         [p EXCEPT !.pc = IF n = 0 THEN "finalize" ELSE "tools",
                                   !.calls = calls])
        /\ UNCHANGED <<session, executed, decision, resumes, others>>

\* EMPTY_MODEL_RESPONSE or MAX_TURNS_EXCEEDED: no answer came within the turns.
OutOfTurns(h) ==
    /\ At(h, "model") /\ Live(h)
    /\ ~TurnsLeft(proc[h].st)
    /\ Throw(h, "error")
    /\ UNCHANGED <<session, executed, decision, resumes, others>>

\* (Mutant: the call after the batch is skipped.)
RunReadBatchSkips(h) ==
    LET p == proc[h]
        n == Batch(p.calls)
        batch == Range(SubSeq(p.calls, 1, n))
        counted(f) == [c \in Calls |-> IF c \in batch THEN f[c] + 1 ELSE f[c]]
    IN  /\ At(h, "tools") /\ Live(h)
        /\ n > 0
        /\ executed' = counted(executed)
        /\ Save(h, [p.st EXCEPT !.results = counted(p.st.results)],
                   [p EXCEPT !.calls = SubSeq(p.calls, n + 2, Len(p.calls))])
        /\ UNCHANGED <<session, decision, resumes, others>>

\* A batch of parallel reads: the tools run, one save records every result.
RunReadBatch(h) ==
    LET p == proc[h]
        n == Batch(p.calls)
        batch == Range(SubSeq(p.calls, 1, n))
        counted(f) == [c \in Calls |-> IF c \in batch THEN f[c] + 1 ELSE f[c]]
    IN  /\ At(h, "tools") /\ Live(h)
        /\ n > 0
        /\ executed' = counted(executed)
        /\ Save(h, [p.st EXCEPT !.results = counted(p.st.results)],
                   [p EXCEPT !.calls = SubSeq(p.calls, n + 1, Len(p.calls))])
        /\ UNCHANGED <<session, decision, resumes, others>>

\* One read of the batch throws, or the run is aborted: tools of the batch may
\* have run, and none of their results is recorded.
ReadBatchFails(h) ==
    /\ At(h, "tools")
    /\ Batch(proc[h].calls) > 0
    /\ \E ran \in SUBSET Range(SubSeq(proc[h].calls, 1, Batch(proc[h].calls))) :
         executed' = [c \in Calls |-> IF c \in ran THEN executed[c] + 1 ELSE executed[c]]
    /\ Throw(h, "error")
    /\ UNCHANGED <<session, decision, resumes, others>>

\* Any other call goes through executeToolCall; AfterTurn ends the turn.
NextCall(h) ==
    LET p == proc[h]
    IN  /\ At(h, "tools") /\ Live(h)
        /\ \/ /\ p.calls = << >>
              /\ Goto(h, [p EXCEPT !.pc = "model"])
           \/ /\ p.calls # << >> /\ ~Parallel(Head(p.calls))
              /\ Goto(h, [p EXCEPT !.pc = "prepare"])
        /\ UNCHANGED <<session, executed, decision, resumes, others>>

-----------------------------------------------------------------------------
(* executeToolCall() *)

\* The pending tool is saved as prepared, without the interruptionId.
Prepare(h) ==
    /\ At(h, "prepare")
    /\ Save(h, [proc[h].st EXCEPT !.pending =
                   [status |-> "prepared", call |-> Current(h), asksUser |-> FALSE]],
               [proc[h] EXCEPT !.pc = "before"])
    /\ UNCHANGED <<session, executed, decision, resumes, others>>

\* (Mutant: the tool starts before the checkpoint says so.)
MarkStartedInMemory(h) ==
    /\ At(h, "before") /\ Live(h)
    /\ Goto(h, [proc[h] EXCEPT !.pc = "running", !.st.pending.status = "started"])
    /\ UNCHANGED <<session, executed, decision, resumes, others>>

\* BeforeToolCall passed: saved as started before the tool is invoked.
MarkStarted(h) ==
    /\ At(h, "before") /\ Live(h)
    /\ Save(h, [proc[h].st EXCEPT !.pending = [@ EXCEPT !.status = "started"]],
               [proc[h] EXCEPT !.pc = "running"])
    /\ UNCHANGED <<session, executed, decision, resumes, others>>

\* ToolRunner.execute() asks for approval: the pending tool waits for the user.
AwaitApproval(h) ==
    /\ At(h, "running") /\ Live(h)
    /\ Current(h).tool \in NeedsApproval /\ proc[h].given # "approve"
    /\ Save(h, [proc[h].st EXCEPT !.pending =
                   [@ EXCEPT !.status = "awaiting_approval", !.asksUser = TRUE]],
               [proc[h] EXCEPT !.pc = "catch", !.raised = "interrupt"])
    /\ UNCHANGED <<session, executed, decision, resumes, others>>

\* (Mutant: the decision is not looked at.)
InvokeUnasked(h) ==
    /\ At(h, "running") /\ Live(h)
    /\ executed' = [executed EXCEPT ![Current(h)] = @ + 1]
    /\ Goto(h, [proc[h] EXCEPT !.pc = "invoked"])
    /\ UNCHANGED <<session, decision, resumes, others>>

\* ToolRunner.execute() calls the tool: its effect on the world happens here.
Invoke(h) ==
    /\ At(h, "running") /\ Live(h)
    /\ Current(h).tool \in NeedsApproval => proc[h].given = "approve"
    /\ executed' = [executed EXCEPT ![Current(h)] = @ + 1]
    /\ Goto(h, [proc[h] EXCEPT !.pc = "invoked"])
    /\ UNCHANGED <<session, decision, resumes, others>>

CommitResult(h) ==
    /\ Save(h, [AddResult(proc[h].st, Current(h)) EXCEPT
                   !.pending = [@ EXCEPT !.status = "committed"]],
               [proc[h] EXCEPT !.pc = "committed"])
    /\ UNCHANGED <<session, executed, decision, resumes, others>>

\* The tool was refused (unknown name, invalid input) before it ran.
ToolRefused(h) == At(h, "running") /\ Live(h) /\ CommitResult(h)

\* The tool returned and AfterToolCall passed.
ToolSucceeds(h) == At(h, "invoked") /\ Live(h) /\ CommitResult(h)

\* (Mutant: a failed tool is tried again.)
ToolFailsAndRetries(h) ==
    /\ At(h, "invoked")
    /\ Goto(h, [proc[h] EXCEPT !.pc = "running"])
    /\ UNCHANGED <<session, executed, decision, resumes, others>>

\* The tool threw, timed out or was cancelled: an error result is committed.
ToolFails(h) == At(h, "invoked") /\ CommitResult(h)

\* The caller clears the pending tool and goes on to the next call.
ClearPending(h) ==
    LET p == proc[h]
    IN  /\ At(h, "committed")
        /\ Save(h, [p.st EXCEPT !.pending = NoPending],
                   IF p.given = "approve"
                   THEN [p EXCEPT !.pc = "model", !.given = "none"]
                   ELSE [p EXCEPT !.pc = "tools", !.calls = Tail(@)])
        /\ UNCHANGED <<session, executed, decision, resumes, others>>

-----------------------------------------------------------------------------
(* execute(): the end of the run *)

\* The answer and everything generated is appended to the session.
AppendSession(h) ==
    LET st == proc[h].st
    IN  /\ At(h, "finalize") /\ Live(h)
        /\ \/ /\ Accepted(st)
              /\ session' = Append(session, [by |-> "run", base |-> st.base, ids |-> st.asked])
              /\ Goto(h, [proc[h] EXCEPT !.pc = "appended"])
           \/ /\ ~Accepted(st)
              /\ Throw(h, "error")
              /\ UNCHANGED session
        /\ UNCHANGED <<executed, decision, resumes, others>>

\* The revision of the commit is saved. Other turns may be in the session by
\* now; append() returned the revision of this one.
SaveRevision(h) ==
    LET st == proc[h].st
    IN  /\ At(h, "appended")
        /\ Save(h, [st EXCEPT !.rev = st.rev + 1], [proc[h] EXCEPT !.pc = "afterRun"])
        /\ UNCHANGED <<session, executed, decision, resumes, others>>

SaveCompleted(h) ==
    /\ At(h, "afterRun") /\ Live(h)
    /\ Save(h, [proc[h].st EXCEPT !.status = "completed"], [proc[h] EXCEPT !.pc = "done"])
    /\ UNCHANGED <<session, executed, decision, resumes, others>>

\* run.completed is emitted and the checkpoint deleted: the SQLite adapter keeps
\* its state, which load() still returns, and saves it again only to set the
\* store's own status column, unless that is "completed". (The column follows the
\* state's status; a delete before that set it alone is not told apart.)
DeleteCheckpoint(h) ==
    /\ At(h, "done")
    /\ proc' = [proc EXCEPT ![h] = Idle]
    /\ \/ ckpt.status = "completed" /\ UNCHANGED <<ckpt, stored, stale>>
       \/ ckpt.status # "completed" /\ Store(h, ckpt)
    /\ UNCHANGED <<session, executed, decision, resumes, others>>

\* (Mutant: a model call that is pending does not see the abort.)
AbortNoticedByTools(h) ==
    /\ proc[h].aborted /\ AbortPoint(proc[h]) /\ ~At(h, "model")
    /\ Throw(h, "error")
    /\ UNCHANGED <<session, executed, decision, resumes, others>>

AbortNoticed(h) ==
    /\ proc[h].aborted /\ AbortPoint(proc[h])
    /\ Throw(h, "error")
    /\ UNCHANGED <<session, executed, decision, resumes, others>>

Fail(h) ==
    /\ FailPoint(proc[h])
    /\ Throw(h, "error")
    /\ UNCHANGED <<session, executed, decision, resumes, others>>

\* The catch block: interruption first, then cancellation, then failure.
Settle(h) ==
    LET p == proc[h]
        status == IF p.raised = "interrupt" THEN "interrupted"
                  ELSE IF p.aborted THEN "cancelled" ELSE "failed"
    IN  /\ At(h, "catch")
        /\ proc' = [proc EXCEPT ![h] = Idle]
        /\ Store(h, [p.st EXCEPT !.status = status]) \/ UNCHANGED <<ckpt, stored, stale>>
        /\ UNCHANGED <<session, executed, decision, resumes, others>>

-----------------------------------------------------------------------------
Init ==
    /\ ckpt = FreshState
    /\ stored = FALSE
    /\ proc = [h \in Hosts |-> Idle]
    /\ session = << >>
    /\ executed = [c \in Calls |-> 0]
    /\ decision = [c \in Calls |-> "none"]
    /\ stale = [h \in Hosts |-> FALSE]
    /\ resumes = 0
    /\ others = 0

\* What execute() itself does next, errors and cancellation included.
ToolStep(h) ==
    \/ Prepare(h) \/ MarkStarted(h) \/ AwaitApproval(h) \/ Invoke(h)
    \/ ToolRefused(h) \/ ToolSucceeds(h) \/ ToolFails(h) \/ ClearPending(h)

RunStep(h) ==
    \/ LoadSession(h) \/ SaveInput(h) \/ ResumePending(h)
    \/ CallModel(h) \/ OutOfTurns(h) \/ RunReadBatch(h) \/ ReadBatchFails(h) \/ NextCall(h)
    \/ AppendSession(h) \/ SaveRevision(h) \/ SaveCompleted(h) \/ DeleteCheckpoint(h)
    \/ AbortNoticed(h) \/ Settle(h)

HostStep(h) == Start(h) \/ Resume(h) \/ Cancel(h) \/ Crash(h) \/ Fail(h)

Next == (\E h \in Hosts : HostStep(h) \/ RunStep(h) \/ ToolStep(h)) \/ OtherTurn

Spec == Init /\ [][Next]_vars

\* Every await of a running execution returns: model and tool calls have
\* timeouts, and the event loop runs what is ready.
FairSpec == Spec /\ \A h \in Hosts : WF_vars(RunStep(h) \/ ToolStep(h))

-----------------------------------------------------------------------------
(* Properties *)

\* Every variable holds a value of its kind.
TypeOK ==
    /\ ckpt \in RunState
    /\ stored \in BOOLEAN
    /\ proc \in [Hosts -> Processes]
    /\ session \in Seq([by : {"run", "other"}, base : Nat, ids : SUBSET Calls])
    /\ executed \in [Calls -> Nat]
    /\ decision \in [Calls -> Decisions]
    /\ stale \in [Hosts -> BOOLEAN]
    /\ resumes \in Nat
    /\ others \in Nat

\* ADR-010: recovery never runs a tool again. Whatever crashes, cancellations,
\* decisions and resumes happen, a call's tool runs at most once.
ToolRunsAtMostOnce == \A c \in Calls : executed[c] <= 1

\* ADR-010: a committed tool result is not appended a second time, whether the
\* run went on by itself or through resumePendingTool.
OneResultPerCall ==
    /\ \A c \in Calls : ckpt.results[c] <= 1
    /\ \A h \in Hosts, c \in Calls : proc[h].st.results[c] <= 1

\* Write-ahead: once the tool of a side-effect call ran, the stored checkpoint
\* says so, as a started or committed pending tool or as a result. A crash at
\* any point leaves a trace that resumption can act on.
SideEffectLeavesTrace ==
    \A c \in Calls : executed[c] > 0 /\ c.tool \in SideEffects =>
        /\ stored
        /\ \/ ckpt.results[c] > 0
           \/ /\ ckpt.pending.status = "started"
              /\ ckpt.pending.call = c

\* Within one execution the model is asked again only when every call it made
\* in that execution has its result. (Calls of earlier executions can be left
\* open by an interruption; README, "Observations".)
ModelSeesItsResults ==
    \A h \in Hosts : At(h, "model") =>
        \A c \in proc[h].st.asked : c.turn > proc[h].from => proc[h].st.results[c] = 1

\* The first turn this run commits sits directly on the history its transcript
\* was built from: no turn of another run slips in between, even when the run
\* was interrupted for long and resumed elsewhere.
CommitsOnTopOfItsHistory ==
    \A i \in DOMAIN session :
        session[i].by = "run" /\ (\A j \in 1..(i - 1) : session[j].by # "run")
            => session[i].base = i - 1

\* A tool that needs approval runs only while the latest decision on its call
\* is an approval; in particular never after a rejection.
ApprovalRespected ==
    [][\A c \in Calls : executed'[c] # executed[c] /\ c.tool \in NeedsApproval
            => decision[c] = "approve"]_vars

\* What the checkpoint has recorded of the conversation is never lost by a
\* later save: turns, calls and results only grow.
CheckpointOnlyGrows ==
    [][stored =>
        /\ ckpt'.turn >= ckpt.turn
        /\ ckpt.asked \subseteq ckpt'.asked
        /\ \A c \in Calls : ckpt'.results[c] >= ckpt.results[c]]_vars

\* ADR-010, section 3: a call is persisted before its tool runs, and recovery
\* starts no tool again. Seen through the stored checkpoint, the run is one of
\* ToolCalls: a tool runs only for a call that is on record without a result,
\* at most once, and no save takes a call or a result back.
Turns == [c \in Calls |-> c.turn]
Durable == INSTANCE ToolCalls WITH
    Turn <- Turns, asked <- ckpt.asked, ran <- executed,
    answered <- {c \in Calls : ckpt.results[c] > 0}
ImplementsToolCalls == Durable!Spec

\* ADR-004: a save is refused when the checkpoint has moved on since the writer
\* last read it. So while a host executes on an outdated state, no change of
\* the checkpoint makes it current again: the change was another host's.
NoSilentOverwrite ==
    [][\A h \in Hosts : stale[h] /\ ~At(h, "idle") /\ ckpt' # ckpt => stale'[h]]_vars

\* Every execution ends: completed, interrupted, cancelled or failed.
ExecutionSettles == \A h \in Hosts : ~At(h, "idle") ~> At(h, "idle")
=============================================================================
