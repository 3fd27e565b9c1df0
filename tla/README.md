# TLA+ models of the Actoviq agent SDK

Specifications, model-checking runs and machine-checked proofs about the
concurrent and durable core of the SDK in `src/src`: how a run is admitted, what
it does between two checkpoints, how its events reach the consumer, how a tree of
child runs is cancelled and shares its permits, how a background child
survives the process that started it, and how several processes share the files
and databases in which sessions, issues and goals are kept.

- `<Component>.tla` models one component and states its properties.
- `ToolCalls.tla`, `Semaphore.tla` and `ChildLifecycle.tla` are abstract
  specifications: what a component promises its users, without the means by which
  it keeps the promise. The component's module ends with the mapping under which
  it implements one.
- `MC<Component>.tla` with `<Component>*.cfg` are its instances for TLC.
- `<Component>Proof.tla` holds theorems checked by TLAPS.
- `PROJECT.json` lists components, runs, hazards and theorems, maps every
  definition to the lines it translates, and gives for each property a mutant: a
  plausible bug of the code that the property detects.

Run a model with `tlc -config RunGate.cfg MCRunGate`, a proof with
`tlapm RunGateProof.tla`.

## 1. The system

The SDK runs language-model agents. A *run* loads a session, asks the model,
executes the tool calls of its answer, asks again, and commits the turn to the
session. It writes a checkpoint at every step so that another process can
resume it. Around the run there are queues that carry its events, child runs
and background children, and stores for sessions, checkpoints, issues, goals
and jobs.

### 1.1 Components

| Component | State | Operations | Talks to |
|---|---|---|---|
| Durable run: `runtime-v2/agentRuntime.ts`, `state.ts`, `tools.ts` | `SerializedRunState`: status, turn, transcript, pending tool, expected session revision | run, resume, cancel; `execute()`, `executeToolCall()`, `resumePendingTool()`, `update()` | model client, tools, checkpoint store, session store, event queue |
| Admission: `agentRuntime.ts` (claim, gate, close), `runtime/sessionTurnCoordinator.ts` | active runs, tails of the session turns, permits and waiters | claim, enter and leave turn and gate, abort, close | durable run |
| Event queue: `runtime/asyncQueue.ts` | buffer, waiting producers, waiting consumers, end state | push, pushAsync, next, return, close, fail, cancel | run (producer), caller (consumer) |
| Background children: `orchestration/background.ts`, `node/sqliteDurableChildStore.ts` | a revisioned record per child; flights of one process | spawn, resume, cancel, execute | child runner, its store |
| Child runs: `orchestration/childRunner.ts`, `scope.ts` | run tree, shared budget, semaphore | run, claim, acquire, adopt, prune | durable run |
| Workflow graph and presets: `orchestration/workflowGraph.ts` | node results, ready set | run a DAG with joins, conditions, failure policies | child runs |
| SQLite stores: `storage-v2/sqliteStorage.ts` | journal with revisions, snapshots, checkpoints, memory | append, compact, save, delete | run |
| Session store: `storage/sessionStore.ts` | one file per session with a revision, a turn lock and a write lock | exclusive turn, save, mutate, delete, heartbeat, takeover | session turns of `runtime/agentClient.ts`, `agentSession.ts`, `sessionManager.ts` |
| Issues: `issues/issueStore.ts`, `issueExecution.ts` | all issues and the next number in `issues.json` | create, update, comment, transition, delete, dispatch | worker and manager sessions, users |
| Goals: `goal/projectGoalStore.ts`, `goalWorkCoordinator.ts`, `goalService.ts` | goal, work items, requests, claims with leases (SQLite) | claim, mark running, request, settle, complete, release, hand off | workers, session turns |
| Remote jobs: `remote/remoteJobStore.ts` | jobs with leases | submit, claim, heartbeat, complete | workers |
| Scheduler: `scheduling/scheduler.ts` | tasks and their next firing | tick, add, remove | runs |
| Services and events: `runtime-v2/services.ts`, `middleware/pipeline.ts`, `events` | service registry, sink queue | resolve, close, emit | run |
| Background tasks, teams, workflow engines, MCP connections | tasks, pools, processes, connections | start, cancel, close | runs |
| Providers, tools, memory, policy, configuration, user interfaces | little of their own | I/O, formatting, pure decisions | all of the above |

### 1.2 What is hard, and what makes each component correct

- **Durable run.** Crashes and cancellations fall at any await, a save may fail,
  decisions arrive in another process days later, and other turns commit to the
  session meanwhile. It is correct when a tool runs at most once and only when
  approved, when its result enters the transcript once and is never lost, when
  the checkpoint always says enough for resumption, and when the turn it commits
  sits on the history it was built from.
- **Admission.** An abort meets a handover; `close()` meets runs that wait for
  a turn or a permit. It is correct when permits are exactly accounted for, no
  permit idles while a run waits, turns of one session do not overlap, permits
  go out in order of arrival, and every claimed run and `close()` end.
- **Event queue.** Producers and consumers wait for each other at a bounded
  buffer that reserves room for the terminal event, coalesces text deltas and
  may drop values. It is correct when no value is lost or doubled, a producer's
  order is kept, the reserve is kept, and nobody waits in vain.
- **Background children.** Several processes read a record and write it with
  compare-and-set, die in between, and lose leases that nobody renews. It is
  correct when a child with a side effect runs at most once, only the latest
  attempt decides the result, an ended child stays ended, and `cancel()` takes
  effect and ends.
- **Child runs.** Cancellation travels down a tree that is pruned from below
  while it grows; parents may end before their children; a parent holds a permit
  of the semaphore its children need. They are correct when cancelling a run
  reaches every descendant that is not over, nothing that has ended stays in the
  tree, permits are exactly accounted for, and every child ends.
- **Session store.** Several processes keep copies of a session, wait for a
  lock file whose owner may be dead, and remove lock files without looking whose
  they are. It is correct when turns do not overlap, what was reported as saved
  is not undone by an older copy, and a waiting turn gets its turn.
- **Issues.** One file is read, changed and written without a lock, and a
  dispatch is a dozen such operations with a worker and a manager in between. It
  is correct when the file stays well-formed even if updates are lost, and an
  issue that is in progress is being worked on and does not stay so.
- **Goals.** A claim is a lease that nobody renews, and claiming, settling and
  releasing take several transactions. It is correct when two agents do not work
  on one item, and work that was abandoned is taken up again.
- **Remote jobs.** Leases that expire while the holder works.
- **Scheduler.** A task due again while it runs, or removed while it runs.

The hazards, with the line where each bites and the property that watches it,
are in `PROJECT.json` under `hazards`; further ones are in section 6.

## 2. The models

### 2.1 `AgentRun`: one durable run

One run, executed by the processes `Hosts`. `ckpt` is the checkpoint in the
store, `proc[h]` what host `h` holds in memory: the place `execute()` has
reached (`pc`), the run state `st`, the calls of the model's answer still to
handle, the decision passed to `resume()`, and the abort flag. `session` is the
list of committed turns; its length is the session revision.

A step ends where the code awaits a save, a session access, the model or a
tool. Because of that a crash, a cancellation or a failure can fall between any
two steps, and nothing else can.

| Code | Actions |
|---|---|
| `run()`, `resume()`, `cancel()`, process death | `Start`, `Resume`, `Cancel`, `Crash` |
| session load and input | `LoadSession`, `SaveInput` |
| `resumePendingTool()` | `ResumePending` |
| turn loop | `CallModel`, `OutOfTurns`, `NextCall`, `RunReadBatch`, `ReadBatchFails` |
| `executeToolCall()` and `ToolRunner.execute()` | `Prepare`, `MarkStarted`, `AwaitApproval`, `Invoke`, `ToolRefused`, `ToolSucceeds`, `ToolFails`, `ClearPending` |
| commit | `AppendSession`, `SaveRevision`, `SaveCompleted`, `DeleteCheckpoint` |
| catch block | `AbortNoticed`, `Fail`, `Settle` |

`update()` is `Save`: it changes the state in memory and then stores it, and
when the store fails the run reaches its catch block *with the new state in
memory*, as in the code. Texts, usage, limits on tokens and cost, guardrails and
middleware are abstracted: each is a point where the run may fail (`FailPoint`)
or notice its cancellation (`AbortPoint`).

The checkpoint store is the SQLite adapter: `save()` reads the current revision
just before it writes, so it writes over anything. Its `delete()` keeps the state
and changes the store's status column only, which no `load()` looks at. The
session store refuses a stale revision and an item id it already holds.

`ToolCalls` is the abstract specification: three sets of facts about calls. A
turn records the calls it asks for; open calls, recorded and without a result,
run or get their result; nothing is taken back and no call runs twice. `AgentRun`
implements it under the mapping that looks at the *stored* checkpoint and not at
any host's memory (`ImplementsToolCalls`): every save is one of its steps, and so
is every tool that runs, although a save may fail and the memory of the host be
ahead of the store.

### 2.2 `RunGate`: admission

All runs of one `AgentRuntime`. `phase[r]` says how far run `r` has come,
`turns[s]` is the chain of promises on a session's tail, `waiters`, `active`
and `permit` are the gate: the second is the code's counter, the third who holds
a permit, so that the invariant can compare the two. JavaScript does not
interrupt synchronous code, so an action is the code between two awaits, abort
listeners included: `Abort` and `Close` remove waiters in the same step.

`Claim` is `claimRun`, `Join` and `TurnStarts` are `executeWithSessionLock`
with `EnterGate` (`acquire()`), `Finish` with `Release` (`release()`) is the
`finally` part, `ReleaseRun` is `releaseRun`, and `Close` and `CloseServices`
are the two halves of `close()`. What a run does while it executes is the
subject of `AgentRun`.

`Semaphore` is the abstract specification of the gate and of the semaphore in
2.5: users inside and a queue. Who comes enters when nobody waits and there is
room, and waits when there is none; who leaves hands its place to the head of
the queue; those who give up waiting leave the others in their order. The code
has a counter, a list of waiters with abort listeners, and a loop that skips the
aborted ones; with the permits really held for the users inside, it behaves so
(`ImplementsSemaphore`). A run that was aborted while it waited executes without
a permit and is nothing to the semaphore.

### 2.3 `AsyncQueue`: events to the consumer

The queue with all its methods, each one synchronous step. A value is who
pushed it, its number and its kind: text deltas coalesce, ordinary events do
not, terminal events have priority. A buffered item is the sequence of values
coalesced into it, so that conservation and order can be stated over single
values. The overflow strategy is chosen when the queue is built. `Flush` is `flushProducers()`, `SettleWaiters` what `close`, `fail` and
`cancel` share.

### 2.4 `DurableChild`: background children

One child; children do not interact except through the child runner. `record`
is the stored record, `flight[m]` the promise in the `flights` map of manager
`m`, `cancel[m]` a `cancel()` call of it, `runs` counts how often the child
really ran. `compareAndSet` is `CompareAndSet`: it writes when the revision is
the one expected, and the record's revision advances by one. `Query`,
`Acquire`, `BeginRun`, `EndRun`, `ReadLatest`, `SaveOutcome` and `StoreFails`
are the awaits of `execute()`, `finishSuccess()` and `finishFailure()`.
`LeaseExpires` is the passing of `leaseMs`; it can happen at any moment,
because no flight renews its lease.

`ChildLifecycle` is the abstract specification: what a parent may count on,
with neither managers nor records nor revisions. A child is spawned once; an
attempt begins when it is queued, or when it runs and may be replayed; each run
of its agent belongs to an attempt of its own; it ends with an outcome of an
attempt, and nothing but a cancellation of a failed child follows. `DurableChild`
implements it under the mapping at its end (`ImplementsLifecycle`): the
compare-and-set makes the step of one manager a step of the child, and every
other step a stutter.

### 2.5 `ChildRuns`: the tree of child runs

One tree under `Root`; `Parent` fixes who is derived from whom, which of them
really start is up to the steps. `nodes`, `children` and `completed` are the map
of the `RunTreeController`; `waiters`, `active` and `holders` the semaphore of
the scope, the counter and who holds a permit again kept apart; `claimed` is the
shared budget. A node's abort controller and the signal of its run are one flag
in `aborted`: they differ only for a node that was adopted anew, and then the
run's own signal, detached from the tree when it was pruned, changes no more.

| Code | Actions |
|---|---|
| `ChildRunner.run()`: `deriveChild()`, `adopt()`, `claimChild()`, `acquire()` | `Begin` with `Claimable`, `Acquire` |
| `raceWithSignal()` settles, `release()` | `EndOperation` with `Release` |
| next attempt after a failure or a refused usage | `Retry` |
| outcome, `complete()`, `prune()` | `Finish` with `Complete`, `Prunable` |
| the owner of the root completes it | `CompleteRoot` |
| `cancelTree()`, abort of a signal | `CancelTree` |

The agent's own work is `AgentRun`; here it ends at some point. With
`LateChildren` the scope of a run that has ended is used again, as
`BackgroundChildManager` does with the scopes it keeps. The comment at
`scope.ts:112` calls the shared semaphore a "fair FIFO semaphore";
`ImplementsSemaphore` says so under the mapping to `Semaphore` (2.2).

### 2.6 `SessionTurn`: one session file, several processes

`file` is the stored session: its revision, the jobs whose messages are in the
transcript and those whose edit its metadata has. `lock` holds the two lock
files, who made each and whether it has reached the stale age. `proc[c]` is what
client `c` is doing, with `snap`, the copy of the session it keeps
(`AgentSession.stored`), and `next`, what it is about to write. Every await of a
file operation ends a step.

| Code | Actions |
|---|---|
| `runOnSession()`, `streamOnSession()`, `mutateMetadata()`, `appendMessages()`, `delete()` | `BeginTurn`, `BeginEdit`, `BeginAppend`, `Delete` |
| `open(lockPath, 'wx')`, `removeStaleLock()` | `Open`, `Stat`, `RemoveStale`, `AbortWait` |
| `runExclusiveTurn()`: token, heartbeat, release | `WriteToken`, `GoesStale`, `Release`, `Unlink` |
| the turn | `LoadSession`, `Checkpoint`, `NextBatch`, `Finish`, `FailTurn` |
| `save()`, `mutate()` inside `withSessionLock()` | `Check` with `Accepts` and `Update`, `Write`, `Unlock` with `Settled` |
| death of a process, a write slower than the stale age | `Crash`, `SlowWrite` |

`raced` remembers that a lock was removed which was not stale, or that a write
outlived its lock. The age of a lock grows only when nobody touches it: a live
turn has a heartbeat every few seconds against a limit of thirty, so that the
lock of a live turn is never stale.

### 2.7 `GoalWork`: work items of a goal

The goal's status, the status of each work item and the request the model has
made for it, the row of `goal_work_claims` of each item, and `work[a]`, how far
agent `a` has come. Agents are of two kinds: workers of
`GoalWorkCoordinator.runWorkers()` and sessions attached to the goal, which claim
inside `executeRun()`. A transaction is one step; `markClaimRunning`,
`completeWorkClaim` and `releaseWorkClaim` are several statements and so several
steps.

| Code | Actions |
|---|---|
| `claimNextWork()`; decision, `claimWorkItem()` | `ClaimNext`; `Decide`, `ClaimItem` |
| `markClaimRunning()`, `beginWorkItem()` | `MarkSelect`, `MarkUpdate`, `Begin` |
| `runWorkers()` | `WorkEnds`, `Handoff` |
| `completeWorkClaim()` | `CompleteSelect`, `CompleteUpdate`, `CompleteDelete` |
| `releaseWorkClaim()` | `Release`, `Reopen` |
| UpdateGoal by the model; `settleGoalRun()`, `settleTurn()`; end of `executeRun()` | `Request`; `SettleRead`, `SettleTurn`; `Settled` |
| `transition()`, `block()`; time; death of a process | `Control`; `Expire`, `ExpireUnknown`; `Crash` |

`known` says that a live process holds the claim's token. It is false after a
crash, after `handoffWork()` to an agent that has not asked, and when a worker
leaves without releasing; a row that has run out and that nobody knows of is no
row. `lapsed` remembers that an agent lost its claim while
it had the item in hand. Which of several runnable items an agent decides on is
left open, so `AbandonedWorkIsTakenUp` is checked where one item depends on the
other and says nothing of the choice among independent ones; an item counts as
taken up when the claim is accepted, not when an agent decides on it.

### 2.8 `Issues`: issues and their dispatch

`file` is `issues.json`. An operation is `ReadForWrite`, which derives the new
contents of the whole file, and a later `Rename`; when the file has changed in
between, the rename undoes that change and `lost` remembers it. `dispatch[d]` is
the place `executeProjectIssue()` has reached and what it keeps of its own copy
of the issue.

| Code | Actions |
|---|---|
| `transitionProjectIssue()`, `updateProjectIssue()`, `addIssueComment()`, `createProjectIssue()`, `deleteProjectIssue()` by a user | `Edit` |
| status test; brief, session and link; `todo`, `in_progress` | `StartDispatch`; `Link`; `ToTodo`, `ToInProgress` |
| IssueReport of the worker; its end | `Report`, `ReportMove`; `WorkerEnds` |
| comment, manager, reset of an issue that is still in progress | `Note`, `Reconcile`, `Look`, `ResetNote`, `Reset` |
| catch block | `FailedNote`, `FailedLook`, `FailedReset` |

`Follows` is the table `TRANSITIONS`, `MayMove` the guard of
`applyIssueTransition()`. Texts, labels, priorities and session links are left
out; an operation that changes only those still writes the whole file.

## 3. The runs

Deadlock is not checked: each system may stop (a run ended, a queue consumed, a
child finished, bounds used up). That nothing stops *too early* is what the
liveness properties say.

| Run | Instance | Shows |
|---|---|---|
| `agent_run` | one host, a side-effect tool with approval, an idempotent write and a read, 2 turns, 2 calls, 2 resumptions, 1 foreign turn | `ToolRunsAtMostOnce`, `OneResultPerCall`, `SideEffectLeavesTrace`, `ModelSeesItsResults`, `ApprovalRespected`, and `ImplementsToolCalls`: it implements `ToolCalls` |
| `agent_run_hosts` | two hosts at once | the first commit sits on the history it was built from even then; every execution ends |
| `agent_run_two_hosts` | two hosts at once | a **violation**: a stale host overwrites the other's checkpoint |
| `run_gate` | 5 runs, 2 sessions, 2 permits | `GateSound`, `OneTurnPerSession`; the gate implements `Semaphore`; runs settle, `close()` ends |
| `async_queue` | 2 producers, 2 iterators, capacity 2, reserve 1, each overflow strategy | conservation, order, the reserve, nobody waits in vain, a waiting push settles while somebody consumes |
| `durable_child` | 2 managers, 2 attempts, a child with a side effect or one that may be replayed | it lives the life of `ChildLifecycle`; a side effect runs once; the latest attempt wins; `cancel()` takes effect and ends |
| `child_runs` | 4 child runs, three of them one below the other, 2 permits, budget 3, 2 attempts | `SemaphoreSound`, `CancelReachesDescendants`, `TerminatedArePruned`; the semaphore implements `Semaphore`; `ChildrenSettle` with the deadlock it excepts |
| `child_runs_late` | the same tree with late children | a **violation**: cancelling the root does not reach a late child |
| `session_turn` | 2 clients, 2 turns, an edit, append, deletion or second checkpoint of a turn, a crash | turns overlap only after a race for a stale lock (`LeaseExclusive`), `SavedStays`, `WaitingTurnGoesOn` |
| `session_turn_stale` | 2 clients, 3 turns, a crash | a **violation**: two turns at once |
| `goal_work` | a worker and a session, an item and one that depends on it, a request at a time, a crash, a change of the goal | `OneRunnerPerItem`, `AbandonedWorkIsTakenUp` |
| `issues` | 2 dispatchers, a user, an edit, a report each, a crash | the file stays well-formed (`TypeOK`), `InProgressIsWorkedOn`, `DispatchSettles` |

`TypeOK` of `RunGate`, `DurableChild` and `ChildRuns` is proved and not run; so
are `CheckpointOnlyGrows` and `FirstComeFirstServed`, whose runs check the
refinements that say more. The type
invariants that are run say more than types where the code promises more: what
`issues.json` keeps when updates are lost, that a goal that has ended has no
claims, that a client at rest holds no lease.

### Bounds, and why they are enough

- *AgentRun.* Two turns let a result of the first be lost or doubled in the
  second; two calls per answer give a call that waits behind the one that is
  interrupted; two resumptions give a decision, a crash and another decision on
  the same call; a foreign turn can commit before, during and after the run.
  Two resumptions with two hosts add nothing to the question asked of two hosts
  (is the commit on the right history), one is enough for both to execute.
- *RunGate.* Two turns of one session, one of another and two runs without a
  session at two permits: a run waits behind its session's turn, another at the
  gate, and the gate can hold two waiters, so order among waiters is visible.
- *AsyncQueue.* Capacity 2 with reserve 1 is the smallest queue with room of
  both kinds; two pushes per producer and two producers give an order and a
  head-of-line waiter; two iterators give competing consumers.
- *DurableChild.* Two managers: one that lost its lease and one that took it
  over, and either may also cancel. `MaxAttempts` bounds `Resume` only; the
  theorems, the refinement among them, hold for any number of managers and
  attempts.
- *ChildRuns.* A chain of three: a run in the middle that ends before its child
  shows cancellation and pruning across it, and the two upper runs can hold both
  permits while the third waits, which is the deadlock of section 6. Another
  child of the root competes with them, and a budget of three refuses one of the
  four.
- *SessionTurn.* Two clients and two turns give a turn that waits for one that
  died; the checkpoint and the final save of a turn give a write before and after an
  edit of the other client. A second checkpoint of a turn differs from the first
  only in what it finds, so it shares the bound of the edits (`MaxExtras`). The race for a stale lock needs a third turn: the
  one that dies, and two that wait.
- *GoalWork.* One agent of each kind is enough for a claim lost to another
  agent, and the agent that lost it may claim again; the dependent item shows
  that a release or a completion out of order would open it too early. One crash
  and one change of the goal can fall between any two statements.
  `MaxControl = 2`, with a goal that is paused and active again, finds nothing
  more and takes twice as long.
- *Issues.* Two dispatchers on one issue and a user give three writers of the
  file, so a lost update of a lost update. The edit may also create a second
  issue. Two reports of one worker differ from one only in a repeated refusal.

### Fairness

- `RunStep(h) \/ ToolStep(h)` is weakly fair: every await of a run returns,
  since model and tool calls have timeouts and the stores answer or throw.
  Nobody has to start, resume, decide, cancel or crash.
- `Progress(r)` and `CloseServices` are weakly fair: the event loop runs what is
  ready and an execution ends (`agent_run_hosts` shows that it does).
- `TakeNext(c)` is weakly fair in `AsyncQueue`: a consumer that has not finished
  goes on with `for await`. Producers owe nothing.
- `FlightStep(m)` and `CancelStep(m)` are weakly fair: store accesses return and
  the child run, an `AgentRun`, ends. Store failures, crashes, lease expiry,
  `Spawn`, `Resume` and new `cancel()` calls are never obliged. `CancelEnds`
  holds under them because attempts are bounded: each conflict that makes
  `cancel()` start again is a write of somebody, and each attempt writes twice.
- `EndsAlone(r)` is weakly fair in `ChildRuns`: an agent whose children have
  ended comes to its end, since it waits for nothing else that does not, and one
  that is aborted loses the race at once. `Retry(r) \/ Finish(r)` is the event
  loop's work. Nobody has to start or cancel a run.
- `ClientStep(c)` is weakly fair in `SessionTurn`: file operations return, the
  model answers or the turn fails. `GoesStale(f)` is fair for the lock of a dead
  process only: time passes. Turns, edits, aborts and crashes are not obliged.
- `WorkerStep(w)` and `SessionStep(s)` are weakly fair in `GoalWork`: workers
  and the continuation of sessions ask for work as long as the goal is active.
  `ExpireUnknown(i)` is time passing for a claim nobody holds. That a live agent
  loses its lease (`Expire`) is never obliged, so nothing depends on it.
- `Rename(p)` and `DispatchStep(d)` are weakly fair in `Issues`: a write returns
  and a dispatch that has begun goes on; the worker's stream ends, since it is a
  run. Nobody has to dispatch, report or edit.

## 4. The proofs

Proved by TLAPS for every value of the constants: every safety property a
passing run checks, invariants and action properties alike. `Spec => []TypeOK`
is `TypeCorrect` in each module (`RunGateTypeOK`, `DurableChildTypeOK` in two).

| Theorem | Statement |
|---|---|
| `AgentRunProof!ResultsNotRepeated` | `OneResultPerCall`, any number of hosts |
| `AgentRunProof!ModelAnswered` | `ModelSeesItsResults`, any number of hosts |
| `AgentRunProof!CommitsOnTop` | `CommitsOnTopOfItsHistory`, any number of hosts |
| `AgentRunProof!RunsAtMostOnce` | `ToolRunsAtMostOnce`, with `SingleHost` |
| `AgentRunProof!TraceLeft` | `SideEffectLeavesTrace`, with `SingleHost` |
| `AgentRunProof!CheckpointGrows` | `CheckpointOnlyGrows`, an action property, with `SingleHost` |
| `AgentRunProof!CallsAreDurable` | `ImplementsToolCalls`: `AgentRun` implements `ToolCalls`, with `SingleHost` |
| `AgentRunProof!RunsOnlyApproved` | `ApprovalRespected`, an action property, with `SingleHost` |
| `RunGateProof!GateIsSound` | `GateSound`: the counter equals the permits held and is within capacity; no permit idles while a run waits; who executes without one is cancelled |
| `RunGateProof!TurnsDoNotOverlap` | `OneTurnPerSession` |
| `RunGateProof!PermitsInOrder` | `FirstComeFirstServed`, an action property |
| `RunGateProof!GateIsFair` | `ImplementsSemaphore`: the gate implements `Semaphore` |
| `AsyncQueueProof!NothingLost` | `NothingLostOrDuplicated` |
| `AsyncQueueProof!OrderKept` | `ProducerOrderKept` |
| `AsyncQueueProof!RoomForTheEnd` | `ReserveKept` |
| `AsyncQueueProof!NoWaitInVain` | `NobodyWaitsInVain`, when `Reserve < Capacity` |
| `DurableChildProof!SideEffectsRunOnce` | `SideEffectRunsOnce` |
| `DurableChildProof!LatestAttemptDecides` | `LatestAttemptWins` |
| `DurableChildProof!CancelIsEffective` | `CancelTakesEffect` |
| `DurableChildProof!EndedStays` | `EndedIsFinal`, an action property |
| `DurableChildProof!LifecycleImplemented` | `ImplementsLifecycle`: `DurableChild` implements `ChildLifecycle` |
| `ChildRunsProof!SemaphoreIsSound` | `SemaphoreSound`, with late children too |
| `ChildRunsProof!SemaphoreIsFair` | `ImplementsSemaphore`: the shared semaphore implements `Semaphore`, with late children too |
| `ChildRunsProof!CancelReaches` | `CancelReachesDescendants`, without late children |
| `ChildRunsProof!EndedArePruned` | `TerminatedArePruned`, without late children |
| `SessionTurnProof!LeaseIsExclusive` | `LeaseExclusive` |
| `SessionTurnProof!SavedIsKept` | `SavedStays` |
| `GoalWorkProof!OneRunner` | `OneRunnerPerItem` |
| `IssuesProof!InProgressIsCovered` | `InProgressIsWorkedOn` |

**Assumptions on constants.** Sets of actors are disjoint where the code keeps
them apart and markers such as `None` are no actors (`OwnersAssumption`,
`AgentsAssumption`, `IssueActorsAssumption`, `NoneAssumption`). Tools, sessions
and effects have the kinds the code knows (`ToolsAssumption`, `RunsAssumption`,
`ChildrenAssumption`). Capacities, limits and the models' bounds are numbers,
positive where a constructor demands it (`CapacityAssumption`,
`LimitsAssumption`, `OptionsAssumption`, `BoundsAssumption`, `BoundAssumption`).
Runs and managers are finite sets where something is counted
(`RunsAssumption`, `TreeAssumption`, `ManagersAssumption`). The bounds stay in
the specifications as arbitrary numbers, so nothing depends on their size.

**Hypotheses of theorems.** Three more say where a property holds, and the
other case is not vacuous but wrong:

- `SingleHost`: a run is resumed only where no host executes it. Without it a
  tool can run twice (section 6); `resume()` leaves this to its caller.
- `Reserve < Capacity`: some slot of the queue is not reserved. In a queue that
  is all reserve, which the constructor accepts (`asyncQueue.ts:111`), a producer
  of ordinary values and a consumer wait for each other, as the attempt to prove
  `NobodyWaitsInVain` without the hypothesis showed and TLC confirmed with one
  slot. The SDK refuses a stream buffer below two, with a reserve of one
  (`runtime-v2/agentRuntime.ts:1355`, `asyncQueue.ts:507`).
- `~LateChildren`: no child is derived from a run that has ended. With late
  children the property is refuted by `child_runs_late`.

**AgentRun.** Three layers. `LocalInv` speaks of one run state or one host at a
time (`StateOK`, `HostOK`: what each place of `execute()` may assume of the
calls still to handle, the pending tool and the decision given), so no other
host can break it. `CommitInv` adds that, until the run has committed, a
transcript stands on the revision its state expects (`BaseOK`); the append is
refused otherwise. `SingleInv` relates three things that only a single host
keeps together: what the executing host knows, what the checkpoint says, and
which tools ran (`Knows`, `HostSync`, `StoreSafe`). Memory and checkpoint hold
the same record wherever the host is, but for the catch block: only a failed
save puts memory ahead, and it leads there, where no tool runs. So what memory
knows of a tool when it runs, the checkpoint knows too: the write-ahead argument.

For `CallsAreDurable` that is not enough: the catch block stores a memory that is
ahead of the checkpoint, and were it ahead by several steps at once, a result
could be recorded of a call that never was. `AheadInv` says that it is ahead by
the calls of one turn or by results of calls on record, never by both (`Adds`);
then each save is `Ask` or `Serve` (`AheadStep`), a step that runs tools asks for
nothing (`SomeRun`), and what runs is open in the *store* (`InvokeRuns`,
`BatchRuns`).

**RunGate.** The properties are not inductive. The invariant adds
`HoldersExecute` (who holds a permit executes), `WaitersWait` (the queue holds
exactly the runs that wait for a permit, each once, and none of them is
aborted), `TurnsJoined` (the runs in `turns[s]` are exactly those of session `s`
between `Join` and `Finish`, each once) and `CurrentTurnFirst` (one that is past
its turn is at the head). Without `HoldersExecute` a waiter that is woken could
already hold a permit and the counter would be wrong; without the third part of
`WaitersWait` the woken run could be one that has left. It follows that the
branch of `release()` that rejects aborted waiters is never taken: a run that is
aborted leaves the queue in the same synchronous step (`ReleaseWakesFirst`).

The refinement of `Semaphore` uses each part once. `acquire()` tests the counter
only: that nobody waits when it finds room is `NoIdlePermit`, and that the
counter is the number inside is `PermitsAccounted`; so it is `Enter` or `Wait`. `release()` is
`HandOver` because the head of the queue is never aborted, and `Leave` otherwise.
`Abort` and `Close` are `GiveUp`: to take some elements out of a sequence keeps the
order of the rest, which the proof shows by the positions the rest had before.

**AsyncQueue.** What was delivered, is buffered and waits form one *line*. The
invariant says that values of one producer increase along it (`LineOK`), which
gives order, and excludes duplicates at the same time; that each value pushed is
in the line or was refused or discarded (`AccountOK`); and what is true when
somebody waits (`WaitOK`): consumers only at an empty buffer, producers only at
one that is not empty, and nobody at a queue that has ended. `Flush` and `Detached` are recursive
functions; that they exist, and what one step of them does, is proved once
(`FillingExists`, `FlushEffect`, `DetachedEffect`) by induction over a set of
numbers (`NatSetInduction`).

**DurableChild.** The invariant says what a manager may believe. `Snapshot`: a
record that was read and whose revision is still the stored one is still the
stored record, but for its lease. This is what makes compare-and-set mean what
it should although the expiry of a lease changes no revision. `FlightOK`: a
flight that is about to write knows such a snapshot, and while its revision is
the stored one the record is running with its attempt. `AttemptsOwned`: no two
flights own one attempt. `RunsCounted`: runs made and runs about to be made are
at most as many as attempts counted. With `~ReplaySafe => attempts <= 1` the
once-only property follows.

**The refinement.** Each write of `DurableChild` happens only while the stored
revision is the one that was read, and `Snapshot` then says that the record
that was read is the stored one. So a write starts from the status the manager
believes in: `AcquireWrites`, `OutcomeWrites` and `CancelWrites` say which step of
the child it is, a run that begins is `Enter` because `RunsCounted` leaves it an
attempt of its own (`RunsBehind`), and everything else changes nothing a parent can see
(`StepsOfLife`).

**ChildRuns.** `SemaphoreInv` is the gate's argument for the shared semaphore,
with one difference: a cancellation takes a whole subtree out of the queue at
once (`WithoutEffect`, with the order of the rest by induction over the length of
the queue in `InOrder`); its refinement of `Semaphore` goes as the gate's. `TreeInv` has four parts. `NodesOfRuns`: a run that is
not over is in the tree, and what has ended is marked. `NodesLinked`: every node
is linked to its parent's, because `prune()` never takes a node whose child stays. So
all the ancestors of a live run are nodes, linked down to it, and
`AbortsInherited` carries a cancellation along these links. `NothingToPrune`: no
set of marked nodes has all the children of its members; if the nodes below an
ended run had all ended, they would be such a set. What is above a run, what a
cancellation visits and what `prune()` removes are least and greatest sets of
their kind, so no induction over the tree is needed and it may have any shape.

**SessionTurn.** `LocalInv` fits a client's copies to the place it has reached.
`LockInv`: the lock files belong to the clients that rely on them, and a stale
one to nobody alive, until one is lost (`raced`). `SavedInv` says how a copy may
differ from the file: it is older than the file or is the file, and a save whose
revision still matches has everything reported as saved (`Fits`); what is being
written follows the file and has it too (`Follows`), and every copy is older
than that (`Precedes`). Thus a save that passes the revision check loses nothing.

**GoalWork.** An agent between claiming and settling either lost its claim
meanwhile (`lapsed`) or holds a valid row with its own name (`LeaseInv`); a row
has one name.

**Issues.** `ContentInv`: the file and *every content about to be written* are
well formed, since any of them may become the file. `CoverInv`: while nothing was
lost and nobody died, an issue in progress has a dispatch that works on it, or
one that has looked at it and is taking it out of progress, and a write that is
not stale puts no other issue in progress.

**Only model-checked.** Everything about liveness (`ExecutionSettles`,
`RunsSettle`, `CloseEnds`, `WaitingPushSettles`, `CancelEnds`, `ChildrenSettle`,
`WaitingTurnGoesOn`, `AbandonedWorkIsTakenUp`, `DispatchSettles`): liveness under
fairness is outside the prover's reach.

## 5. Disagreements between code and documents

- **The checkpoint adapter is last-write-wins** (`agent_run_two_hosts`).
  `node/sqliteCheckpointAdapter.ts:32` loads the current revision immediately
  before it writes and passes it as the expected one. ADR-004 (line 30) requires
  that a checkpoint update takes an expected revision and that a conflict is an
  error, never last-write-wins.
- **The turn lease can be held twice** (`session_turn_stale`). The comment at
  `storage/sessionStore.ts:46-48` says that the lease prevents two model and tool
  loops from running concurrently on stale copies of one session.
  `removeStaleLock()` (line 436) looks at the age of the lock file and then
  removes the file that is there by then: when two clients find the lock of a
  dead process stale, the second may remove the fresh lock of the first, and both
  run. The revision check keeps the file right (`SavedStays`), so the later turn
  fails when it saves, after its tools have run.
- **A late child is not cancelled with its ancestors** (`child_runs_late`).
  `scope.ts:251` adopts a parent that has been pruned as a new node, which
  listens to that parent's own signal; `prune()` (`scope.ts:341`) has detached
  that signal from the runs above it. ADR-005 has every child inherit the
  abort of its parent (line 28) and a parent's cancel traverse the tree (line 81). Background children are derived this way when
  the run that spawned them has ended, and `DurableIssueCoordinator` completes
  its root at once when it does not start its work
  (`durableIssueCoordinator.ts:138`). The adopted node is marked as not
  completed (`scope.ts:254`) and nobody completes it again, so it stays in the
  tree after the child has ended, or was refused by the budget, although the
  controller is to prune what has ended (line 81). `TerminatedArePruned` is
  therefore checked and proved without late children only.

## 6. Observations

What the models showed of the code and no document contradicts:

- With two hosts that execute one run, a side effect can lose its trace in the
  checkpoint, and with two resumptions that both approve, its tool can run
  twice. `resume()` does not look at the status of a checkpoint and takes no
  lease, so single execution is the caller's duty (`SingleHost`).
- When the first of several tool calls is interrupted, the others of the same
  answer are left without result when the run goes on: `ModelSeesItsResults` is
  stated per execution. The same holds for a read or an idempotent write that
  had started, and for a prepared call without a decision, when the process dies.
- A side-effect tool that had started when the process died interrupts every
  resumption; there is no way to record an outcome for it.
- A crash between the save of the new revision and that of `completed` lets a
  resumption commit a turn again when the run has no tool calls; with tool
  calls the uniqueness of item ids refuses it. A failure after the append leaves
  a run that failed although its turn is in the session.
- A checkpoint saved at the last turn resumes into `EMPTY_MODEL_RESPONSE`.
- `finishSuccess()` of a background child: a store that fails once records a
  child that succeeded as failed. Leases are never renewed, so any child longer
  than `leaseMs` may be taken over while it runs. A flight returns its own
  result although the record was cancelled or taken over. `cancel()` turns a
  failed child into a cancelled one.
- Child runs that wait for their own children keep their permit. When as many of
  them run at once as there are permits, all wait until a deadline or a
  cancellation. The run `child_runs` reaches this state (`PermitsWithParents`):
  `ChildrenSettle` says that nothing else keeps a child from ending, and that
  a cancelled run ends even then, whether it waits in the queue or for its
  children.
- `raceWithSignal()` lets an aborted child release its permit while the agent's
  promise may still be pending, so the permits bound the children that count as
  running and not the work in progress.
- `recordUsage()` throws before it adds a usage that passes the limit, so the
  usage is never recorded, and a retry-safe child runs again at the same cost.
- A queue that is all reserve (`priorityReserve = capacity`, which the constructor
  accepts) never admits an ordinary value through `pushAsync`, although it is
  empty and a consumer waits: producer and consumer wait for each other. The SDK
  builds no such queue; `WaitingPushSettles` is checked, and
  `NobodyWaitsInVain` proved, with a reserve below the capacity.
- A priority value whose `pushAsync` waits behind an ordinary one does not use
  the free reserve, and a `push` that is not awaited can overtake an earlier
  waiting `pushAsync` of its own producer; `ProducerOrderKept` therefore holds
  for producers that await (`Waiting`), as those of the SDK do.
- *Sessions.* The write lock has no heartbeat and is removed without looking
  whose it is: with a write slower than thirty seconds a second writer enters,
  and the last one wins (`SlowWrite`; `SavedStays` is stated without it).
  Messages appended while a turn runs are in the file until the turn's next
  checkpoint, which puts the turn's own conversation in place of the transcript.
  An edit between the last checkpoint and the end of a turn fails the turn when
  it saves. A session that `prune()` deletes may have begun a turn.
- *Goals.* Requests of the model are kept per goal: the session that settles
  first applies, or drops for want of evidence, those of another. A claim that
  is completed after `settleTurn()` has already set the item done is refused and
  stays until it expires; so does the claim of a refused hand-off. Between the two
  statements of `markClaimRunning()` an item may end, which is then running
  again; nothing is lost by it but the work is done twice. `renewWorkClaim()` is
  called by nobody, so an agent that works longer than a quarter of an hour may
  share its item (`lapsed`).
- *Issues.* Two dispatchers with an old listing both start an issue and two
  workers run on it; the second one's move to `in_progress` is a move to the same
  status and passes. A stale write can open an issue that was done, and a
  list of sessions computed from an old copy drops the link another dispatch
  has stored (`issueExecution.ts:171`). An issue whose dispatcher dies, or whose
  catch block fails to write, stays in progress until a user moves it. Deleting
  an issue and losing that update, or creating two at once, can give a number
  twice over time, never in one file. The temporary file of a write is named by
  process and millisecond (`issueStore.ts:152`): two overlapping writes of one
  process may share it, and then a rename fails or contents mix. `Issues` takes
  every write to succeed and to be whole.

## 7. Not modelled, and what is left

Components without a module are in `PROJECT.json` with the reason. Pure
decision functions, formatting, I/O leaves and user interfaces stay out: they
are most of the repository's lines and keep no state of their own. Of the
components that are modelled in part, their note in `PROJECT.json` names what is
left out.

Candidates for further modules, most important first:

1. `RunStream`: the composition of a run with its `AsyncQueue`: the terminal
   event is delivered, and no run is blocked by a consumer that left.
2. `Scheduler`: firings of a task that overlap, removal while it runs.
3. `RemoteJobs`, `WorkflowGraph`, `RuntimeServices`.

An abstract specification worth stating next: a channel with a bound that loses
nothing but what its strategy discards, which `AsyncQueue` implements and a
composition with `AgentRun` could use.

Proofs left: that refinement once it is stated, and the properties of the modules
still to be written.
