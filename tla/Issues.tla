------------------------------- MODULE Issues -------------------------------
(***************************************************************************)
(* The issues of a project and their dispatch                              *)
(* (src/src/issues/issueStore.ts and issueExecution.ts). All issues are    *)
(* in one JSON file. Every operation reads the file, derives its new       *)
(* contents and, after an await, replaces it: there is no lock, so an      *)
(* operation that overlaps another undoes it. Dispatchers run              *)
(* executeProjectIssue(); users and the project manager edit issues        *)
(* meanwhile.                                                              *)
(***************************************************************************)
EXTENDS Naturals

CONSTANTS
    Dispatchers,  \* calls of executeProjectIssue()
    Users,        \* who edits issues from the GUI, the TUI or a tool
    None,         \* no write under way
    MaxEdits,     \* bound: edits by users
    MaxReports,   \* bound: calls of IssueReport in one worker run
    MaxCrashes    \* bound: processes that die

ASSUME IssueActorsAssumption == Dispatchers \intersect Users = {}

ASSUME BoundsAssumption == MaxEdits \in Nat /\ MaxReports \in Nat /\ MaxCrashes \in Nat

Actors == Dispatchers \union Users

VARIABLES
    file,      \* issues.json: the issues and the number of the next one
    write,     \* write[p]: what p is about to write, and whether the file has changed since it read
    dispatch,  \* dispatch[d]: where executeProjectIssue() is, and its own copy of the issue
    lost,      \* history: a write has replaced contents its writer had not read
    edits,     \* edits so far
    crashes    \* processes that died

vars == <<file, write, dispatch, lost, edits, crashes>>

Statuses == {"backlog", "todo", "in_progress", "in_review", "done", "blocked", "cancelled"}

\* An issue's id is its number and the edit that created it. started and completed
\* say that it has the two timestamps.
Ids == {<<1, 0>>} \union ((2..(1 + MaxEdits)) \X (1..MaxEdits))
Issue == [id : Ids, number : 1..(1 + MaxEdits), status : Statuses,
          started : BOOLEAN, completed : BOOLEAN]

ASSUME NoneAssumption ==
    None \notin [new : [next : Nat, issues : SUBSET Issue], stale : BOOLEAN]

NewIssue(number, edit, status) ==
    [id |-> <<number, edit>>, number |-> number, status |-> status,
     started |-> FALSE, completed |-> FALSE]

PCs == {"idle", "brief", "todo", "start", "working", "reporting", "note", "reconcile",
        "look", "resetNote", "reset", "failed", "failedLook", "failedReset", "ended"}

\* backlog: the dispatcher's copy of the issue is in the backlog.
Dispatch == [pc : PCs, id : Ids, backlog : BOOLEAN, reported : BOOLEAN, reports : 0..MaxReports]
NoDispatch == [pc |-> "idle", id |-> <<1, 0>>, backlog |-> FALSE, reported |-> FALSE, reports |-> 0]

-----------------------------------------------------------------------------
\* (Mutant: an issue can be reviewed before it was ever in progress.)
FollowsLoosely(from, to) ==
    to \in CASE from = "backlog" -> {"todo", "cancelled"}
             [] from = "todo" -> {"in_progress", "in_review", "cancelled"}
             [] from = "in_progress" -> {"in_review", "blocked", "todo"}
             [] from = "in_review" -> {"done", "todo"}
             [] from = "blocked" -> {"todo"}
             [] OTHER -> {}

\* TRANSITIONS.
Follows(from, to) ==
    to \in CASE from = "backlog" -> {"todo", "cancelled"}
             [] from = "todo" -> {"in_progress", "cancelled"}
             [] from = "in_progress" -> {"in_review", "blocked", "todo"}
             [] from = "in_review" -> {"done", "todo"}
             [] from = "blocked" -> {"todo"}
             [] OTHER -> {}

\* (Mutant: anyone can move an issue to in_progress.)
MayMoveAnyone(i, status, actor) == i.status = status \/ Follows(i.status, status)

\* applyIssueTransition() throws unless the issue has the status already, or the
\* transition exists and only dispatch moves an issue to in_progress.
MayMove(i, status, actor) ==
    \/ i.status = status
    \/ Follows(i.status, status) /\ (status = "in_progress" => actor = "system")

\* applyIssueTransition().
Moved(i, status) ==
    [i EXCEPT !.status = status,
              !.started = @ \/ status = "in_progress",
              !.completed = @ \/ status = "done"]

\* The issues with an id, and the file with another version of an issue.
Found(id) == {i \in file.issues : i.id = id}
With(i, new) == [file EXCEPT !.issues = (@ \ {i}) \union {new}]

\* readIssueStore(), what the caller derives from it, and writeIssueStore() up to
\* the rename: until then the new contents are p's own.
ReadForWrite(p, new) == write' = [write EXCEPT ![p] = [new |-> new, stale |-> FALSE]]

\* Nobody starts an operation before the one before has returned.
Free(p) == write[p] = None

\* writeIssueStore(): the rename replaces the file.
Rename(p) ==
    /\ ~Free(p)
    /\ file' = write[p].new
    /\ lost' = (lost \/ write[p].stale)
    /\ write' = [q \in Actors |->
                    IF q = p \/ write[q] = None THEN None
                    ELSE [write[q] EXCEPT !.stale = @ \/ file' # file]]
    /\ UNCHANGED <<dispatch, edits, crashes>>

-----------------------------------------------------------------------------
\* transitionProjectIssue() by a user. (One that throws changes nothing.)
Transition(u, i, status) ==
    MayMove(i, status, "user") /\ ReadForWrite(u, With(i, Moved(i, status)))

\* updateProjectIssue() and addIssueComment(): what they change is left out, that
\* they write the whole file is not.
Annotate(u) == ReadForWrite(u, file)

\* createProjectIssue().
Create(u) ==
    \E status \in {"backlog", "todo"} :
        ReadForWrite(u, [next |-> file.next + 1,
                         issues |-> file.issues \union {NewIssue(file.next, edits', status)}])

\* deleteProjectIssue().
Delete(u, i) == ReadForWrite(u, [file EXCEPT !.issues = @ \ {i}])

Edit(u) ==
    /\ Free(u) /\ edits < MaxEdits
    /\ edits' = edits + 1
    /\ \/ \E i \in file.issues :
            \/ \E status \in Statuses : Transition(u, i, status)
            \/ Delete(u, i)
       \/ Annotate(u)
       \/ Create(u)
    /\ UNCHANGED <<file, dispatch, lost, crashes>>

-----------------------------------------------------------------------------
\* Dispatcher d is at pc and waits for no write.
At(d, pc) == Free(d) /\ dispatch[d].pc = pc

Goto(d, pc) == dispatch' = [dispatch EXCEPT ![d].pc = pc]

\* An awaited comment on the issue, or a patch of what is left out here; an issue
\* that is gone is not written.
Comment(d) ==
    IF Found(dispatch[d].id) = {} THEN UNCHANGED write ELSE ReadForWrite(d, file)

\* The awaited transition of d's issue as it is now; an issue that is gone lets the
\* dispatcher go on, a transition that throws sends it to failpc.
Move(d, status, pc, failpc) ==
    \/ \E i \in Found(dispatch[d].id) :
         \/ MayMove(i, status, "system") /\ ReadForWrite(d, With(i, Moved(i, status))) /\ Goto(d, pc)
         \/ ~MayMove(i, status, "system") /\ Goto(d, failpc) /\ UNCHANGED write
    \/ Found(dispatch[d].id) = {} /\ Goto(d, pc) /\ UNCHANGED write

\* The caller lists the issues and picks one; the status test is on that copy.
StartDispatch(d) ==
    /\ At(d, "idle")
    /\ \E i \in file.issues :
         /\ i.status \in {"todo", "backlog"}
         /\ dispatch' = [dispatch EXCEPT ![d] =
                [NoDispatch EXCEPT !.pc = "brief", !.id = i.id, !.backlog = (i.status = "backlog")]]
    /\ UNCHANGED write

\* The manager has written the brief: it and the worker session are stored in the
\* issue, and the dispatcher goes on with what updateProjectIssue() returns, or with
\* its old copy of an issue that is gone.
Link(d) ==
    /\ At(d, "brief")
    /\ Comment(d)
    /\ LET backlog == IF Found(dispatch[d].id) = {} THEN dispatch[d].backlog
                      ELSE \E i \in Found(dispatch[d].id) : i.status = "backlog"
       IN  dispatch' = [dispatch EXCEPT ![d].pc = IF backlog THEN "todo" ELSE "start",
                                        ![d].backlog = FALSE]

\* An error before the worker runs ends the dispatch as it is.
ToTodo(d) == At(d, "todo") /\ Move(d, "todo", "start", "ended")

ToInProgress(d) == At(d, "start") /\ Move(d, "in_progress", "working", "ended")

\* IssueReport: a comment, then the transition by the agent. An issue that is gone
\* or in the wrong status is an error of the tool, and the worker runs on.
Report(d) ==
    /\ At(d, "working") /\ dispatch[d].reports < MaxReports
    /\ Comment(d)
    /\ dispatch' = [dispatch EXCEPT ![d].pc = "reporting", ![d].reports = @ + 1]

ReportMove(d) ==
    /\ At(d, "reporting")
    /\ \E status \in {"in_review", "blocked"} :
         \/ \E i \in Found(dispatch[d].id) :
              /\ MayMove(i, status, "agent")
              /\ ReadForWrite(d, With(i, Moved(i, status)))
              /\ dispatch' = [dispatch EXCEPT ![d].pc = "working", ![d].reported = TRUE]
         \/ /\ \A i \in Found(dispatch[d].id) : ~MayMove(i, status, "agent")
            /\ Goto(d, "working") /\ UNCHANGED write

\* The worker's stream ends, or throws.
WorkerEnds(d) ==
    /\ At(d, "working")
    /\ IF dispatch[d].reported THEN Goto(d, "ended") ELSE Goto(d, "note") \/ Goto(d, "failed")
    /\ UNCHANGED write

\* A worker that did not report: a comment, then the manager decides.
Note(d) == At(d, "note") /\ Comment(d) /\ Goto(d, "reconcile")

\* The manager moves the issue with IssueUpdate, leaves it, or its run fails.
Reconcile(d) ==
    /\ At(d, "reconcile")
    /\ \/ \E i \in Found(dispatch[d].id), status \in Statuses \ {"in_progress"} :
            /\ MayMove(i, status, "manager")
            /\ ReadForWrite(d, With(i, Moved(i, status)))
            /\ Goto(d, "look")
       \/ (Goto(d, "look") \/ Goto(d, "failed")) /\ UNCHANGED write

\* (Mutant: only an issue that the agent has blocked goes back to todo.)
StillBlocked(d) == \E i \in Found(dispatch[d].id) : i.status = "blocked"

\* An issue that is still in progress goes back to todo.
StillInProgress(d) == \E i \in Found(dispatch[d].id) : i.status = "in_progress"

Look(d) ==
    /\ At(d, "look")
    /\ Goto(d, IF StillInProgress(d) THEN "resetNote" ELSE "ended")
    /\ UNCHANGED write

ResetNote(d) == At(d, "resetNote") /\ Comment(d) /\ Goto(d, "reset")

Reset(d) == At(d, "reset") /\ Move(d, "todo", "ended", "failed")

\* The catch block; errors of its own operations are swallowed.
FailedNote(d) == At(d, "failed") /\ Comment(d) /\ Goto(d, "failedLook")

FailedLook(d) ==
    /\ At(d, "failedLook")
    /\ Goto(d, IF StillInProgress(d) THEN "failedReset" ELSE "ended")
    /\ UNCHANGED write

FailedReset(d) == At(d, "failedReset") /\ Move(d, "todo", "ended", "ended")

\* The process of a dispatcher dies, before or after the rename.
Crash(d) ==
    /\ dispatch[d].pc \notin {"idle", "ended"} \/ ~Free(d)
    /\ crashes < MaxCrashes
    /\ crashes' = crashes + 1
    /\ Goto(d, "ended")
    /\ write' = [write EXCEPT ![d] = None]
    /\ UNCHANGED <<file, lost, edits>>

-----------------------------------------------------------------------------
Init ==
    /\ \E status \in {"backlog", "todo"} :
         file = [next |-> 2, issues |-> {NewIssue(1, 0, status)}]
    /\ write = [p \in Actors |-> None]
    /\ dispatch = [d \in Dispatchers |-> NoDispatch]
    /\ lost = FALSE
    /\ edits = 0
    /\ crashes = 0

\* The steps of a dispatch that is under way.
Continue(d) ==
    \/ Link(d) \/ ToTodo(d) \/ ToInProgress(d)
    \/ ReportMove(d) \/ WorkerEnds(d)
    \/ Note(d) \/ Reconcile(d) \/ Look(d) \/ ResetNote(d) \/ Reset(d)
    \/ FailedNote(d) \/ FailedLook(d) \/ FailedReset(d)

DispatchStep(d) == Continue(d) /\ UNCHANGED <<file, lost, edits, crashes>>

Next ==
    \/ \E p \in Actors : Rename(p)
    \/ \E u \in Users : Edit(u)
    \/ \E d \in Dispatchers :
         \/ (StartDispatch(d) \/ Report(d)) /\ UNCHANGED <<file, lost, edits, crashes>>
         \/ DispatchStep(d)
         \/ Crash(d)

Spec == Init /\ [][Next]_vars

\* Writes return and a dispatch that has started goes on; nobody has to dispatch,
\* report or edit.
Fairness ==
    /\ \A p \in Actors : WF_vars(Rename(p))
    /\ \A d \in Dispatchers : WF_vars(DispatchStep(d))

FairSpec == Spec /\ Fairness

-----------------------------------------------------------------------------
\* Types, and what the file keeps in spite of lost updates: no two issues share a
\* number, the next number is new, no issue is in review, blocked or done that was
\* never dispatched, and those that were completed are done.
TypeOK ==
    /\ file.next \in 2..(2 + MaxEdits)
    /\ file.issues \subseteq Issue
    /\ dispatch \in [Dispatchers -> Dispatch]
    /\ lost \in BOOLEAN /\ edits \in 0..MaxEdits /\ crashes \in 0..MaxCrashes
    /\ \A i, j \in file.issues : i.number = j.number => i = j
    /\ \A i \in file.issues :
         /\ i.number < file.next
         /\ i.status \in {"in_progress", "in_review", "blocked", "done"} => i.started
         /\ i.completed <=> i.status = "done"

\* While no update is lost and no process dies, an issue in progress is being worked
\* on by a dispatch that has not reported and will settle it - also when two dispatches
\* run on one issue, users move it meanwhile, or one of the dispatches resets it.
Responsible(d, i) ==
    /\ dispatch[d].id = i.id
    /\ \/ ~Free(d)
       \/ dispatch[d].pc \notin {"idle", "ended"} /\ ~dispatch[d].reported
InProgressIsWorkedOn ==
    ~lost /\ crashes = 0 =>
        \A i \in file.issues :
            i.status = "in_progress" => \E d \in Dispatchers : Responsible(d, i)

\* And it is settled: a dispatched issue does not stay in progress, however the
\* worker and the manager end.
InProgress(id) == \E i \in file.issues : i.id = id /\ i.status = "in_progress"
DispatchSettles ==
    \A id \in Ids : InProgress(id) ~> ~InProgress(id) \/ lost \/ crashes > 0
=============================================================================
