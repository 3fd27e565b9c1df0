------------------------------ MODULE GoalWork ------------------------------
(***************************************************************************)
(* The work items of one project goal and the agents that claim them       *)
(* (src/src/goal/projectGoalStore.ts, goalWorkCoordinator.ts,              *)
(* goalService.ts, and executeRun() of runtime/agentClient.ts). The goal   *)
(* and its claims are rows of a SQLite database that several processes     *)
(* open: what runs in one transaction is one step, and between the         *)
(* statements of one operation other processes act. A claim is a lease of  *)
(* fifteen minutes that nobody renews, so it can run out while its agent   *)
(* works.                                                                  *)
(***************************************************************************)
EXTENDS Naturals, FiniteSets

CONSTANTS
    Workers,      \* agents run by GoalWorkCoordinator.runWorkers()
    Sessions,     \* agents that are sessions attached to the goal
    Items,        \* work items with role "agent"
    DependsOn,    \* DependsOn[i]: the items that must have ended before i
    None,         \* no agent, no item
    MaxRequests,  \* bound: items with a request at a time
    MaxCrashes,   \* bound: processes that die
    MaxControl    \* bound: changes of the goal's status by the user or by block()

Agents == Workers \union Sessions

ASSUME AgentsAssumption == Workers \intersect Sessions = {} /\ None \notin Agents \union Items

ASSUME DependsAssumption == DependsOn \in [Items -> SUBSET Items]

ASSUME BoundsAssumption == MaxRequests \in Nat /\ MaxCrashes \in Nat /\ MaxControl \in Nat

VARIABLES
    goal,      \* the goal's status
    item,      \* item[i]: the status of a work item
    request,   \* request[i]: the status a model has asked for
    claim,     \* claim[i]: the row of goal_work_claims
    work,      \* work[a]: what agent a is doing
    crashes,   \* processes that died
    control    \* changes of the goal's status so far

vars == <<goal, item, request, claim, work, crashes, control>>

GoalStatuses == {"active", "paused", "blocked", "cancelled", "complete"}
Terminal == {"blocked", "cancelled", "complete"}
ItemStatuses == {"open", "running", "done", "deferred", "cancelled"}

\* known: the agent's process holds the claim token. valid: the lease has not run out.
Claims == [agent : Agents \union {None}, known : BOOLEAN, valid : BOOLEAN]
NoClaim == [agent |-> None, known |-> FALSE, valid |-> FALSE]

Requests == {"open", "done", "deferred", "cancelled"}

\* on: the item in hand. lapsed: the agent's claim was lost while it had the item.
PCs == {"idle", "claim", "mark", "markUpdate", "begin", "working", "settle", "settled",
        "complete", "completeUpdate", "completeDelete", "release", "reopen"}

Works == [pc : PCs, on : Items \union {None}, lapsed : BOOLEAN]
NoWork == [pc |-> "idle", on |-> None, lapsed |-> FALSE]

At(a, pc) == work[a].pc = pc

\* The row of the agent's claim token is still there; and its lease runs.
Holds(a) == work[a].on \in Items /\ claim[work[a].on].agent = a /\ claim[work[a].on].known
HoldsLease(a) == Holds(a) /\ claim[work[a].on].valid

SetItem(i, status) == item' = [item EXCEPT ![i] = status]

\* The rows after agent a has dropped its tokens. NoClaim also stands for a row that
\* has run out and whose token nobody holds: no statement finds it any more.
Forgotten(a) ==
    [i \in Items |-> IF claim[i].agent # a THEN claim[i]
                      ELSE IF claim[i].valid THEN [claim[i] EXCEPT !.known = FALSE] ELSE NoClaim]

Goto(a, pc) == work' = [work EXCEPT ![a].pc = pc]

\* The operation has returned: the agent forgets its token.
Leave(a) ==
    /\ work' = [work EXCEPT ![a] = NoWork]
    /\ claim' = Forgotten(a)

Ended(i) == item[i] \in {"done", "cancelled"}

\* (Mutant: an item whose agent died is not offered again.)
RunnableOpen(i) == item[i] = "open" /\ \A d \in DependsOn[i] : Ended(d)

\* An agent item that may be executed.
Runnable(i) == item[i] \in {"open", "running"} /\ \A d \in DependsOn[i] : Ended(d)

\* (Mutant: the leases of others are ignored.)
FreeAlways(i) == TRUE

\* No claim on the item whose lease has not run out.
FreeToClaim(i) == ~claim[i].valid

NewClaim(a) == [agent |-> a, known |-> TRUE, valid |-> TRUE]

\* Agent a takes item i up with a claim of its own.
TakeUp(a, i) ==
    /\ claim' = [claim EXCEPT ![i] = NewClaim(a)]
    /\ work' = [work EXCEPT ![a] = [pc |-> "mark", on |-> i, lapsed |-> FALSE]]

-----------------------------------------------------------------------------
\* claimNextWork(), one transaction: the first runnable item without a valid claim.
\* (Which is first, role scopes and exclusions are left open.)
ClaimNext(w) ==
    /\ At(w, "idle") /\ goal = "active"
    /\ \E i \in Items : Runnable(i) /\ FreeToClaim(i) /\ TakeUp(w, i)
    /\ UNCHANGED <<goal, item, request, crashes, control>>

\* executeRun(): the session reads claims and goal and decides on an item.
Decide(s) ==
    /\ At(s, "idle") /\ goal = "active"
    /\ \E i \in Items :
         /\ Runnable(i)
         /\ FreeToClaim(i) \/ claim[i].agent = s
         /\ work' = [work EXCEPT ![s] = [pc |-> "claim", on |-> i, lapsed |-> FALSE]]
    /\ UNCHANGED <<goal, item, request, claim, crashes, control>>

\* A valid claim of the session itself is returned as it is, whatever the item's
\* status; otherwise the item must be free and runnable.
MayClaim(s, i) ==
    \/ claim[i].valid /\ claim[i].agent = s
    \/ FreeToClaim(i) /\ Runnable(i)

\* claimWorkItem(), one transaction. (A refused session decides once more: Decide.)
ClaimItem(s) ==
    /\ At(s, "claim")
    /\ \/ goal = "active" /\ MayClaim(s, work[s].on) /\ TakeUp(s, work[s].on)
       \/ ~(goal = "active" /\ MayClaim(s, work[s].on)) /\ Leave(s)
    /\ UNCHANGED <<goal, item, request, crashes, control>>

\* After markClaimRunning(), whose result is ignored: a session calls
\* beginWorkItem(), a worker runs.
Marked(a) == Goto(a, IF a \in Sessions THEN "begin" ELSE "working")

\* markClaimRunning(): the claim is looked up.
MarkSelect(a) ==
    /\ At(a, "mark")
    /\ \/ HoldsLease(a) /\ Goto(a, "markUpdate")
       \/ ~HoldsLease(a) /\ Marked(a)
    /\ UNCHANGED <<goal, item, request, claim, crashes, control>>

\* markClaimRunning(): the item is set running, whatever its status is by now.
MarkUpdate(a) ==
    /\ At(a, "markUpdate")
    /\ SetItem(work[a].on, "running")
    /\ Marked(a)
    /\ UNCHANGED <<goal, request, claim, crashes, control>>

\* beginWorkItem(), one transaction; an item that is not runnable any more is released.
Begin(s) ==
    /\ At(s, "begin")
    /\ \/ /\ item[work[s].on] \in {"open", "running"}
          /\ SetItem(work[s].on, "running")
          /\ Goto(s, "working")
       \/ item[work[s].on] \notin {"open", "running"} /\ Goto(s, "release") /\ UNCHANGED item
    /\ UNCHANGED <<goal, request, claim, crashes, control>>

-----------------------------------------------------------------------------
\* The worker's outcome: completed, released (or it threw), or handed off.
WorkEnds(w) ==
    /\ At(w, "working") /\ w \in Workers
    /\ Goto(w, "complete") \/ Goto(w, "release")
    /\ UNCHANGED <<goal, item, request, claim, crashes, control>>

\* handoffWork(), one transaction: the claim goes to another agent, which has not
\* asked for it, or to nobody. Without a lease, or when the item is closed to the
\* other agent, nothing happens, and the worker does not release its claim.
Handoff(w) ==
    /\ At(w, "working") /\ w \in Workers
    /\ \/ /\ HoldsLease(w)
          /\ \/ \E a \in Agents \ {w} :
                  claim' = [claim EXCEPT ![work[w].on] = [NewClaim(a) EXCEPT !.known = FALSE]]
             \/ claim' = [claim EXCEPT ![work[w].on] = NoClaim]
          /\ work' = [work EXCEPT ![w] = NoWork]
       \/ Leave(w)
    /\ UNCHANGED <<goal, item, request, crashes, control>>

\* completeWorkClaim(): the valid claim is looked up. A worker without one
\* releases; a session lets the result be.
CompleteSelect(a) ==
    /\ At(a, "complete")
    /\ \/ HoldsLease(a) /\ Goto(a, "completeUpdate") /\ UNCHANGED claim
       \/ ~HoldsLease(a) /\ a \in Workers /\ Goto(a, "release") /\ UNCHANGED claim
       \/ ~HoldsLease(a) /\ a \in Sessions /\ Leave(a)
    /\ UNCHANGED <<goal, item, request, crashes, control>>

\* completeWorkClaim(): the item is set done; one that is done already refuses it.
CompleteUpdate(a) ==
    LET i == work[a].on
    IN  /\ At(a, "completeUpdate")
        /\ \/ item[i] # "done" /\ SetItem(i, "done") /\ Goto(a, "completeDelete") /\ UNCHANGED claim
           \/ item[i] = "done" /\ a \in Workers /\ Goto(a, "release") /\ UNCHANGED <<item, claim>>
           \/ item[i] = "done" /\ a \in Sessions /\ Leave(a) /\ UNCHANGED item
        /\ UNCHANGED <<goal, request, crashes, control>>

\* completeWorkClaim(): the row with the token is deleted.
CompleteDelete(a) ==
    /\ At(a, "completeDelete")
    /\ work' = [work EXCEPT ![a] = NoWork]
    /\ claim' = IF Holds(a) THEN [claim EXCEPT ![work[a].on] = NoClaim] ELSE claim
    /\ UNCHANGED <<goal, item, request, crashes, control>>

\* releaseWorkClaim(): the row with the token is deleted, valid or not.
Release(a) ==
    /\ At(a, "release")
    /\ \/ /\ Holds(a)
          /\ claim' = [claim EXCEPT ![work[a].on] = NoClaim]
          /\ Goto(a, "reopen")
       \/ ~Holds(a) /\ Leave(a)
    /\ UNCHANGED <<goal, item, request, crashes, control>>

\* releaseWorkClaim(): the item is opened again if it is running.
Reopen(a) ==
    /\ At(a, "reopen")
    /\ IF item[work[a].on] = "running" THEN SetItem(work[a].on, "open") ELSE UNCHANGED item
    /\ work' = [work EXCEPT ![a] = NoWork]
    /\ UNCHANGED <<goal, request, claim, crashes, control>>

-----------------------------------------------------------------------------
\* requestWorkItemUpdate(): the session's model asks for a transition of any item.
\* The request, the last one for the item, is kept in the goal until some turn settles.
Request(s) ==
    /\ At(s, "working") /\ s \in Sessions
    /\ \E i \in Items, status \in Requests :
         /\ Cardinality({j \in Items \ {i} : request[j] # "none"}) < MaxRequests
         /\ request' = [request EXCEPT ![i] = status]
    /\ UNCHANGED <<goal, item, claim, work, crashes, control>>

\* settleGoalRun() reads the goal; when it is not active nothing is settled.
SettleRead(s) ==
    /\ At(s, "working") /\ s \in Sessions
    /\ \/ goal = "active" /\ Goto(s, "settle")
       \/ goal # "active" /\ Goto(s, "settled")
    /\ UNCHANGED <<goal, item, request, claim, crashes, control>>

\* applyWorkItemRequests(): a request for done counts only when the evidence it names
\* has been observed, which it may have been or not.
Applied(i, observed) ==
    IF request[i] = "none" \/ (request[i] = "done" /\ ~observed) THEN item[i] ELSE request[i]

\* (Mutant: the claims of a goal that has ended stay.)
EndKeepsClaims(status) == goal' = status /\ UNCHANGED claim

\* updateSnapshot(): a goal that is complete, cancelled or blocked has no claims.
SetGoal(status) ==
    /\ goal' = status
    /\ claim' = IF status \in Terminal THEN [i \in Items |-> NoClaim] ELSE claim

\* Holders of a claim that is deleted with the goal go on without it.
Lapsed(as) == [a \in Agents |-> IF a \in as THEN [work[a] EXCEPT !.lapsed = TRUE] ELSE work[a]]
Holders(is) == {a \in Agents : work[a].on \in is /\ Holds(a)}

\* settleTurn(), one transaction: the requests of all sessions are applied or
\* dropped, and a turn that failed opens its item again. The goal stays as it is, or
\* is blocked by a replan that repeats itself, or is complete when all items have ended.
SettleTurn(s) ==
    /\ At(s, "settle")
    /\ \E failed, observed \in BOOLEAN :
         item' = [i \in Items |->
                    IF failed /\ i = work[s].on /\ Applied(i, observed) = "running"
                    THEN "open" ELSE Applied(i, observed)]
    /\ request' = [i \in Items |-> "none"]
    /\ \E status \in {goal, "blocked", "complete"} :
         /\ status = "complete" /\ goal # "complete"
              => \A i \in Items : item'[i] \in {"done", "cancelled"}
         /\ SetGoal(status)
         /\ work' = [IF status \in Terminal THEN Lapsed(Holders(Items)) ELSE work
                      EXCEPT ![s].pc = "settled"]
    /\ UNCHANGED <<crashes, control>>

\* executeRun() reads the item again: done with evidence completes the claim,
\* anything else, and a run that failed, releases it.
Settled(s) ==
    /\ At(s, "settled")
    /\ \/ item[work[s].on] = "done" /\ Goto(s, "complete")
       \/ Goto(s, "release")
    /\ UNCHANGED <<goal, item, request, claim, crashes, control>>

-----------------------------------------------------------------------------
\* transition() by the user, or the third block() for the same reason.
Control ==
    /\ control < MaxControl
    /\ control' = control + 1
    /\ goal \notin {"complete", "cancelled"}
    /\ \E status \in {"active", "paused", "blocked", "cancelled"} \ {goal} :
         /\ SetGoal(status)
         /\ work' = IF status \in Terminal THEN Lapsed(Holders(Items)) ELSE work
    /\ UNCHANGED <<item, request, crashes>>

\* The lease of an agent that still works runs out.
Expire(i) ==
    /\ claim[i].valid /\ claim[i].known
    /\ claim' = [claim EXCEPT ![i].valid = FALSE]
    /\ work' = Lapsed(Holders({i}))
    /\ UNCHANGED <<goal, item, request, crashes, control>>

\* The lease of a claim nobody knows of runs out.
ExpireUnknown(i) ==
    /\ claim[i].valid /\ ~claim[i].known
    /\ claim' = [claim EXCEPT ![i] = NoClaim]
    /\ UNCHANGED <<goal, item, request, work, crashes, control>>

\* The agent's process dies.
Crash(a) ==
    /\ ~At(a, "idle") /\ crashes < MaxCrashes
    /\ crashes' = crashes + 1
    /\ Leave(a)
    /\ UNCHANGED <<goal, item, request, control>>

-----------------------------------------------------------------------------
Init ==
    /\ goal = "active"
    /\ item = [i \in Items |-> "open"]
    /\ request = [i \in Items |-> "none"]
    /\ claim = [i \in Items |-> NoClaim]
    /\ work = [a \in Agents |-> NoWork]
    /\ crashes = 0
    /\ control = 0

ClaimStep(a) ==
    \/ MarkSelect(a) \/ MarkUpdate(a)
    \/ CompleteSelect(a) \/ CompleteUpdate(a) \/ CompleteDelete(a)
    \/ Release(a) \/ Reopen(a)

WorkerStep(w) == ClaimNext(w) \/ WorkEnds(w) \/ Handoff(w) \/ ClaimStep(w)

SessionStep(s) ==
    \/ Decide(s) \/ ClaimItem(s) \/ Begin(s)
    \/ SettleRead(s) \/ SettleTurn(s) \/ Settled(s) \/ ClaimStep(s)

Next ==
    \/ \E w \in Workers : WorkerStep(w)
    \/ \E s \in Sessions : SessionStep(s) \/ Request(s)
    \/ \E i \in Items : Expire(i) \/ ExpireUnknown(i)
    \/ \E a \in Agents : Crash(a)
    \/ Control

Spec == Init /\ [][Next]_vars

\* Agents go on asking for work and end what they have taken up; time passes for
\* the claims of those that died.
Fairness ==
    /\ \A w \in Workers : WF_vars(WorkerStep(w))
    /\ \A s \in Sessions : WF_vars(SessionStep(s))
    /\ \A i \in Items : WF_vars(ExpireUnknown(i))

FairSpec == Spec /\ Fairness

-----------------------------------------------------------------------------
\* Types; a goal that has ended has no claims, and an agent at rest has no item.
TypeOK ==
    /\ goal \in GoalStatuses
    /\ item \in [Items -> ItemStatuses]
    /\ request \in [Items -> Requests \union {"none"}]
    /\ claim \in [Items -> Claims]
    /\ work \in [Agents -> Works]
    /\ crashes \in 0..MaxCrashes /\ control \in 0..MaxControl
    /\ goal \in Terminal => \A i \in Items : claim[i] = NoClaim
    /\ \A a \in Agents : At(a, "idle") <=> work[a].on = None

\* Two agents work on one item only when one of them has lost its claim, because
\* its lease ran out or the goal was stopped while it worked; races between
\* claiming, marking, settling, releasing and handing off do not lead to it.
OneRunnerPerItem ==
    \A a, b \in Agents :
        a # b /\ At(a, "working") /\ At(b, "working") /\ work[a].on = work[b].on
            => work[a].lapsed \/ work[b].lapsed

\* Work whose agent died, or was handed to one that does not take it, is taken up
\* again while the goal is active: some agent's claim on it is accepted, or it ends.
\* (An agent that has decided on the item and not claimed it yet does not have it.)
Abandoned(i) == item[i] = "running" /\ \A a \in Agents : work[a].on = i => At(a, "claim")
AbandonedWorkIsTakenUp ==
    \A i \in Items :
        Abandoned(i) ~> \/ ~Abandoned(i)
                        \/ goal # "active"
                        \/ \E d \in DependsOn[i] : ~Ended(d)
=============================================================================
