------------------------------ MODULE ChildRuns ------------------------------
(***************************************************************************)
(* Child runs of one run tree: ChildRunner (src/src/orchestration/          *)
(* childRunner.ts), the RunTreeController that carries cancellation to      *)
(* descendants and prunes what has ended, and the semaphore that the whole  *)
(* tree shares (src/src/orchestration/scope.ts). A child run asks for a     *)
(* permit, runs its agent under it, and may start children of its own from  *)
(* its scope, each asking for a permit of the same semaphore.               *)
(*                                                                          *)
(* The code runs without interruption from one await to the next, abort     *)
(* listeners included; a step is such a piece. What the agent does is the   *)
(* subject of AgentRun; here it ends at some point, in either way.          *)
(***************************************************************************)
EXTENDS Integers, Sequences, FiniteSets

CONSTANTS
    Runs,          \* ids of child runs
    Root,          \* id of the root run, which asks for no permit
    Parent,        \* Parent[r]: the run from whose scope r is derived
    Capacity,      \* SemaphoreConcurrencyController.capacity
    MaxChildRuns,  \* limits.maxChildRuns of the shared budget
    MaxDepth,      \* limits.maxDepth
    MaxAttempts,   \* maxAttempts of retry-safe; 1 for the other policies
    LateChildren   \* TRUE: a child may be derived from a run that has ended

Ids == Runs \union {Root}

ASSUME TreeAssumption ==
    /\ IsFiniteSet(Runs)
    /\ Root \notin Runs
    /\ Parent \in [Runs -> Ids]

ASSUME LimitsAssumption ==
    /\ Capacity \in Nat \ {0}
    /\ MaxChildRuns \in Nat
    /\ MaxDepth \in Nat
    /\ MaxAttempts \in Nat \ {0}
    /\ LateChildren \in BOOLEAN

VARIABLES
    phase,      \* phase[r]: how far the run has come
    attempt,    \* attempt[r]: attempts made
    nodes,      \* runs in the tree's map
    children,   \* children[n]: the children set of n's node
    completed,  \* nodes marked completed
    aborted,    \* runs whose signal, or whose node's controller, is aborted
    waiters,    \* runs that wait for a permit, in order of arrival
    active,     \* the semaphore's count of permits handed out
    holders,    \* runs between acquire() and release()
    claimed,    \* childRunsStarted of the shared budget
    cancelled   \* history: runs on which cancelTree() was called

tree == <<nodes, children, completed>>
semaphore == <<waiters, active, holders>>
vars == <<phase, attempt, tree, aborted, semaphore, claimed, cancelled>>

-----------------------------------------------------------------------------
Phases == { "none",       \* not started
            "waiting",    \* waits for a permit
            "running",    \* holds a permit while its agent runs
            "succeeded",  \* the agent is done, the permit released
            "failed",     \* it failed, or no permit was given
            "done" }

Live(r) == phase[r] \in {"waiting", "running", "succeeded", "failed"}

Elements(s) == {s[i] : i \in DOMAIN s}

\* The runs above r, up to the root: the least set with r's parent that has the
\* parent of each of its members.
Above ==
    [r \in Ids |->
        {n \in Ids : \A S \in SUBSET Ids :
            /\ r # Root => Parent[r] \in S
            /\ \A m \in S \ {Root} : Parent[m] \in S
            => n \in S}]

Depth(r) == Cardinality(Above[r])

\* claimChild() admits one more child at r's depth.
Claimable(r) == claimed < MaxChildRuns /\ Depth(r) <= MaxDepth

\* With a node, S has the nodes of its children.
Closed(S) == \A n \in S : children[n] \subseteq S

\* The nodes cancelTree() visits from n; a child's signal follows its parent's
\* along the same links.
Subtree(n) == {m \in Ids : \A S \in SUBSET Ids : n \in S /\ Closed(S) => m \in S}

\* prune(): of the nodes marked completed, those without children that stay.
\* (Mutants: children are not looked at; the parent of a pruned node stays.)
PrunableWithChildren(marked) == marked
PrunableLeaves(marked) == {n \in marked : children[n] = {}}
Prunable(marked) == UNION {S \in SUBSET marked : Closed(S)}

\* complete()
Complete(r) ==
    LET marked == IF r \in nodes THEN completed \union {r} ELSE completed
        gone == Prunable(marked)
    IN  /\ nodes' = nodes \ gone
        /\ children' = [n \in Ids |-> IF n \in gone THEN {} ELSE children[n] \ gone]
        /\ completed' = marked \ gone

-----------------------------------------------------------------------------
\* acquire() of a run whose signal is aborted or not.
Acquire(r, isAborted) ==
    \/ /\ isAborted
       /\ phase' = [phase EXCEPT ![r] = "failed"]
       /\ UNCHANGED semaphore
    \/ /\ ~isAborted
       /\ active < Capacity /\ waiters = << >>
       /\ active' = active + 1
       /\ holders' = holders \union {r}
       /\ phase' = [phase EXCEPT ![r] = "running"]
       /\ UNCHANGED waiters
    \/ /\ ~isAborted
       /\ active >= Capacity \/ waiters # << >>
       /\ waiters' = Append(waiters, r)
       /\ phase' = [phase EXCEPT ![r] = "waiting"]
       /\ UNCHANGED <<active, holders>>

\* (Mutant: the next waiter is not woken.)
ReleaseOnly(r, outcome) ==
    /\ active' = active - 1
    /\ holders' = holders \ {r}
    /\ phase' = [phase EXCEPT ![r] = outcome]
    /\ UNCHANGED waiters

\* release(): the permit goes to the first waiter that is not aborted; aborted
\* ones before it are rejected.
Release(r, outcome) ==
    LET live == {i \in DOMAIN waiters : waiters[i] \notin aborted}
        next == CHOOSE i \in live : \A j \in live : i <= j
        rest == IF live = {} THEN << >> ELSE SubSeq(waiters, next + 1, Len(waiters))
        woken == IF live = {} THEN {} ELSE {waiters[next]}
    IN  /\ waiters' = rest
        /\ active' = active - 1 + Cardinality(woken)
        /\ holders' = (holders \ {r}) \union woken
        /\ phase' = [q \in Ids |->
                        IF q = r THEN outcome
                        ELSE IF q \in woken THEN "running"
                        ELSE IF q \in Elements(waiters) \ Elements(rest) THEN "failed"
                        ELSE phase[q]]

-----------------------------------------------------------------------------
\* Who holds the scope of a run may derive children from it: its agent while it
\* runs, and, with LateChildren, whoever kept the scope. Of a child that the
\* budget refused nobody gets the scope.
MayDerive(p) ==
    \/ phase[p] = "running"
    \/ LateChildren /\ phase[p] = "done" /\ (p # Root => attempt[p] > 0)

\* run(): deriveChild() first adopts a parent that is no longer in the tree, as a
\* node that nobody above knows. When the budget refuses the child, its node is
\* gone again.
Begin(r) ==
    LET p == Parent[r]
    IN  /\ phase[r] = "none" /\ MayDerive(p)
        /\ \/ /\ Claimable(r)
              /\ nodes' = nodes \union {p, r}
              /\ children' = [children EXCEPT ![p] = @ \union {r}]
              /\ aborted' = IF p \in aborted THEN aborted \union {r} ELSE aborted
              /\ claimed' = claimed + 1
              /\ attempt' = [attempt EXCEPT ![r] = 1]
              /\ Acquire(r, p \in aborted)
           \/ /\ ~Claimable(r)
              /\ nodes' = nodes \union {p}
              /\ phase' = [phase EXCEPT ![r] = "done"]
              /\ UNCHANGED <<children, aborted, claimed, attempt, semaphore>>
        /\ UNCHANGED <<completed, cancelled>>

\* The agent's run settles, or the abort of the signal wins the race; the permit
\* is released.
EndOperation(r) ==
    /\ r \in Runs
    /\ phase[r] = "running"
    /\ \E outcome \in {"succeeded", "failed"} : Release(r, outcome)
    /\ UNCHANGED <<attempt, tree, aborted, claimed, cancelled>>

\* After a failure, or a usage the budget refuses, a retry-safe child asks for a
\* permit again.
Retry(r) ==
    /\ phase[r] \in {"succeeded", "failed"}
    /\ r \notin aborted
    /\ attempt[r] < MaxAttempts
    /\ attempt' = [attempt EXCEPT ![r] = @ + 1]
    /\ Acquire(r, FALSE)
    /\ UNCHANGED <<tree, aborted, claimed, cancelled>>

\* run() returns or throws, and completes its node.
Finish(r) ==
    /\ phase[r] \in {"succeeded", "failed"}
    /\ phase' = [phase EXCEPT ![r] = "done"]
    /\ Complete(r)
    /\ UNCHANGED <<attempt, aborted, semaphore, claimed, cancelled>>

\* The owner of the root completes it.
CompleteRoot ==
    /\ phase[Root] = "running"
    /\ phase' = [phase EXCEPT ![Root] = "done"]
    /\ Complete(Root)
    /\ UNCHANGED <<attempt, aborted, semaphore, claimed, cancelled>>

\* The queue without the runs of gone, each taken out by its abort listener;
\* kept[i] is what is left of the first i.
Without(gone) ==
    LET kept[i \in 0..Len(waiters)] ==
            IF i = 0 THEN << >>
            ELSE IF waiters[i] \in gone THEN kept[i - 1]
            ELSE Append(kept[i - 1], waiters[i])
    IN  kept[Len(waiters)]

\* (Mutant: waiters do not listen to their signals.)
CancelTreeOfRunning(n) ==
    LET reached == Subtree(n)
    IN  /\ n \in nodes /\ n \notin aborted
        /\ aborted' = aborted \union reached
        /\ cancelled' = cancelled \union {n}
        /\ UNCHANGED <<phase, attempt, tree, semaphore, claimed>>

\* cancelTree(n), or an abort of n's own signal. Waiters that it reaches leave
\* the queue and fail.
CancelTree(n) ==
    LET reached == Subtree(n)
    IN  /\ n \in nodes /\ n \notin aborted
        /\ aborted' = aborted \union reached
        /\ waiters' = Without(reached)
        /\ phase' = [r \in Ids |-> IF phase[r] = "waiting" /\ r \in reached THEN "failed"
                                   ELSE phase[r]]
        /\ cancelled' = cancelled \union {n}
        /\ UNCHANGED <<attempt, tree, active, holders, claimed>>

-----------------------------------------------------------------------------
Init ==
    /\ phase = [r \in Ids |-> IF r = Root THEN "running" ELSE "none"]
    /\ attempt = [r \in Runs |-> 0]
    /\ nodes = {Root}
    /\ children = [n \in Ids |-> {}]
    /\ completed = {}
    /\ aborted = {}
    /\ waiters = << >>
    /\ active = 0
    /\ holders = {}
    /\ claimed = 0
    /\ cancelled = {}

Next ==
    \/ \E r \in Runs : Begin(r) \/ EndOperation(r) \/ Retry(r) \/ Finish(r)
    \/ \E n \in Ids : CancelTree(n)
    \/ CompleteRoot

Spec == Init /\ [][Next]_vars

\* An agent whose children have ended, or whose signal is aborted, comes to its
\* end; what follows is the event loop's work. An agent waits for its children.
EndsAlone(r) ==
    /\ r \in aborted \/ \A c \in Runs : Parent[c] = r => ~Live(c)
    /\ EndOperation(r)

FairSpec ==
    /\ Spec
    /\ \A r \in Runs : WF_vars(EndsAlone(r)) /\ WF_vars(Retry(r) \/ Finish(r))

-----------------------------------------------------------------------------
(* Properties *)

\* Every variable holds a value of its kind; what is marked or linked is in the
\* tree.
TypeOK ==
    /\ phase \in [Ids -> Phases]
    /\ attempt \in [Runs -> 0..MaxAttempts]
    /\ nodes \subseteq Ids
    /\ children \in [Ids -> SUBSET (nodes \ {Root})]
    /\ completed \subseteq nodes
    /\ aborted \subseteq Ids
    /\ waiters \in Seq(Runs)
    /\ active \in 0..Capacity
    /\ holders \subseteq Runs
    /\ claimed \in 0..MaxChildRuns
    /\ cancelled \subseteq Ids

\* The semaphore does its work: its count is the number of runs that hold a
\* permit, exactly those whose agent runs; no permit is idle while a run waits;
\* and nobody waits whose signal is aborted.
SemaphoreSound ==
    /\ active = Cardinality(holders)
    /\ holders = {r \in Runs : phase[r] = "running"}
    /\ waiters # << >> => active = Capacity
    /\ Elements(waiters) \cap aborted = {}

\* "Fair FIFO semaphore shared by all descendants", scope.ts:112: so behaves the
\* SemaphoreConcurrencyController, whatever ends, retries or is cancelled.
Fair == INSTANCE Semaphore WITH Users <- Runs, inside <- holders, queue <- waiters
ImplementsSemaphore == Fair!Spec

\* ADR-005: cancelling a run cancels every descendant that is not over, whether
\* it was derived before or after, and whatever ended in between.
CancelReachesDescendants ==
    \A r \in Runs : Live(r) /\ Above[r] \cap cancelled # {} => r \in aborted

\* ADR-005: what has ended is pruned. A node stays only while its run, or one
\* derived from it, is not over.
TerminatedArePruned ==
    \A n \in nodes : phase[n] = "done" => \E r \in Runs : Live(r) /\ n \in Above[r]

\* Every permit is with a run that waits for a child, which waits for a permit or,
\* having one, for a child of its own; and no cancellation has reached a run that
\* is not over.
PermitsWithParents ==
    /\ active = Capacity
    /\ \A p \in holders :
          \E c \in Runs : Parent[c] = p /\ phase[c] \in {"waiting", "running"}
    /\ \A r \in Runs : Live(r) => r \notin aborted

\* Every child run ends, except in one deadlock that the code does not exclude: as
\* many parents as there are permits keep theirs while their children wait for one.
\* A cancellation ends whatever it reaches even then, waiting or running (onAbort
\* and raceWithSignal()).
ChildrenSettle ==
    (\A r \in Runs : Live(r) ~> ~Live(r)) \/ <>[]PermitsWithParents
=============================================================================
