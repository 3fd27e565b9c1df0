SPECIFICATION FairSpec
CONSTANTS
    r1 = r1
    r2 = r2
    r3 = r3
    r4 = r4
    Root = Root
    Runs = {r1, r2, r3, r4}
    Parent <- MCParent
    Capacity = 2
    MaxChildRuns = 3
    MaxDepth = 3
    MaxAttempts = 2
    LateChildren = FALSE
INVARIANTS
    SemaphoreSound
    CancelReachesDescendants
    TerminatedArePruned
PROPERTIES
    ImplementsSemaphore
    ChildrenSettle
CHECK_DEADLOCK FALSE
