SPECIFICATION FairSpec
CONSTANTS
    m1 = m1
    m2 = m2
    Managers = {m1, m2}
    Children <- MCChildren
    MaxAttempts = 2
INVARIANTS
    SideEffectRunsOnce
    CancelTakesEffect
    LatestAttemptWins
PROPERTIES
    ImplementsLifecycle
    CancelEnds
CHECK_DEADLOCK FALSE
