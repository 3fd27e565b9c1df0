SPECIFICATION FairSpec
CONSTANTS
    r1 = r1
    r2 = r2
    r3 = r3
    r4 = r4
    r5 = r5
    s1 = s1
    s2 = s2
    NoSession = NoSession
    Runs = {r1, r2, r3, r4, r5}
    Sessions = {s1, s2}
    SessionOf <- MCSessionOf
    Capacity = 2
INVARIANTS
    GateSound
    OneTurnPerSession
PROPERTIES
    ImplementsSemaphore
    RunsSettle
    CloseEnds
CHECK_DEADLOCK FALSE
