SPECIFICATION FairSpec
CONSTANTS
    Clients = {c1, c2}
    Dead = Dead
    Free = Free
    MaxTurns = 2
    MaxExtras = 1
    MaxCrashes = 1
INVARIANTS
    TypeOK
    LeaseExclusive
    SavedStays
PROPERTIES
    WaitingTurnGoesOn
CHECK_DEADLOCK FALSE
