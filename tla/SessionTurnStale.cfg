SPECIFICATION Spec
CONSTANTS
    Clients = {c1, c2}
    Dead = Dead
    Free = Free
    MaxTurns = 3
    MaxExtras = 0
    MaxCrashes = 1
INVARIANTS
    OneTurnAtATime
CHECK_DEADLOCK FALSE
