SPECIFICATION FairSpec
CONSTANTS
    Hosts = {h1, h2}
    Tools = {write, look}
    SideEffects = {write}
    IdempotentWrites = {}
    NeedsApproval = {write}
    MaxTurns = 1
    MaxCalls = 1
    MaxParallelTools = 2
    MaxResumes = 1
    MaxOtherTurns = 1
    SingleHost = FALSE
INVARIANTS
    CommitsOnTopOfItsHistory
PROPERTIES
    ExecutionSettles
CHECK_DEADLOCK FALSE
