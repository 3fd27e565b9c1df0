SPECIFICATION FairSpec
CONSTANTS
    Hosts = {h1}
    Tools = {write, put, look}
    SideEffects = {write}
    IdempotentWrites = {put}
    NeedsApproval = {write}
    MaxTurns = 2
    MaxCalls = 2
    MaxParallelTools = 2
    MaxResumes = 2
    MaxOtherTurns = 1
    SingleHost = TRUE
INVARIANTS
    TypeOK
    ToolRunsAtMostOnce
    OneResultPerCall
    SideEffectLeavesTrace
    ModelSeesItsResults
PROPERTIES
    ApprovalRespected
    ImplementsToolCalls
CHECK_DEADLOCK FALSE
