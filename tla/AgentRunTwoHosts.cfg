SPECIFICATION FairSpec
CONSTANTS
    Hosts = {h1, h2}
    Tools = {write}
    SideEffects = {write}
    IdempotentWrites = {}
    NeedsApproval = {write}
    MaxTurns = 1
    MaxCalls = 1
    MaxParallelTools = 2
    MaxResumes = 1
    MaxOtherTurns = 0
    SingleHost = FALSE
PROPERTIES
    NoSilentOverwrite
CHECK_DEADLOCK FALSE
