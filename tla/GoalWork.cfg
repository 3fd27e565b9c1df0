SPECIFICATION FairSpec
CONSTANTS
    i1 = i1
    i2 = i2
    Workers = {w1}
    Sessions = {s1}
    Items <- MCItems
    DependsOn <- MCDependsOn
    None = None
    MaxRequests = 1
    MaxCrashes = 1
    MaxControl = 1
INVARIANTS
    TypeOK
    OneRunnerPerItem
PROPERTIES
    AbandonedWorkIsTakenUp
CHECK_DEADLOCK FALSE
