SPECIFICATION FairSpec
CONSTANTS
    Dispatchers = {d1, d2}
    Users = {u1}
    None = None
    MaxEdits = 1
    MaxReports = 1
    MaxCrashes = 1
INVARIANTS
    TypeOK
    InProgressIsWorkedOn
PROPERTIES
    DispatchSettles
CHECK_DEADLOCK FALSE
