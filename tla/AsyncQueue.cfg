SPECIFICATION FairSpec
CONSTANTS
    p1 = p1
    p2 = p2
    c1 = c1
    c2 = c2
    Producers = {p1, p2}
    Iterators = {c1, c2}
    Capacity = 2
    Reserve = 1
    Overflows = {"throw", "drop-oldest", "drop-newest"}
    MaxPushes = 2
    MaxNext = 2
INVARIANTS
    TypeOK
    NobodyWaitsInVain
    NothingLostOrDuplicated
    ProducerOrderKept
    ReserveKept
PROPERTIES
    WaitingPushSettles
CHECK_DEADLOCK FALSE
