CONSTANTS
    t1 = t1
    t2 = t2
    t3 = t3
    Threads <- MCThreads
    Threshold = 2
SPECIFICATION FairSpec
INVARIANTS
    TypeOK
    ProbeSlotOwned
    OpenHasTripInstant
PROPERTIES
    ClosedStaysOutOfHalfOpen
    OpenIsProbed
    Recovery
