CONSTANTS
    m1 = m1
    m2 = m2
    c1 = c1
    c2 = c2
    Messages <- MCMessages
    Cells <- MCCells
    Wildcard <- MCWildcard
    Malformed <- MCMalformed
    Builtin <- MCMessages
    Adapters <- MCBoth
    Capacity = 2
    MaxRetries = 2
    MaxDepth = 1
SPECIFICATION FairSpec
INVARIANTS
    TypeOK
    OneCopy
    AckedMeansHandled
    BuriedIsInDlq
    TraceTellsOutcome
    NeverBlockedOnItself
PROPERTY KeepsPromise
CHECK_DEADLOCK FALSE
