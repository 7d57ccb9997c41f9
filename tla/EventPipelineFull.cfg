CONSTANTS
    m1 = m1
    m2 = m2
    c1 = c1
    c2 = c2
    Messages <- MCMessages
    Cells <- MCCells
    Wildcard <- MCWildcard
    Malformed <- MCMalformed
    Builtin <- MCMessages
    Adapters <- MCInMemory
    Capacity = 1
    MaxRetries = 2
    MaxDepth = 1
SPECIFICATION FairSpec
PROPERTY DlqUnblocksStream
CHECK_DEADLOCK FALSE
