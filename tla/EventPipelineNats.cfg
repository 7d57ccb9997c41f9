CONSTANTS
    m1 = m1
    m2 = m2
    c1 = c1
    c2 = c2
    Messages <- MCMessages
    Cells <- MCCells
    Wildcard <- MCWildcard
    Malformed <- MCMalformed
    Builtin <- MCMessages
    Adapters <- MCNats
    Capacity = 2
    MaxRetries = 2
    MaxDepth = 1
SPECIFICATION Spec
INVARIANT NothingLost
CHECK_DEADLOCK FALSE
