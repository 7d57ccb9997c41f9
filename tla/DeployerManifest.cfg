CONSTANTS
    a = a
    b = b
    p = p
    q = q
    s1 = s1
    s2 = s2
    w1 = w1
    w2 = w2
    Nobody = Nobody
    NoSha = NoSha
    Names <- MCNames
    Paths <- MCPaths
    Workers <- MCWorkers
    Shas <- MCShas
    Offers <- MCOffers
    BootOrder <- MCBootOrder
    MaxInTurns = 0
    MaxOverlapped = 3
SPECIFICATION Spec
SYMMETRY MCSymmetry
INVARIANT RecordsPersist
CHECK_DEADLOCK FALSE
