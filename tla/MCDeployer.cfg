CONSTANTS
    a = a
    b = b
    p = p
    q = q
    s1 = s1
    s2 = s2
    w1 = w1
    w2 = w2
    Nobody = Nobody
    NoSha = NoSha
    Names <- MCNames
    Paths <- MCPaths
    Workers <- MCWorkers
    Shas <- MCShas
    Offers <- MCOffers
    BootOrder <- MCBootOrder
    MaxInTurns = 5
    MaxOverlapped = 3
SPECIFICATION Spec
SYMMETRY MCSymmetry
INVARIANTS
    TypeOK
    RoutesAgree
    OnlyApprovedRuns
    ActiveIsServed
    RecordsPersistInTurns
CHECK_DEADLOCK FALSE
