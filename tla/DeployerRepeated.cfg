CONSTANTS
    a = a
    b = b
    p = p
    q = q
    s1 = s1
    s2 = s2
    w1 = w1
    w2 = w2
    Nobody = Nobody
    NoSha = NoSha
    Names <- MCNames
    Paths <- MCPaths
    Workers <- MCWorkers
    Shas <- MCShas
    Offers <- MCRepeated
    BootOrder <- MCBootOrder
    MaxInTurns = 3
    MaxOverlapped = 0
SPECIFICATION Spec
SYMMETRY MCSymmetry
INVARIANT ActiveIsServed
CHECK_DEADLOCK FALSE
