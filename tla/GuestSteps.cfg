CONSTANTS
    w1 = w1
    w2 = w2
    d1 = d1
    d2 = d2
    k1 = k1
    k2 = k2
    e1 = e1
    s1 = s1
    s2 = s2
    id1 = id1
    NoStamp = NoStamp
    NoCommand = NoCommand
    NoConn = NoConn
    Workers <- MCWorkers
    Conns <- MCConns
    Commands <- MCCommands
    Entities <- MCEntities
    Stamps <- MCStamps
    Dotted <- MCStamps
    Text <- MCText
    Clock <- MCClock
    EntityOf <- MCEntityOf
    StampOf <- MCStampOf
    Scopes <- MCScopes
    ScopeOf <- MCNoIds
    MaxTx = 1
    MaxInstances = 1
    Capacity = 1
    MaxDeliveries <- MCDeliveries
SPECIFICATION Spec
INVARIANT StepIsOwn
CHECK_DEADLOCK FALSE
