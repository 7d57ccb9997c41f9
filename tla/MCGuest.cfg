CONSTANTS
    w1 = w1
    w2 = w2
    d1 = d1
    d2 = d2
    k1 = k1
    k2 = k2
    e1 = e1
    s1 = s1
    s2 = s2
    id1 = id1
    NoStamp = NoStamp
    NoCommand = NoCommand
    NoConn = NoConn
    Workers <- MCWorkers
    Conns <- MCConns
    Commands <- MCCommands
    Entities <- MCEntities
    Stamps <- MCStamps
    Dotted <- MCStamps
    Text <- MCText
    Clock <- MCClock
    EntityOf <- MCEntityOf
    StampOf <- MCStampOf
    Scopes <- MCScopes
    ScopeOf <- MCScopeOf
    MaxTx = 2
    MaxInstances = 1
    Capacity = 1
    MaxDeliveries <- MCDeliveries
SPECIFICATION FairSpec
INVARIANTS TypeOK HandlesAreOwn GatesInBounds AnsweredMeansDurable NewestWinsInTurns ChargedAgainOnlyIfLost StepOfIdentifiedIsOwn CountsKept
PROPERTIES WatermarkGrows EveryInvocationEnds
CHECK_DEADLOCK FALSE
