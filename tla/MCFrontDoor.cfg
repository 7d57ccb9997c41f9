CONSTANTS
    u1 = u1
    u2 = u2
    t1 = t1
    t2 = t2
    c1 = c1
    i1 = i1
    i2 = i2
    i3 = i3
    a = a
    b = b
    NoValue = NoValue
    Unset = Unset
    RecentIndex = RecentIndex
    Guess = Guess
    Malformed = Malformed
    Empty = Empty
    StoreKeys <- MCStoreKeys
    Users <- MCUsers
    Tokens <- MCTokens
    Codes <- MCCodes
    Ids <- MCIds
    MaxRecent = 2
    Earlier <- MCEarlier
    MaxArrivals <- MCArrivals
    MaxRequests = 3
    LogCapacity = 1
    Texts <- MCTexts
    SettingsOf <- MCSettings
    Environments <- MCEnvironments
    DefaultEnvironment <- Plain
    Tenants <- MCTenants
    Replicas <- MCReplicas
    MaxMigration = 2
    Main = 1
    MaxMishaps = 1
SPECIFICATION FairSpec
INVARIANTS
    TypeOK
    RedeemedOnce
    SignedInAsAddressed
    RefusedForAReason
    ListedIsOpenable
    FileIsInForceInTurns
    UpdateSurvivesRestart
    MigratedOnce
PROPERTIES
    VersionGrowsInTurns
    StartEnds
    HostHoldsNothingUp
CHECK_DEADLOCK FALSE
