SPECIFICATION PartsSpec
CONSTANTS
    j1 = j1
    j2 = j2
    l1 = l1
    m1 = m1
    r1 = r1
    r2 = r2
    Job <- MCJob
    Local <- MCLocal
    Capacities = {1, 2}
    Model <- MCModel
    Req <- MCReq
    TripAfter = 2
    MaxCooldown = 3
    DownAfter = 2
    LinesOf <- MCLinesOf
    MaxLines = 3
    LineBuffer = 1
    HealthFailures = 2
    MaxCalls = 2
    MaxEvents = 7
    Requests <- MCRequests
    Owners <- MCOwners
    Offers <- MCOffers
    Aliases <- MCAliases
    AnyModel = "any"
    NoOwner = "none"
    Blank = ""
    MaxDepth = 3
    NoReq = NoReq
INVARIANTS
    PartsTypeOK
    IndexInverse
    PoolAccounting
    LoadReportRepaired
    TripAnnounced
    NoFalseSuccess
    EventsNest
PROPERTIES
    LocalFirst
    JobsServed
    OfferedAgain
    
    PoolSpec
CHECK_DEADLOCK FALSE
