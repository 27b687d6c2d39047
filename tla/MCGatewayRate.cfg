SPECIFICATION FairSpec
CONSTANTS
    Principals = {p1, p2}
    Requests = {r1, r2, r3}
    Scrapers = {}
    Nobody = Nobody
    Free = Free
    MaxConcurrent = 2
    PerPrincipal = 2
    OAuth = TRUE
    RateEnabled = TRUE
    Limit = 1
    MaxTracked = 1
    Window = 1
    TicksPerSecond = 1
    MaxStale = 0
    MaxClock = 1
INVARIANTS
    SlotsAccounted
    ServedWithinQuota
PROPERTIES
    LimiterRefined
    EveryRequestAnswered
CHECK_DEADLOCK FALSE
