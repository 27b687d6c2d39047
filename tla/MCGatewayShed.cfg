SPECIFICATION Spec
CONSTANTS
    Principals = {p1, p2}
    Requests = {r1, r2, r3}
    Scrapers = {}
    Nobody = Nobody
    Free = Free
    MaxConcurrent = 2
    PerPrincipal = 1
    OAuth = TRUE
    RateEnabled = FALSE
    Limit = 1
    MaxTracked = 1
    Window = 1
    TicksPerSecond = 1
    MaxStale = 0
    MaxClock = 0
PROPERTIES
    ShedOnlyByAuthenticated
CHECK_DEADLOCK FALSE
