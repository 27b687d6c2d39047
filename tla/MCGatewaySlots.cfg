SPECIFICATION Spec
CONSTANTS
    Principals = {p1, p2}
    Requests = {r1, r2, r3, m1}
    Scrapers = {m1}
    Nobody = Nobody
    Free = Free
    MaxConcurrent = 2
    PerPrincipal = 1
    OAuth = FALSE
    RateEnabled = TRUE
    Limit = 2
    MaxTracked = 2
    Window = 1
    TicksPerSecond = 1
    MaxStale = 0
    MaxClock = 0
SYMMETRY Symmetry
INVARIANTS
    TelemetryAgrees
    ScrapeTruthful
PROPERTIES
    RefusalsJustified
    CapacityRefined
CHECK_DEADLOCK FALSE
