SPECIFICATION Spec
CONSTANTS
    Principals = {p1, p2, p3}
    Requests = {r1, r2, r3, r4}
    Nobody = Nobody
    Free = Free
    Limit = 2
    MaxTracked = 2
    Window = 4
    TicksPerSecond = 2
    MaxStale = 1
    MaxClock = 9
SYMMETRY Symmetry
INVARIANTS
    TypeOK
    QuotaAndCapacity
    CountsAdmissions
    RetryAfterIsEnough
    AdmittedInsideWindow
    BurstBound
PROPERTIES
    NoEarlyEviction
    FullOnlyWhenCrowded
    WindowsSpaced
CHECK_DEADLOCK FALSE
