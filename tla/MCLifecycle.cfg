SPECIFICATION FairSpec
CONSTANTS
    Requests = {r1, r2}
    Envs <- MCEnvs
CHECK_DEADLOCK FALSE
INVARIANTS
    NoPanicAtStart
    CleanExitDropsNothing
    FailureReported
    GoroutineJoined
PROPERTIES
    SignalStops
