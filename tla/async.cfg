\* Three requests compete for two slots and one thread; two lifecycle tasks.
SPECIFICATION FairSpec
CONSTANTS
    Requests = {r1, r2, r3}
    Closers = {t1, t2}
    MaxInFlight = 2
    MaxWorkers = 1
    CloseMayFail = TRUE
    Nobody = Nobody
INVARIANTS
    TypeOK
    SlotsFollowWork
    GracefulCloseIsDrained
    ClosedRunnerIsIdle
PROPERTIES
    ImplementsAdmission
    ClosersReturn
CHECK_DEADLOCK FALSE
