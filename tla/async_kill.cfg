\* A close fails and kill() is called next.
SPECIFICATION Spec
CONSTANTS
    Requests = {r1}
    Closers = {t1}
    MaxInFlight = 2
    MaxWorkers = 1
    CloseMayFail = TRUE
    Nobody = Nobody
INVARIANTS
    KillCloses
CHECK_DEADLOCK FALSE
