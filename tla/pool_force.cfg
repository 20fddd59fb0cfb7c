\* The pool becomes BROKEN without an executor; a thread then calls terminate().
SPECIFICATION Spec
CONSTANTS
    Requests = {r1}
    Threads = {t1}
    MaxInFlight = 1
    CleanupMayFail = FALSE
    Nobody = Nobody
INVARIANTS
    ForceCloses
CHECK_DEADLOCK FALSE
