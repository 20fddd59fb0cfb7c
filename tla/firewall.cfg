\* Workers answer or die; executors whose cleanup may raise; two threads that
\* call the facade.
SPECIFICATION FairFirewall
CONSTANTS
    Requests = {r1}
    Threads = {t1, t2}
    MaxInFlight = 1
    CleanupMayFail = TRUE
    Nobody = Nobody
INVARIANTS
    FacadeTypeOK
PROPERTIES
    CloseCloses
    OperationsReturn
CHECK_DEADLOCK FALSE
