SPECIFICATION FairSpec
CONSTANTS
    Requests = {r1}
    Threads = {t1, t2}
    MaxInFlight = 1
    CleanupMayFail = FALSE
    Nobody = Nobody
PROPERTIES
    CallersReturn
    CapacityRecovers
    EscalationEndsShutdown
CHECK_DEADLOCK FALSE
