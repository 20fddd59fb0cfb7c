\* Two callers, two lifecycle threads, one slot, and executors whose cleanup may raise.
SPECIFICATION Spec
CONSTANTS
    Requests = {r1, r2}
    Threads = {t1, t2}
    MaxInFlight = 1
    CleanupMayFail = TRUE
    Nobody = Nobody
SYMMETRY Symmetry
INVARIANTS
    TypeOK
    PermitsConserved
    RunningIsServed
    CloseIsQuiescent
    AnsweredOwnsNoSlot
PROPERTIES
    ImplementsAdmission
CHECK_DEADLOCK FALSE
