\* A worker hangs while one thread closes the firewall and another terminates it.
SPECIFICATION HungFirewall
CONSTANTS
    Requests = {r1}
    Threads = {t1, t2}
    MaxInFlight = 1
    CleanupMayFail = FALSE
    Nobody = Nobody
PROPERTIES
    DeadlineEscalates
CHECK_DEADLOCK FALSE
