\* Requests that keep arriving, two operators, cleanup that may raise.  At most
\* three generations can be referred to at once.
SPECIFICATION FairSpec
CONSTANTS
    Requests = {r1, r2}
    Operators = {t1, t2}
    Generations = {g1, g2, g3}
    Builtin = Builtin
    Catalogs = {Builtin, Custom}
    CleanupMayFail = TRUE
    None = None
INVARIANTS
    TypeOK
    LeasesCounted
    ReloadIsExclusive
    NothingLeaks
PROPERTIES
    CatalogChangesAsAsked
    ImplementsSwap
    OperatorsReturn
CHECK_DEADLOCK FALSE
