SPECIFICATION Spec
CONSTANTS
    Threads = {t1, t2}
    Ids = {a1, a2, a3}
    None = None
    Requests = {r1}
    Fingerprints = {f1, f2}
    TTL = 0
    MaxClock = 1
    Upgraded = FALSE
    DirectCreate = FALSE
    CanAbort = TRUE
INVARIANTS
    TypeOK
    SingleLive
    OneExpiryEvent
    NotExpiredEarly
    ToldOnce
PROPERTIES
    Lifecycle
    ImplementsLedger
CHECK_DEADLOCK FALSE
SYMMETRY Symmetry
