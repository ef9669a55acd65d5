SPECIFICATION FairSpec
CONSTANTS
    Threads = {t1, t2}
    Ids = {a1, a2}
    None = None
    Requests = {r1}
    Fingerprints = {f1}
    TTL = 0
    MaxClock = 1
    Upgraded = FALSE
    DirectCreate = TRUE
    CanAbort = FALSE
PROPERTIES
    CallsReturn
    ExpiryAudited
CHECK_DEADLOCK FALSE
