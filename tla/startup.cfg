SPECIFICATION StartupFairSpec
CONSTANTS
    Threads = {t1, t2, t3}
    Ids = {a1, a2}
    MaxFaults = 2
INVARIANTS
    StartupTypeOK
    UnreadableOnlyIfCut
PROPERTIES
    DeadlineStands
    ServiceComes
