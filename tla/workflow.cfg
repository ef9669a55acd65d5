SPECIFICATION MigratedSpec
CONSTANTS
    Threads = {t1, t2}
    Ids = {a1, a2}
    None = None
    Requests = {r1}
    Fingerprints = {f1, f2}
    TTL = 0
    MaxClock = 0
    Upgraded = TRUE
    DirectCreate = FALSE
    CanAbort = TRUE
    Offered = {"analyze", "approve", "execute"}
    Recorded = {"EXECUTED_OPEN"}
    Edits = {f2}
INVARIANTS
    FlowTypeOK
    TicketNeedsGrant
    CreatedOnce
SYMMETRY FlowSymmetry
CHECK_DEADLOCK FALSE
