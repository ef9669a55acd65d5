SPECIFICATION FlowSpec
CONSTANTS
    Threads = {t1, t2}
    Ids = {a1, a2}
    None = None
    Requests = {r1}
    Fingerprints = {f1, f2}
    TTL = 0
    MaxClock = 0
    Upgraded = FALSE
    DirectCreate = FALSE
    CanAbort = FALSE
    Offered = {"analyze", "approve"}
    Recorded = {"GRANTED"}
    Edits = {}
INVARIANT GrantsAudited
SYMMETRY Symmetry
CHECK_DEADLOCK FALSE
