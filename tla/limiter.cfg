SPECIFICATION LimiterSpec
CONSTANTS
    Clients = {c1, c2}
    Capacity = 2
    Token = 13
    Rate = 6
    Second = 1
    Slip = 1
    MaxClock = 4
INVARIANTS
    LimiterTypeOK
    AdmissionBound
    PromiseKept
    PromiseTight
CHECK_DEADLOCK FALSE
