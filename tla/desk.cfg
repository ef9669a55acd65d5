SPECIFICATION GatewayFairSpec
CONSTANTS
    Calls = {c1, c2}
    Keys = {k1, k2}
    Payloads = {p1, p2}
    None = None
    MaxAttempts = 2
    Base = 1
    Cap = 16
    Headers <- MCHeaders
    LegacyKeys = {k1}
INVARIANTS
    GatewayTypeOK
    UniqueTickets
    AnswerNamesTicket
    PauseBounded
PROPERTIES
    ImplementsTicketLedger
    CallEnds
CHECK_DEADLOCK FALSE
