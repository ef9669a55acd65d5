SPECIFICATION AnalysisSpec
CONSTANTS
    None = None
    Malformed = Malformed
    Calls = {c1, c2}
    FinanceThreshold = 2
    QuoteThreshold = 1
    MinimumQuotes = 2
    MustBeActive = TRUE
    StandardLeadTime = 14
    Oracle <- MCOracle
    Worlds <- MCWorlds
    Inputs <- MCInputs
    TopK = 1
    MaxRestarts = 1
INVARIANTS
    AnalysisTypeOK
    TrailTellsOutcome
    ReuseSameEvidence
    Grounded
    StricterNeverMilder
    FutureHasNoSay
SYMMETRY Symmetry
CHECK_DEADLOCK FALSE
