SPECIFICATION PageSpec
CONSTANTS
    Handlers = {h1, h2}
    Ids = {a1, a2}
    Requests = {r1}
    None = None
    MaxAnalyses = 2
INVARIANT PreviewBeforeDecision
CHECK_DEADLOCK FALSE
SYMMETRY PageSymmetry
