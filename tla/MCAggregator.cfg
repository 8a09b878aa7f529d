SPECIFICATION Spec
CONSTANTS
    Fetchers = {f1, f2}
    Refreshers = {s1}
    Clients = {cbr}
    Currencies = {usd}
    HasStore = TRUE
    TTL = 1
    MaxTime = 2
    None = None
    Miss = Miss
INVARIANTS TypeOK ServedIsPersisted CountersReconcile
PROPERTY RegressOnlyByOverlap
SYMMETRY Symmetry
CHECK_DEADLOCK FALSE
