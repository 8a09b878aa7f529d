SPECIFICATION FairSpec
CONSTANTS
    Fetchers = {f1}
    Refreshers = {s1}
    Clients = {cbr, tbank}
    Currencies = {usd}
    HasStore = TRUE
    TTL = 1
    MaxTime = 0
    None = None
    Miss = Miss
INVARIANTS NothingUsableIsLost NoOrphanWorkers
PROPERTY CollectingEnds CanceledReturns
CHECK_DEADLOCK FALSE
