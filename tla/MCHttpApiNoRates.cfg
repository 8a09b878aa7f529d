SPECIFICATION Spec
CONSTANTS
    Requests = {r1}
    HasStore = TRUE
    Day = 2
    LastDay = 1
    None = None
INVARIANT NoRatesIs503
CHECK_DEADLOCK FALSE
