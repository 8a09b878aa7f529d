SPECIFICATION Spec
CONSTANTS
    Savers = {s1, s2}
    Readers = {q1}
    Currencies = {usd}
    Times = {1}
    MaxRows = 2
    MaxCrashes = 1
    Limits = {9}
    DefaultLimit = 2
    MaxLimit = 3
    None = None
INVARIANT AllOrNothing
PROPERTY ImplementsRateLog
CHECK_DEADLOCK FALSE
