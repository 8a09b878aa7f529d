SPECIFICATION Spec
CONSTANTS
    Savers = {s1, s2}
    Readers = {q1}
    Currencies = {usd, eur}
    Times = {1, 2}
    MaxRows = 2
    MaxCrashes = 0
    Limits = {0, 9}
    DefaultLimit = 2
    MaxLimit = 3
    None = None
INVARIANTS TypeOK NoConnectionLeak HistoryIsWhole
SYMMETRY Symmetry
CHECK_DEADLOCK FALSE
