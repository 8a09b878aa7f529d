SPECIFICATION Spec
CONSTANTS
    Callers = {g1, g2}
    Currencies = {usd, eur}
    Results = {a, b}
    TTL = 2
    MaxTime = 4
    None = None
    Miss = Miss
INVARIANT TypeOK
PROPERTY EvictsOnlyExpired ImplementsRateCache
