SPECIFICATION MetricsSpec
CONSTANTS
    Scrapes = {s1, s2}
    Labels = {ok, error}
    Names = {usd}
    Buckets = {1, 2}
    Seconds = {1, 3}
    MaxLog = 3
INVARIANTS MetricsTypeOK PagesAreOneInstant
SYMMETRY Symmetry
