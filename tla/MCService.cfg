SPECIFICATION ServiceSpec
CONSTANTS
    Environments <- MCEnvironments
    Default <- MCDefault
    Normal <- MCNormal
    Currencies = {"USD", "EUR"}
    NoText = NoText
    Second = 4
    Words = 32
    MaxPort = 4
    Error = Error
    None = None
    Replies <- MCReplies
    Requests <- MCRequests
    NoAmount = NoAmount
    ClientTimeout = 2
    One = 6
    MaxFloat = 30
    NaN = NaN
    Inf = Inf
    Garbled = Garbled
    NoRate = NoRate
    Asked = Asked
    Timeout = Timeout
    Unasked = Unasked
INVARIANTS TypeOK DurationsAsWritten EveryNamedBankOnce BestIsBest  LongWriteTimeoutIsEnough
CHECK_DEADLOCK FALSE
