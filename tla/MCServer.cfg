SPECIFICATION FairSpec
CONSTANTS
    Handlers = {h1, h2}
    Configured <- MCConfigured
    MaxTicks = 3
INVARIANTS TypeOK CleanShutdown RoundIsComplete
PROPERTIES RoundsArePaced Terminates GracefulShutdown
CHECK_DEADLOCK FALSE
