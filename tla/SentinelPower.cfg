SPECIFICATION SentinelSpec

CONSTANTS
    SentinelWorkers = {w1}
    QueueCapacity = 1
    CatchUpBatch = 2
    DerivedWindow = 2
    CursorPolicies = {"strict"}
    TailExposed = TRUE
    MaxRaw = 1
    MaxTroubles = 1

INVARIANT NoneSkipped

CHECK_DEADLOCK FALSE
