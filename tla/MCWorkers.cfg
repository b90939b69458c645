SPECIFICATION WorkersSpec

CONSTANTS
    Policies = {FALSE}
    MaxSegs = 2
    MaxWrites = 2
    MaxCloses = 0
    MaxKills = 0
    MaxPowerLosses = 0
    MaxCrashes = 2
    MaxFaults = 1
    OrderedWriteback = TRUE
    FsyncLosesPages = FALSE
    PowerLossExposed = FALSE

    Segments = {s1, s2}
    Readers = {r1}
    Profiles = {p1}
    NoProfile = NoProfile
    MaxGen = 2
    Copies = {1}
    Grace = 1
    CacheLimit = 1
    MaxClock = 2
    MaxPacks = 2
    MaxReads = 0
    MaxRetentions = 0
    MaxRots = 1

    SentinelWorkers = {w1, w2}
    QueueCapacity = 1
    CatchUpBatch = 2
    DerivedWindow = 2
    CursorPolicies = {"strict", "rebuild"}
    TailExposed = FALSE
    MaxRaw = 2
    MaxTroubles = 2

INVARIANT DerivedExactlyOnce
INVARIANT RefusedForCause
PROPERTY IdleTailSynced
PROPERTY OthersArePacked
PROPERTY CaughtUp

CHECK_DEADLOCK FALSE
