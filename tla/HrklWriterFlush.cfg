SPECIFICATION Spec

CONSTANTS
    Policies = {FALSE}
    MaxSegs = 3
    MaxWrites = 3
    MaxCloses = 1
    MaxKills = 0
    MaxPowerLosses = 1
    MaxCrashes = 2
    MaxFaults = 2
    OrderedWriteback = TRUE
    FsyncLosesPages = TRUE
    PowerLossExposed = FALSE

INVARIANT PromisesHeld

CHECK_DEADLOCK FALSE
