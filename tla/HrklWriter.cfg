SPECIFICATION Spec

CONSTANTS
    Policies = {TRUE, FALSE}
    MaxSegs = 3
    MaxWrites = 3
    MaxCloses = 1
    MaxKills = 2
    MaxPowerLosses = 1
    MaxCrashes = 2
    MaxFaults = 1
    OrderedWriteback = TRUE
    FsyncLosesPages = FALSE
    PowerLossExposed = FALSE

INVARIANT TypeOK
INVARIANT BootNeverRefuses
INVARIANT EngineMatchesDisk
PROPERTY KeepsPromises
