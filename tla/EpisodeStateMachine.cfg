SPECIFICATION FairSpec

CONSTANTS
    Nodes = {n1, n2}
    MaxEntries = 3
    MaxClock = 0
    MaxBatch = 2
    MaxCrashes = 1
    MaxFaults = 1
    BuildsAnytime = FALSE
    OlderSnapshots = FALSE

INVARIANT TypeOK
INVARIANT AnswersNameTheirEpisode
INVARIANT SnapshotsWhole
PROPERTY ImplementsAgreedLog
PROPERTY CatchesUp

CHECK_DEADLOCK FALSE
