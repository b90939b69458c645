SPECIFICATION FilesSpec

CONSTANTS
    Segments = {s1}
    Readers = {r1}
    Profiles = {p1, p2}
    NoProfile = NoProfile
    MaxGen = 2
    Copies = {2}
    Grace = 1
    CacheLimit = 1
    MaxClock = 3
    MaxPacks = 2
    MaxReads = 1
    MaxRetentions = 1
    MaxRots = 0
    MaxFaults = 1
    MaxCrashes = 1

    MaxIndex = 2
    MaxTerm = 2
    MaxRecords = 4
    MaxBatch = 2
    LazyBy = 2
    MaxKills = 1
    MaxPower = 1
    MaxLogFaults = 1
    OrderedWriteback = TRUE

    Requests = {q1, q2}
    MaxFiles = 3
    MaxVersions = 2
    MaxHvmEvents = 2

SYMMETRY RequestsAlike

INVARIANT FilesTypeOK
INVARIANT AuthorityOnDisk
INVARIANT BootNeverRefuses
INVARIANT PinnedFileStays
INVARIANT CheckpointWhole
INVARIANT AnsweredSurvives
PROPERTY FilesOutliveCatalogue
PROPERTY KeepsContract

CHECK_DEADLOCK FALSE
