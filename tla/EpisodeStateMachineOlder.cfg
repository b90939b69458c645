SPECIFICATION Spec

CONSTANTS
    Nodes = {n1, n2, n3}
    MaxEntries = 3
    MaxClock = 0
    MaxBatch = 2
    MaxCrashes = 1
    MaxFaults = 0
    BuildsAnytime = FALSE
    OlderSnapshots = TRUE

INVARIANT LogsAgree

SYMMETRY Symmetry

CHECK_DEADLOCK FALSE
