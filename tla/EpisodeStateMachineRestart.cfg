SPECIFICATION Spec

CONSTANTS
    Nodes = {n1, n2}
    MaxEntries = 2
    MaxClock = 0
    MaxBatch = 2
    MaxCrashes = 1
    MaxFaults = 0
    BuildsAnytime = TRUE
    OlderSnapshots = FALSE

INVARIANT LogsAgree

SYMMETRY Symmetry

CHECK_DEADLOCK FALSE
