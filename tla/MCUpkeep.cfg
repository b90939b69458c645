SPECIFICATION UpkeepSpec

CONSTANTS
    h1 = h1
    h2 = h2
    s1 = s1
    s2 = s2
    Officers = {o1, o2}
    Holds = {h1, h2}
    Segments = {s2}
    Scope <- MCScope
    MaxHoldFaults = 1
    MaxHoldKills = 1

    TreeKeys = {ka}
    MAX_SB_FREE_LIST = 1
    MaxPages = 16
    MaxChain = 2
    MaxTreeWrites = 4
    MaxTreeCommits = 3
    MaxTreeCrashes = 1
    ReopensSpilled = FALSE

INVARIANT UpkeepTypeOK
INVARIANT OpensCommitted
PROPERTY EarlierHoldsHold
PROPERTY FlagsConverge

CHECK_DEADLOCK FALSE
