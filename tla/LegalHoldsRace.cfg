SPECIFICATION HoldsSpec

CONSTANTS
    h1 = h1
    h2 = h2
    s1 = s1
    s2 = s2
    Officers = {o1}
    Holds = {h1, h2}
    Segments = {s1, s2}
    Scope <- MCScope
    MaxHoldFaults = 0
    MaxHoldKills = 0

PROPERTY HeldIsKept
