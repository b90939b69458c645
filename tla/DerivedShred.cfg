SPECIFICATION DerivedSpec
CONSTANTS
    Views = {v1}
    Appenders = {a1}
    Kinds = {"subject"}
    BootModes = {"normal"}
    Replicated = FALSE
    MaxEpisodes = 2
    MaxShreds = 1
    MaxStops = 1
INVARIANT ErasedOrFlagged
CHECK_DEADLOCK FALSE
