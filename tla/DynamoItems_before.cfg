SPECIFICATION Spec
CONSTANTS
    Keys = {k1}
    Streamed = {k1}
    Vals = {v1, v2}
    Bare = Bare
    Absent = Absent
    Corrupt = Corrupt
    Faults = {}
    DoubleFaults = FALSE
    Kills = FALSE
    NestedUpdates = TRUE
    Kinds = {"put", "update", "delete"}
    MaxActions = 1
    MaxBatch = 1
PROPERTY OldImageIsPrevious
