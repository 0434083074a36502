SPECIFICATION Spec
CONSTANTS
    Keys = {k1, k2}
    Streamed = {k1, k2}
    Vals = {v1}
    Bare = Bare
    Absent = Absent
    Corrupt = Corrupt
    Faults = {"write"}
    DoubleFaults = FALSE
    Kills = FALSE
    NestedUpdates = FALSE
    Kinds = {"put", "update", "delete"}
    MaxActions = 2
    MaxBatch = 1
PROPERTY AllOrNothing
