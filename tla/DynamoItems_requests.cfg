SPECIFICATION Spec
CONSTANTS
    Keys = {k1, k2, k3}
    Streamed = {k1}
    Vals = {v1}
    Bare = Bare
    Absent = Absent
    Corrupt = Corrupt
    Faults = {"open", "remove"}
    DoubleFaults = FALSE
    Kills = TRUE
    NestedUpdates = FALSE
    Kinds = {"put", "update", "delete", "check"}
    MaxActions = 3
    MaxBatch = 2
SYMMETRY KeySymmetry
INVARIANT ReplicaIsExact
PROPERTY ImplementsAtomicItems EndsInPrefix OldImageIsPrevious NoPhantomRecord
