SPECIFICATION Spec
CONSTANTS
    Items = {1, 2, 3}
    SortVals = {1, 2}
    Clients = {c1}
    Modes = {"index", "index_desc", "hash_index"}
    Limits = {1, 2}
    TotalSegments = 1
    Writers = FALSE
INVARIANT NothingSkipped
