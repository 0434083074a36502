SPECIFICATION FairSpec
CONSTANTS
    Items = {1, 2, 3}
    SortVals = {1}
    Clients = {c1, c2}
    Modes = {"scan", "segment", "query_desc", "list_streams"}
    Limits = {1, 2}
    TotalSegments = 2
    Writers = TRUE
INVARIANT NothingSkipped NothingTwice
PROPERTY PagingEnds
