SPECIFICATION FairSpec
CONSTANTS
    Tables = {t1}
    Views = {v1, v2}
    BufIds = {b1, b2, b3}
    Nil = Nil
    Retention = 1
    MsPerTick = 2
    Faults = {"open", "write", "remove"}
    ClockLeads = TRUE
    Stops = TRUE
    MaxNow = 3
    MaxEvents = 2
    MaxLabels = 2
INVARIANT SeqOrdered NoResurrection
PROPERTY OrphanFileFrozen ExpiredEventuallyTrimmed
