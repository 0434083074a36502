SPECIFICATION CSpec
CONSTANTS
    Tables = {t1}
    Views = {v1}
    BufIds = {b1, b2, b3}
    Nil = Nil
    Clients = {c1}
    Limits = {1, 2}
    MaxReads = 2
    Retention = 1
    MsPerTick = 2
    Faults = {"remove"}
    ClockLeads = TRUE
    Stops = TRUE
    MaxNow = 3
    MaxEvents = 2
    MaxLabels = 2
SYMMETRY BufSymmetry
INVARIANT InOrderOnce BufferIsDurable
PROPERTY ResumeIsExact
