SPECIFICATION Spec
CONSTANTS
    MaxWrites = 2
    MaxVid = 2
    MaxFaults = 0
    MaxPending = 0
    Faults = {}
    HeaderModes = {"none"}
    HeaderHolds = {FALSE}
    LockDocs = {}
    LockModes = {}
    Copies = {"current", "archived"}
    Workloads = {{"copy"}}
    MaxUploads = 0
    MaxParts = 0
PROPERTY CopyIsFaithful
