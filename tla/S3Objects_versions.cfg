SPECIFICATION Spec
CONSTANTS
    MaxWrites = 3
    MaxVid = 3
    MaxFaults = 1
    MaxPending = 1
    Faults = {"client", "disk", "kill"}
    HeaderModes = {"none"}
    HeaderHolds = {FALSE}
    LockDocs <- MCLockDocs
    LockModes = {"GOVERNANCE"}
    Workloads <- MCWorkloads
    Copies = {"archived", "elsewhere"}
    MaxUploads = 1
    MaxParts = 2
INVARIANT LockNeedsVersioning FilesAgree LatestIsCurrent
PROPERTY VersionsAreKept LockHolds NoncurrentSparesCurrent RejectedUploadIsGone
