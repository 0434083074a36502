SPECIFICATION Spec
CONSTANTS
    k1 = k1
    k2 = k2
    c1 = c1
    c2 = c2
    g1 = g1
    t1 = t1
    awss3 = awss3
    mine = mine
    Absent = Absent
    Torn = Torn
    Keys = {k1, k2}
    Aliases = {awss3, mine}
    AwsS3 = awss3
    Grants = {g1}
    TagKeys = {t1}
    KindsMade = {"symmetric", "mac"}
    Clients = {c1, c2}
    Workloads <- MCWorkloads
    maxOnDemandRotations = 2
    maxAliasesPerKey = 2
    maxGrantsPerKey = 1
    maxTagsPerKey = 1
    MaxMaterials = 4
    MaxFaults = 1
SYMMETRY MCSymmetry
INVARIANTS
    SealedMaterialKept
    GenuineOpens
    RotationsAreCounted
PROPERTIES
    PendingIsFrozen
    DefaultKeyStable
    AliasKeepsKind
CHECK_DEADLOCK FALSE
