SPECIFICATION Spec
CONSTANTS
    p1 = p1
    p2 = p2
    g1 = g1
    e1 = e1
    t1 = t1
    ann = ann
    Ann = Ann
    Absent = Absent
    Torn = Torn
    Names = {ann, Ann}
    Fold <- MCFold
    Groups = {g1}
    Emails = {e1}
    TagKeys = {t1}
    Procs = {p1, p2}
    Starts <- MCStarts
    maxUserPoolTags = 1
    MaxApps = 1
    MaxUsers = 2
    MaxFamilies = 2
    MaxKeys = 2
    MaxFaults = 1
SYMMETRY MCSymmetry
INVARIANTS
    TypeOK
    CutFamiliesAreDead
    EndedCannotRefresh
    TokensNameTheirUser
    EveryTokenVerifies
    GroupsAgree
    NothingOutlivesPool
PROPERTIES
    DisabledGetNoTokens
    MfaNeverSkipped
CHECK_DEADLOCK FALSE
