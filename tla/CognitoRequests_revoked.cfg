SPECIFICATION Spec
CONSTANTS
    p1 = p1
    p2 = p2
    g1 = g1
    e1 = e1
    t1 = t1
    ann = ann
    Ann = Ann
    Absent = Absent
    Torn = Torn
    Names = {ann, Ann}
    Fold <- MCFold
    Groups = {g1}
    Emails = {e1}
    TagKeys = {t1}
    Procs = {p1, p2}
    Starts <- MCRevoking
    maxUserPoolTags = 1
    MaxApps = 1
    MaxUsers = 1
    MaxFamilies = 2
    MaxKeys = 1
    MaxFaults = 0
SYMMETRY MCSymmetry
INVARIANT
    RevokedAreRejected
CHECK_DEADLOCK FALSE
