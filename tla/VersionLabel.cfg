SPECIFICATION Spec
CONSTANTS
    Threads = {t1, t2}
    Deleters = {t1, t2}
    Capacity = 2
    InitialRows = 1
    VersionCount = 2
    MergedLoads = TRUE
SYMMETRY ThreadSymmetry
INVARIANTS
    NoIncrementLost
PROPERTIES
    DeletedStaysDeleted
