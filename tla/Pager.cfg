SPECIFICATION Spec
CONSTANTS
    Pagers = {p1, p2}
    MaxPage = 2
    Vals = {0, 1}
    MaxSavepoints = 2
    MaxSub = 1
    MaxVer = 2
    Limits = {1, 2}
    Turns = TRUE
    FirstUndone = FALSE
    LateFull = FALSE
    SavepointsAlone = TRUE
    None = None
SYMMETRY PagerSymmetry
INVARIANTS
    TypeOK
    LocksAgree
    WriteAhead
    CacheCoherent
    UnchangedMeansFresh
    HeaderAgrees
PROPERTIES
    FailureRestores
    ImplementsStore
