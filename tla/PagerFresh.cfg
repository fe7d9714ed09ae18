SPECIFICATION Spec
CONSTANTS
    Pagers = {p1, p2}
    MaxPage = 2
    Vals = {0, 1}
    MaxSavepoints = 0
    MaxSub = 1
    MaxVer = 2
    Limits = {1, 2}
    Turns = TRUE
    FirstUndone = TRUE
    LateFull = FALSE
    SavepointsAlone = TRUE
    None = None
SYMMETRY PagerSymmetry
INVARIANTS
    UnchangedMeansFresh
