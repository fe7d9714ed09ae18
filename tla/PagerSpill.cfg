SPECIFICATION Spec
CONSTANTS
    Pagers = {p1}
    MaxPage = 3
    Vals = {0, 1}
    MaxSavepoints = 0
    MaxSub = 1
    MaxVer = 2
    Limits = {2}
    Turns = TRUE
    FirstUndone = FALSE
    LateFull = TRUE
    SavepointsAlone = TRUE
    None = None
PROPERTIES
    FailureRestores
