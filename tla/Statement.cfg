SPECIFICATION jsSpec
CONSTANTS
    Stmts = {s1, s2}
    Keys = {3, 4}
    Params = {1, 2}
    Null = null
    Unsupported = unsupported
    Names = {"a"}
    Sqls <- Texts
    Args <- ArgLists
    MaxSavepoints = 0
    OutOfMemory = FALSE
    CanFill = TRUE
INVARIANTS
    jsTypeOK
    NoStaleBinding
PROPERTIES
    ErrorsReported
    RunKeepsBindings
