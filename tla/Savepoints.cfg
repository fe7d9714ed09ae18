SPECIFICATION MarkSpec
CONSTANTS
    Stmts = {s1, s2}
    Keys = {1, 2}
    p1 = p1
    Params = {p1}
    Null = null
    Names = {"a", "b"}
    Sqls <- SavepointSqls
    MaxSavepoints = 2
    OutOfMemory = FALSE
    CanFill = TRUE
SYMMETRY StmtSymmetry
INVARIANTS
    SavepointsAgree
    SavepointsHoldMarks
PROPERTIES
    RollbackToRestores
    FailedStatementUndone
