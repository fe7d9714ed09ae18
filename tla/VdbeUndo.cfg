SPECIFICATION Spec
CONSTANTS
    p1 = p1
    Stmts = {s1, s2, s3}
    Keys = {1, 2}
    Params = {}
    Null = null
    Names = {"a"}
    Sqls <- ActiveWriters
    MaxSavepoints = 0
    OutOfMemory = FALSE
    CanFill = FALSE
SYMMETRY StmtSymmetry
PROPERTIES
    FailedStatementUndone
