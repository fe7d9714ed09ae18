SPECIFICATION Spec
CONSTANTS
    p1 = p1
    Stmts = {s1, s2}
    Keys = {1, 2}
    Params = {}
    Null = null
    Names = {"a"}
    Sqls <- AllKinds
    MaxSavepoints = 1
    OutOfMemory = TRUE
    CanFill = TRUE
SYMMETRY StmtSymmetry
INVARIANTS
    TypeOK
    CountersAgree
    StatementsClosed
    TransactionIsOwned
    ReadersHoldTransaction
    PendingOnlyInTransaction
PROPERTIES
    CommitIsWhole
