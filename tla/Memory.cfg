SPECIFICATION Spec
CONSTANTS
    Conns = {c1, c2}
    Stmts = {s1, s2}
    InitialSize = 1
    MaxSize = 6
    Undefined = undefined
SYMMETRY Symmetry
CHECK_DEADLOCK FALSE
INVARIANTS
    TypeOK
    HandlesOwned
    NothingHeld
