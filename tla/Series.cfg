SPECIFICATION FairSpec
CONSTANTS
    MaxInt = 7
    DefaultStop = 5
    NoArg = noarg
    NotEq = noteq
    Null = null
    MaxRows = 18
    Queries <- AllQueries
INVARIANTS
    TypeOK
    AllMembersOnce
    OrderKept
    NullGivesAtMostOne
PROPERTIES
    Terminates
CHECK_DEADLOCK FALSE
