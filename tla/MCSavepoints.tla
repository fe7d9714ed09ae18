---------------------------- MODULE MCSavepoints ----------------------------
(* An instance of Savepoints for TLC.                                      *)
EXTENDS Savepoints, TLC

CONSTANTS p1

Plain(kind, name) ==
    [kind |-> kind, rows |-> <<>>, onConflict |-> "abort",
     returning |-> FALSE, name |-> name]

Insert(rows, conflict) ==
    [kind |-> "insert", rows |-> rows, onConflict |-> conflict,
     returning |-> FALSE, name |-> "a"]

\* The statements that open and close transactions and savepoints, an INSERT
\* that fails after its first row, and a DELETE whose RETURNING clause keeps it
\* active between two calls. It needs no statement transaction, so the undoing
\* of another statement's rows that run undo shows does not come in.
Delete(rows) == [Insert(rows, "abort") EXCEPT !.kind = "delete", !.returning = TRUE]

SavepointSqls ==
    {Plain(kind, "a") : kind \in {"begin", "commit", "rollback"}}
    \cup {Plain(kind, name) : kind \in {"savepoint", "release", "rollbackto"},
                              name \in Names}
    \cup {Insert(<<p1, 1>>, "abort"), Delete(<<1>>)}

StmtSymmetry == Permutations(Stmts)
=============================================================================
