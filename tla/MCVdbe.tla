------------------------------- MODULE MCVdbe -------------------------------
(* Instances of Vdbe for TLC.                                              *)
EXTENDS Vdbe, TLC

CONSTANTS p1

Sql(kind, rows, conflict, returning, name) ==
    [kind |-> kind, rows |-> rows, onConflict |-> conflict,
     returning |-> returning, name |-> name]

Insert(rows, conflict, returning) == Sql("insert", rows, conflict, returning, "a")
Plain(kind) == Sql(kind, <<>>, "abort", FALSE, "a")

Select == Plain("select")

\* A writer that stays active between steps and one that may roll back the
\* transaction, readers, and the plain transaction statements.
ActiveWriters ==
    {Select, Plain("value"), Plain("begin"), Plain("commit"), Plain("rollback"),
     Insert(<<2, 1>>, "abort", TRUE), Insert(<<2>>, "rollback", FALSE)}

\* With them every other kind of statement: a writer that keeps the rows it
\* wrote before it failed, a DELETE, and the savepoint statements.
AllKinds ==
    ActiveWriters
    \cup {Insert(<<1>>, "fail", TRUE), Sql("delete", <<1>>, "abort", FALSE, "a"),
          Plain("savepoint"), Plain("release"), Plain("rollbackto")}

StmtSymmetry == Permutations(Stmts)
=============================================================================
