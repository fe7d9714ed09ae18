-------------------------------- MODULE Vdbe --------------------------------
(***************************************************************************)
(* The statement and transaction state machine of ONE database connection, *)
(* as the binding drives it: sqlite3_prepare_v2, sqlite3_bind_*,           *)
(* sqlite3_step, sqlite3_reset, sqlite3_clear_bindings, sqlite3_finalize   *)
(* of src/sqlite3.c.  Several statements of the connection may be active   *)
(* at once, each between two calls of sqlite3_step, and share one          *)
(* transaction of the b-tree; the code keeps that sharing right with a few *)
(* counters (nVdbeActive, nVdbeWrite, nVdbeRead, nStatement, nSavepoint).  *)
(*                                                                         *)
(* The database is one table t(x PRIMARY KEY NOT NULL) WITHOUT ROWID, so   *)
(* its content is a set of keys.  A statement is one of the forms below;   *)
(* an INSERT or DELETE writes all its rows in its first step and, when it  *)
(* has a RETURNING clause, then stays active to hand them out one by one.  *)
(***************************************************************************)
EXTENDS Integers, Sequences, FiniteSets

CONSTANTS
    Stmts,          \* the sqlite3_stmt objects a program may hold
    Keys,           \* values of the column x
    Params,         \* host parameters of the statements
    Null,           \* SQL NULL
    Names,          \* savepoint names
    Sqls,           \* the SQL texts the program prepares
    MaxSavepoints,  \* bound: user savepoints open at once
    OutOfMemory,    \* may an allocation fail during sqlite3_step
    CanFill         \* may the store refuse to grow during a commit

Kinds == {"select", "value", "insert", "delete", "begin", "commit",
          "rollback", "savepoint", "release", "rollbackto"}

SqlType == [kind : Kinds, rows : Seq(Keys \cup Params),
            onConflict : {"abort", "fail", "rollback"},
            returning : BOOLEAN, name : Names]

ASSUME VdbeAssumption ==
    /\ IsFiniteSet(Stmts)
    /\ Keys \subseteq Nat \ {0}
    /\ Params \cap Keys = {}
    /\ Null \notin Keys
    /\ Sqls \subseteq SqlType /\ Sqls # {}
    /\ MaxSavepoints \in Nat
    /\ OutOfMemory \in BOOLEAN
    /\ CanFill \in BOOLEAN

VARIABLES
    db,     \* the fields of struct sqlite3, Btree and Pager that matter here
    vm      \* vm[s]: the fields of struct Vdbe behind statement s

vars == <<db, vm>>

DbType == [autoCommit : BOOLEAN,
           nVdbeActive : Nat, nVdbeWrite : Nat, nVdbeRead : Nat,
           nStatement : Nat, nSavepoint : Nat,
           pSavepoint : Seq(Names), isTransactionSavepoint : BOOLEAN,
           inTrans : {"none", "read", "write"},
           disk : SUBSET Keys, work : SUBSET Keys,
           aSavepoint : Seq(SUBSET Keys)]

VmType == [sql : Sqls, magic : {"dead", "run", "halt"}, started : BOOLEAN,
           rc : {"ok", "error", "busy", "constraint", "nomem", "full"},
           errorAction : {"abort", "fail", "rollback"}, iStatement : Nat,
           left : Nat, at : Keys \cup {0}, aVar : [Params -> Keys \cup {Null}]]
-----------------------------------------------------------------------------
(* Attributes the compiler gives a prepared program.                       *)

IsWriter(q) == q.kind \in {"insert", "delete"}          \* readOnly = 0
IsReader(q) == q.kind # "value"                         \* bIsReader = 1

\* Mutant: the journal is thought needless for two rows.
UsesStmtJournal_Few(q) ==
    q.kind = "insert" /\ q.onConflict = "abort" /\ (Len(q.rows) > 2 \/ q.returning)

\* usesStmtJournal: several rows may be written, and a later one may abort.
UsesStmtJournal(q) ==
    /\ q.kind = "insert"
    /\ q.onConflict = "abort"
    /\ Len(q.rows) > 1 \/ q.returning

\* sqlite3_stmt_busy
Busy(v) == v.magic = "run" /\ v.started

\* Mutant: the result code survives the rewind.
Rewind_KeepsRc(v) == [v EXCEPT !.magic = "run", !.started = FALSE,
                               !.errorAction = "abort", !.iStatement = 0,
                               !.left = 0, !.at = 0]

Rewind(v) == [v EXCEPT !.magic = "run", !.started = FALSE, !.rc = "ok",
                       !.errorAction = "abort", !.iStatement = 0,
                       !.left = 0, !.at = 0]

Unbound == [p \in Params |-> Null]

Fresh(q) == [sql |-> q, magic |-> "run", started |-> FALSE, rc |-> "ok",
             errorAction |-> "abort", iStatement |-> 0, left |-> 0, at |-> 0,
             aVar |-> Unbound]

\* VDBE_MAGIC_DEAD: the memory is gone, so no field keeps its value.
Dead == [Fresh(CHOOSE q \in Sqls : TRUE) EXCEPT !.magic = "dead"]

\* The values of the row list, with the bound parameters in their places.
Rows(v) == [i \in DOMAIN v.sql.rows |->
               IF v.sql.rows[i] \in Params THEN v.aVar[v.sql.rows[i]]
                                           ELSE v.sql.rows[i]]
-----------------------------------------------------------------------------
(* B-tree and pager.                                                       *)

\* Mutant: the transaction ends whoever else is reading.
EndTransaction_All(d) == [d EXCEPT !.inTrans = "none"]

\* A connection keeps the read transaction while other statements read.
EndTransaction(d) ==
    [d EXCEPT !.inTrans = IF @ # "none" /\ d.nVdbeRead > 1 THEN "read"
                                                           ELSE "none"]

BtreeCommit(d) ==
    EndTransaction(IF d.inTrans = "write"
                   THEN [d EXCEPT !.disk = d.work, !.aSavepoint = <<>>]
                   ELSE d)

\* Mutant: the pager keeps its savepoints.
RollbackAll_Savepoints(d) ==
    EndTransaction(IF d.inTrans = "write" THEN [d EXCEPT !.work = d.disk] ELSE d)

RollbackAll(d) ==
    EndTransaction(IF d.inTrans = "write"
                   THEN [d EXCEPT !.work = d.disk, !.aSavepoint = <<>>]
                   ELSE d)

\* Opens savepoints until n exist; each records the content of now.
OpenSavepoint(d, n) ==
    [d EXCEPT !.aSavepoint =
        IF n > Len(@) THEN [i \in 1..n |-> IF i <= Len(@) THEN @[i] ELSE d.work]
                      ELSE @]

\* Rolling back to savepoint i keeps it; i = -1 is the whole transaction.
SavepointRollback(d, i) ==
    IF d.inTrans = "write" /\ i < Len(d.aSavepoint)
    THEN [d EXCEPT !.work = IF i < 0 THEN d.disk ELSE d.aSavepoint[i + 1],
                   !.aSavepoint = SubSeq(@, 1, i + 1)]
    ELSE d

\* Releasing savepoint i destroys it and every later one.
SavepointRelease(d, i) ==
    IF d.inTrans = "write" /\ i < Len(d.aSavepoint)
    THEN [d EXCEPT !.aSavepoint = SubSeq(@, 1, i)]
    ELSE d

BeginRead(d) == [d EXCEPT !.inTrans = IF @ = "none" THEN "read" ELSE @]

\* Mutant: the savepoints made before the first write are never opened.
BeginWrite_NoSavepoints(d) == [d EXCEPT !.inTrans = "write"]

BeginWrite(d) == OpenSavepoint([d EXCEPT !.inTrans = "write"], d.nSavepoint)
-----------------------------------------------------------------------------
(* Halting a program.  "h" pairs the connection with the program.          *)

CloseSavepoints(d) ==
    [d EXCEPT !.pSavepoint = <<>>, !.nSavepoint = 0, !.nStatement = 0,
              !.isTransactionSavepoint = FALSE]

\* What the code does when only the whole transaction can be undone.
AbandonTransaction(d) ==
    [CloseSavepoints(RollbackAll(d)) EXCEPT !.autoCommit = TRUE]

\* Mutant: the statement transaction ends but is still counted.
CloseStatement_Counted(d, v, undo) ==
    IF d.nStatement > 0 /\ v.iStatement # 0
    THEN LET e == IF undo THEN SavepointRollback(d, v.iStatement - 1) ELSE d
         IN  [db |-> SavepointRelease(e, v.iStatement - 1),
              vm |-> [v EXCEPT !.iStatement = 0]]
    ELSE [db |-> d, vm |-> v]

\* sqlite3VdbeCloseStatement: end v's statement transaction, if it has one.
CloseStatement(d, v, undo) ==
    IF d.nStatement > 0 /\ v.iStatement # 0
    THEN LET e == IF undo THEN SavepointRollback(d, v.iStatement - 1) ELSE d
         IN  [db |-> [SavepointRelease(e, v.iStatement - 1)
                         EXCEPT !.nStatement = @ - 1],
              vm |-> [v EXCEPT !.iStatement = 0]]
    ELSE [db |-> d, vm |-> v]

\* Mutants: a reader that ends last does not count as the last one out; any
\* statement that ends in autocommit mode commits.
OnlyWriter_Writers(d, v) == d.autoCommit /\ d.nVdbeWrite = 1

OnlyWriter_Any(d, v) == d.autoCommit

OnlyWriter(d, v) ==
    d.autoCommit /\ d.nVdbeWrite = (IF IsWriter(v.sql) THEN 1 ELSE 0)

\* v holds its result code; "full" says whether a commit, if one is
\* attempted, finds the store unable to grow.
EndOfStatement(d, v, full) ==
    LET special  == v.rc = "nomem"
        stmtUndo == special /\ UsesStmtJournal(v.sql)
        d1       == IF special /\ ~stmtUndo THEN AbandonTransaction(d) ELSE d
        keep     == v.rc = "ok" \/ (v.errorAction = "fail" /\ ~special)
    IN  IF OnlyWriter(d1, v)
        THEN IF keep /\ ~(full /\ d1.inTrans = "write")
             THEN [db |-> [BtreeCommit(d1) EXCEPT !.nStatement = 0], vm |-> v]
             ELSE [db |-> [RollbackAll(d1) EXCEPT !.nStatement = 0],
                   vm |-> IF keep THEN [v EXCEPT !.rc = "full"] ELSE v]
        ELSE IF ~stmtUndo /\ (v.rc = "ok" \/ v.errorAction = "fail")
        THEN CloseStatement(d1, v, FALSE)
        ELSE IF stmtUndo \/ v.errorAction = "abort"
        THEN CloseStatement(d1, v, TRUE)
        ELSE [db |-> AbandonTransaction(d1), vm |-> v]

\* Mutant: a program that has not started is uncounted like any other.
Halt_Unstarted(d, v, full) ==
    IF v.magic # "run" THEN [db |-> d, vm |-> v]
    ELSE [db |-> [d EXCEPT
                    !.nVdbeActive = @ - 1,
                    !.nVdbeWrite = @ - (IF IsWriter(v.sql) THEN 1 ELSE 0),
                    !.nVdbeRead = @ - (IF IsReader(v.sql) THEN 1 ELSE 0)],
          vm |-> [v EXCEPT !.magic = "halt"]]

\* sqlite3VdbeHalt; closing its cursors forgets where v was.
Halt(d, v, full) ==
    IF v.magic # "run" THEN [db |-> d, vm |-> v]
    ELSE IF ~v.started THEN [db |-> d, vm |-> [v EXCEPT !.magic = "halt"]]
    ELSE LET h == IF IsReader(v.sql) THEN EndOfStatement(d, v, full)
                                     ELSE [db |-> d, vm |-> v]
         IN  [db |-> [h.db EXCEPT
                        !.nVdbeActive = @ - 1,
                        !.nVdbeWrite = @ - (IF IsWriter(v.sql) THEN 1 ELSE 0),
                        !.nVdbeRead = @ - (IF IsReader(v.sql) THEN 1 ELSE 0)],
              vm |-> [h.vm EXCEPT !.magic = "halt", !.left = 0, !.at = 0]]
-----------------------------------------------------------------------------
(* sqlite3_step.                                                           *)

\* Mutant: a program is counted at every step.
Enter_Again(s) ==
    LET v == IF vm[s].magic = "halt" THEN Rewind(vm[s]) ELSE vm[s]
    IN  [db |-> [db EXCEPT
                   !.nVdbeActive = @ + 1,
                   !.nVdbeWrite = @ + (IF IsWriter(v.sql) THEN 1 ELSE 0),
                   !.nVdbeRead = @ + (IF IsReader(v.sql) THEN 1 ELSE 0)],
         vm |-> [v EXCEPT !.started = TRUE]]

\* The automatic reset of a halted program, then the entry of one that has
\* not started: it is counted before its first instruction runs.
Enter(s) ==
    LET v == IF vm[s].magic = "halt" THEN Rewind(vm[s]) ELSE vm[s]
    IN  IF v.started THEN [db |-> db, vm |-> v]
        ELSE [db |-> [db EXCEPT
                        !.nVdbeActive = @ + 1,
                        !.nVdbeWrite = @ + (IF IsWriter(v.sql) THEN 1 ELSE 0),
                        !.nVdbeRead = @ + (IF IsReader(v.sql) THEN 1 ELSE 0)],
              vm |-> [v EXCEPT !.started = TRUE]]

Starting(s) == ~Busy(vm[s])

Apply(s, d, v) ==
    /\ db' = d
    /\ vm' = [vm EXCEPT ![s] = v]

\* Halt with result code rc; whether a commit fails is the store's choice.
Finish(s, d, v, rc) ==
    \E full \in {FALSE, CanFill} :
        LET h == Halt(d, [v EXCEPT !.rc = rc], full) IN Apply(s, h.db, h.vm)

CanStep(s, kind) == vm[s].magic # "dead" /\ vm[s].sql.kind = kind

\* SELECT x FROM t: the next key after the cursor, in key order.
StepSelect(s) ==
    LET e == Enter(s)
        d == IF Starting(s) THEN BeginRead(e.db) ELSE e.db
        ahead == {k \in d.work : k > e.vm.at}
    IN  /\ CanStep(s, "select")
        /\ \/ \E k \in ahead :
                 /\ \A j \in ahead : k <= j
                 /\ Apply(s, d, [e.vm EXCEPT !.at = k])
           \/ ahead = {} /\ Finish(s, d, e.vm, "ok")
           \/ OutOfMemory /\ Finish(s, d, e.vm, "nomem")

\* SELECT ?1: one row, no database access.
StepValue(s) ==
    LET e == Enter(s)
    IN  /\ CanStep(s, "value")
        /\ \/ Starting(s) /\ Apply(s, e.db, e.vm)
           \/ ~Starting(s) /\ Finish(s, e.db, e.vm, "ok")

\* OP_Transaction of a writer, with its statement transaction.
OpenStatement(d, v) ==
    LET d1 == BeginWrite(d)
        n  == d.nSavepoint + d.nStatement + 1
    IN  IF UsesStmtJournal(v.sql) /\ (~d.autoCommit \/ d.nVdbeRead > 1)
        THEN [db |-> OpenSavepoint([d1 EXCEPT !.nStatement = @ + 1], n),
              vm |-> [v EXCEPT !.iStatement = n]]
        ELSE [db |-> d1, vm |-> v]

\* Row i cannot be inserted: NULL, or a key that is already there.
Clash(content, rows, i) ==
    \/ rows[i] \notin Keys
    \/ rows[i] \in content
    \/ \E j \in 1..(i - 1) : rows[j] = rows[i]

Prefix(rows, n) == {rows[i] : i \in 1..n}

\* The writes of v are done; n rows remain to be returned.
Written(s, d, v, n) ==
    IF v.sql.returning /\ n > 0
    THEN Apply(s, d, [v EXCEPT !.left = n - 1])
    ELSE Finish(s, d, v, "ok")

\* INSERT: all the rows, or those before the first that clashes.
StartInsert(s) ==
    LET e == Enter(s)
        o == OpenStatement(e.db, e.vm)
        rows == Rows(o.vm)
        clashes == {i \in 1..Len(rows) : Clash(o.db.work, rows, i)}
        With(n) == [o.db EXCEPT !.work = @ \cup Prefix(rows, n)]
    IN  /\ CanStep(s, "insert")
        /\ Starting(s)
        /\ \/ clashes = {} /\ Written(s, With(Len(rows)), o.vm, Len(rows))
           \/ \E i \in clashes :
                 /\ \A j \in clashes : i <= j
                 /\ Finish(s, With(i - 1),
                           [o.vm EXCEPT !.errorAction = o.vm.sql.onConflict],
                           "constraint")
           \/ /\ OutOfMemory
              /\ \E n \in 0..Len(rows) :
                    /\ \A i \in clashes : n < i
                    /\ Finish(s, With(n), o.vm, "nomem")

\* DELETE FROM t WHERE x IN (...): it can only run out of memory.
StartDelete(s) ==
    LET e == Enter(s)
        o == OpenStatement(e.db, e.vm)
        victims == o.db.work \cap Prefix(Rows(o.vm), Len(o.vm.sql.rows))
        Without(K) == [o.db EXCEPT !.work = @ \ K]
    IN  /\ CanStep(s, "delete")
        /\ Starting(s)
        /\ \/ Written(s, Without(victims), o.vm, Cardinality(victims))
           \/ /\ OutOfMemory
              /\ \E K \in SUBSET victims : Finish(s, Without(K), o.vm, "nomem")

\* The later steps of a writer: a RETURNING row, or the end.
StepReturning(s) ==
    /\ vm[s].magic # "dead" /\ IsWriter(vm[s].sql)
    /\ ~Starting(s)
    /\ \/ vm[s].left > 0 /\ Apply(s, db, [vm[s] EXCEPT !.left = @ - 1])
       \/ vm[s].left = 0 /\ Finish(s, db, vm[s], "ok")
       \/ OutOfMemory /\ Finish(s, db, vm[s], "nomem")

\* BEGIN.  OP_AutoCommit halts the program, then forgets every savepoint.
StepBegin(s) ==
    LET e == Enter(s)
        h == Halt([e.db EXCEPT !.autoCommit = FALSE], e.vm, FALSE)
    IN  /\ CanStep(s, "begin")
        /\ \/ db.autoCommit /\ Apply(s, CloseSavepoints(h.db), h.vm)
           \/ ~db.autoCommit /\ Finish(s, e.db, e.vm, "error")

\* COMMIT, refused while another statement is still writing.
StepCommit(s) ==
    LET e == Enter(s)
    IN  /\ CanStep(s, "commit")
        /\ \/ db.autoCommit /\ Finish(s, e.db, e.vm, "error")
           \/ /\ ~db.autoCommit /\ db.nVdbeWrite > 0
              /\ Finish(s, e.db, e.vm, "busy")
           \/ /\ ~db.autoCommit /\ db.nVdbeWrite = 0
              /\ \E full \in {FALSE, CanFill} :
                    LET h == Halt([e.db EXCEPT !.autoCommit = TRUE], e.vm, full)
                    IN  Apply(s, CloseSavepoints(h.db), h.vm)

\* ROLLBACK, whatever the other statements are doing.
StepRollback(s) ==
    LET e == Enter(s)
        h == Halt([RollbackAll(e.db) EXCEPT !.autoCommit = TRUE], e.vm, FALSE)
    IN  /\ CanStep(s, "rollback")
        /\ \/ db.autoCommit /\ Finish(s, e.db, e.vm, "error")
           \/ ~db.autoCommit /\ Apply(s, CloseSavepoints(h.db), h.vm)

\* SAVEPOINT name: the first one, outside BEGIN, is a transaction savepoint.
\* Without memory for its name the whole transaction is abandoned.
StepSavepoint(s) ==
    LET e == Enter(s)
        pushed == [e.db EXCEPT !.pSavepoint = Append(@, e.vm.sql.name)]
    IN  /\ CanStep(s, "savepoint")
        /\ Len(db.pSavepoint) < MaxSavepoints
        /\ \/ db.nVdbeWrite > 0 /\ Finish(s, e.db, e.vm, "busy")
           \/ /\ db.nVdbeWrite = 0 /\ db.autoCommit
              /\ Finish(s, [pushed EXCEPT !.autoCommit = FALSE,
                                          !.isTransactionSavepoint = TRUE],
                        e.vm, "ok")
           \/ /\ db.nVdbeWrite = 0 /\ ~db.autoCommit
              /\ Finish(s, [pushed EXCEPT !.nSavepoint = @ + 1], e.vm, "ok")
           \/ /\ OutOfMemory /\ db.nVdbeWrite = 0
              /\ Finish(s, e.db, e.vm, "nomem")

\* Positions in pSavepoint (oldest first) that bear the statement's name.
Named(s) == {i \in DOMAIN db.pSavepoint : db.pSavepoint[i] = vm[s].sql.name}

IsLatest(i, S) == i \in S /\ \A j \in S : j <= i

\* Mutant: off by one.
BtreeIndex_Next(i) == db.nSavepoint - (Len(db.pSavepoint) - i)

\* Index, at the b-tree, of the savepoint at position i.
BtreeIndex(i) == db.nSavepoint - (Len(db.pSavepoint) - i) - 1

\* Mutant: the names are dropped, the count stays.
Popped_Names(d, i) == [d EXCEPT !.pSavepoint = SubSeq(@, 1, i)]

\* The savepoints after position i are gone.
Popped(d, i) == [d EXCEPT !.pSavepoint = SubSeq(@, 1, i),
                          !.nSavepoint = @ - (Len(d.pSavepoint) - i)]

\* RELEASE name.  Releasing the transaction savepoint is a COMMIT, except
\* that a failed commit leaves the connection inside the transaction.
StepRelease(s) ==
    LET e == Enter(s)
        Inner(i) == [SavepointRelease(Popped(e.db, i), BtreeIndex(i)) EXCEPT
                        !.pSavepoint = SubSeq(@, 1, i - 1), !.nSavepoint = @ - 1]
    IN  /\ CanStep(s, "release")
        /\ \/ Named(s) = {} /\ Finish(s, e.db, e.vm, "error")
           \/ /\ Named(s) # {} /\ db.nVdbeWrite > 0
              /\ Finish(s, e.db, e.vm, "busy")
           \/ /\ db.nVdbeWrite = 0
              /\ \E i \in DOMAIN db.pSavepoint :
                    /\ IsLatest(i, Named(s))
                    /\ ~(i = 1 /\ db.isTransactionSavepoint)
                    /\ Finish(s, Inner(i), e.vm, "ok")
           \/ /\ db.nVdbeWrite = 0 /\ db.isTransactionSavepoint
              /\ IsLatest(1, Named(s))
              /\ \E full \in {FALSE, CanFill} :
                    LET h == Halt([e.db EXCEPT !.autoCommit = TRUE], e.vm, full)
                    IN  IF h.vm.rc = "ok"
                        THEN Apply(s, CloseSavepoints(h.db), h.vm)
                        ELSE Apply(s, [h.db EXCEPT !.autoCommit = FALSE], h.vm)

\* ROLLBACK TO name.  Active writers do not prevent it.  Saving the cursors of
\* the others, and the playback, take memory.
StepRollbackTo(s) ==
    LET e == Enter(s)
    IN  /\ CanStep(s, "rollbackto")
        /\ \/ Named(s) = {} /\ Finish(s, e.db, e.vm, "error")
           \/ \E i \in DOMAIN db.pSavepoint :
                 /\ IsLatest(i, Named(s))
                 /\ Finish(s, SavepointRollback(Popped(e.db, i), BtreeIndex(i)),
                           e.vm, "ok")
           \/ OutOfMemory /\ Named(s) # {} /\ Finish(s, e.db, e.vm, "nomem")

Step(s) ==
    \/ StepSelect(s) \/ StepValue(s)
    \/ StartInsert(s) \/ StartDelete(s) \/ StepReturning(s)
    \/ StepBegin(s) \/ StepCommit(s) \/ StepRollback(s)
    \/ StepSavepoint(s) \/ StepRelease(s) \/ StepRollbackTo(s)
-----------------------------------------------------------------------------
(* The other calls.                                                        *)

Prepare(s, q) ==
    /\ vm[s].magic = "dead"
    /\ vm' = [vm EXCEPT ![s] = Fresh(q)]
    /\ UNCHANGED db

\* sqlite3_bind_*: SQLITE_MISUSE once the program has started, SQLITE_RANGE
\* for a parameter it does not have.
Bind(s, p, value) ==
    /\ vm[s].magic = "run" /\ ~vm[s].started
    /\ \E i \in DOMAIN vm[s].sql.rows : vm[s].sql.rows[i] = p
    /\ vm' = [vm EXCEPT ![s].aVar[p] = value]
    /\ UNCHANGED db

ClearBindings(s) ==
    /\ vm[s].magic # "dead"
    /\ vm' = [vm EXCEPT ![s].aVar = Unbound]
    /\ UNCHANGED db

Reset(s) ==
    /\ vm[s].magic # "dead"
    /\ \E full \in {FALSE, CanFill} :
          LET h == Halt(db, vm[s], full) IN Apply(s, h.db, Rewind(h.vm))

Finalize(s) ==
    /\ vm[s].magic # "dead"
    /\ \E full \in {FALSE, CanFill} :
          LET h == Halt(db, vm[s], full) IN Apply(s, h.db, Dead)

Init ==
    /\ db = [autoCommit |-> TRUE, nVdbeActive |-> 0, nVdbeWrite |-> 0,
             nVdbeRead |-> 0, nStatement |-> 0, nSavepoint |-> 0,
             pSavepoint |-> <<>>, isTransactionSavepoint |-> FALSE,
             inTrans |-> "none", disk |-> {}, work |-> {},
             aSavepoint |-> <<>>]
    /\ vm = [s \in Stmts |-> Dead]

Next ==
    \E s \in Stmts :
        \/ \E q \in Sqls : Prepare(s, q)
        \/ \E p \in Params, value \in Keys \cup {Null} : Bind(s, p, value)
        \/ ClearBindings(s)
        \/ Step(s)
        \/ Reset(s)
        \/ Finalize(s)

Spec == Init /\ [][Next]_vars
-----------------------------------------------------------------------------
(* Properties.                                                             *)

\* The connection and every statement behind it stay well-formed.
TypeOK ==
    /\ db \in DbType
    /\ vm \in [Stmts -> VmType]

\* checkActiveVdbeCnt: the three counters that decide when to commit and when
\* to keep the read transaction count exactly the active statements.
CountersAgree ==
    /\ db.nVdbeActive = Cardinality({s \in Stmts : Busy(vm[s])})
    /\ db.nVdbeWrite = Cardinality({s \in Stmts : Busy(vm[s]) /\ IsWriter(vm[s].sql)})
    /\ db.nVdbeRead = Cardinality({s \in Stmts : Busy(vm[s]) /\ IsReader(vm[s].sql)})

\* Outside BEGIN, no transaction outlives the statements that need it: a
\* write transaction has an active writer, a read transaction an active
\* reader.  Whatever order statements end, fail or are reset in, the last one
\* out commits or rolls back.
TransactionIsOwned ==
    db.autoCommit => /\ db.inTrans = "write" => db.nVdbeWrite > 0
                     /\ db.inTrans = "read" => db.nVdbeRead > 0

\* An active statement that reads never loses its transaction, even when
\* another one commits or rolls back under it.
ReadersHoldTransaction ==
    \A s \in Stmts : Busy(vm[s]) /\ vm[s].sql.kind \in {"select", "insert", "delete"}
                        => db.inTrans # "none"

\* Uncommitted content and b-tree savepoints exist only in a write transaction.
PendingOnlyInTransaction ==
    db.inTrans # "write" => db.work = db.disk /\ db.aSavepoint = <<>>

\* checkSavepointCount and the assertions at the head of OP_Savepoint.
SavepointsAgree ==
    /\ Len(db.pSavepoint) =
          db.nSavepoint + (IF db.isTransactionSavepoint THEN 1 ELSE 0)
    /\ db.pSavepoint # <<>> => ~db.autoCommit

\* The assertion that ends sqlite3VdbeHalt, without its first disjunct: no
\* statement transaction is counted once no writer is active.
StatementsClosed == db.nVdbeWrite = 0 => db.nStatement = 0

\* The committed content changes only to the whole working content, by a step
\* that ends outside a transaction with no writer still active: no commit
\* makes half of somebody's work durable.
CommitIsWhole ==
    [][db'.disk # db.disk => /\ db'.disk = db'.work
                             /\ db'.autoCommit
                             /\ db'.nVdbeWrite = 0]_vars

\* A statement that fails with a constraint under ON CONFLICT ABORT changes
\* nothing: "the effect of that one statement can be rolled back".
FailedStatementUndone ==
    [][\A s \in Stmts :
          StartInsert(s) /\ vm'[s].rc = "constraint" /\ vm'[s].errorAction = "abort"
             => db'.work = db.work]_vars
=============================================================================
