----------------------------- MODULE Savepoints -----------------------------
(***************************************************************************)
(* What SAVEPOINT and ROLLBACK TO promise, on top of module Vdbe.  The     *)
(* code never stores "the content when this savepoint was created": it     *)
(* counts savepoints (nSavepoint), lets the pager open them lazily at the  *)
(* next write, and later finds the pager's record by arithmetic on         *)
(* positions.  The history variable "marks" remembers that content.        *)
(***************************************************************************)
EXTENDS Vdbe

VARIABLE marks      \* marks[i]: the content when pSavepoint[i] was created

markVars == <<db, vm, marks>>

MarkInit == Init /\ marks = <<>>

\* RELEASE of the transaction savepoint whose commit failed: the content is
\* rolled back, yet every savepoint stays open, on the committed content.
FailedRelease ==
    db.inTrans = "write" /\ db'.inTrans # "write" /\ db'.pSavepoint # <<>>

MarkNext ==
    /\ Next
    /\ marks' = IF Len(db'.pSavepoint) > Len(db.pSavepoint)
                THEN Append(marks, db.work)
                ELSE [i \in DOMAIN db'.pSavepoint |->
                         IF FailedRelease THEN db'.work ELSE marks[i]]

MarkSpec == MarkInit /\ [][MarkNext]_markVars
-----------------------------------------------------------------------------
\* ROLLBACK TO, unless it runs out of memory and everything is rolled back,
\* restores the content its savepoint was created with, whether
\* the pager opened that savepoint at once, later, or never, and whichever
\* savepoints were released or rolled back to in between (a failed release of
\* the transaction savepoint loses those contents, see FailedRelease).
RollbackToRestores ==
    [][\A s \in Stmts : \A i \in DOMAIN db.pSavepoint :
          StepRollbackTo(s) /\ IsLatest(i, Named(s)) /\ vm'[s].rc = "ok"
             => db'.work = marks[i]]_markVars

\* An open savepoint the pager has a record of is recorded with its content;
\* one the pager has no record of has seen no write since it was created.
SavepointsHoldMarks ==
    \A i \in DOMAIN db.pSavepoint :
        LET j == BtreeIndex(i) + 1
        IN  CASE j = 0 -> marks[i] = db.disk
              [] j \in DOMAIN db.aSavepoint -> marks[i] = db.aSavepoint[j]
              [] OTHER -> marks[i] = db.work
=============================================================================
