---------------------------- MODULE Vdbe_proofs -----------------------------
(***************************************************************************)
(* Proofs about module Vdbe, for every set of statements, texts and keys.  *)
(* TypeOK is not inductive alone: the end of a run decrements nVdbeActive, *)
(* nVdbeWrite and nVdbeRead, and RELEASE and ROLLBACK TO subtract from     *)
(* nSavepoint.  Those stay natural numbers because the counters count the  *)
(* active statements (CountersAgree) and the list of savepoint names is as *)
(* long as nSavepoint says (SavepointsAgree): IInv is the three together.  *)
(*                                                                         *)
(* A step is proved in three parts: Enter counts its statement (Running),  *)
(* the middle touches the pager or the savepoint list (PagerStep), and     *)
(* Halt, if it is reached, uncounts it (HaltStep).                         *)
(***************************************************************************)
EXTENDS Vdbe, FiniteSetTheorems, SequenceTheorems, TLAPS

\* From d to e: an operation of the b-tree or the pager.
PagerStep(d, e) ==
    /\ e \in DbType
    /\ e.autoCommit = d.autoCommit
    /\ e.nVdbeActive = d.nVdbeActive
    /\ e.nVdbeWrite = d.nVdbeWrite
    /\ e.nVdbeRead = d.nVdbeRead
    /\ e.nStatement = d.nStatement
    /\ e.nSavepoint = d.nSavepoint
    /\ e.pSavepoint = d.pSavepoint
    /\ e.isTransactionSavepoint = d.isTransactionSavepoint

\* btreeEndTransaction changes only the transaction state.
LEMMA EndTransactionStep ==
    ASSUME NEW d \in DbType
    PROVE  PagerStep(d, EndTransaction(d))
BY DEF PagerStep, EndTransaction, DbType

\* A commit of the b-tree leaves the counters and the savepoint list alone.
LEMMA BtreeCommitStep ==
    ASSUME NEW d \in DbType
    PROVE  PagerStep(d, BtreeCommit(d))
<1> DEFINE e == [d EXCEPT !.disk = d.work, !.aSavepoint = <<>>]
<1>1. PagerStep(d, e)
  BY EmptySeq DEF PagerStep, DbType
<1> QED
  BY <1>1, EndTransactionStep DEF BtreeCommit, PagerStep

\* So does a rollback of the b-tree.
LEMMA RollbackAllStep ==
    ASSUME NEW d \in DbType
    PROVE  PagerStep(d, RollbackAll(d))
<1> DEFINE e == [d EXCEPT !.work = d.disk, !.aSavepoint = <<>>]
<1>1. PagerStep(d, e)
  BY EmptySeq DEF PagerStep, DbType
<1> QED
  BY <1>1, EndTransactionStep DEF RollbackAll, PagerStep

\* Opening savepoints in the pager touches no counter of the connection.
LEMMA OpenSavepointStep ==
    ASSUME NEW d \in DbType, NEW n \in Nat
    PROVE  PagerStep(d, OpenSavepoint(d, n))
<1> DEFINE a == d.aSavepoint
           b == [i \in 1..n |-> IF i <= Len(a) THEN a[i] ELSE d.work]
<1>1. a \in Seq(SUBSET Keys) /\ d.work \in SUBSET Keys
  BY DEF DbType
<1>2. b \in Seq(SUBSET Keys)
  <2>1. \A i \in 1..n : i <= Len(a) => a[i] \in SUBSET Keys
    BY <1>1, ElementOfSeq, LenProperties
  <2> QED
    BY <1>1, <2>1, IsASeq
<1>3. PagerStep(d, [d EXCEPT !.aSavepoint = b])
  BY <1>2 DEF PagerStep, DbType
<1> QED
  BY <1>3 DEF OpenSavepoint, PagerStep, DbType

\* Rolling the pager back to a savepoint, or wholly (i = -1).
LEMMA SavepointRollbackStep ==
    ASSUME NEW d \in DbType, NEW i \in Int, i >= -1
    PROVE  PagerStep(d, SavepointRollback(d, i))
<1>1. d.aSavepoint \in Seq(SUBSET Keys)
  BY DEF DbType
<1>2. CASE d.inTrans = "write" /\ i < Len(d.aSavepoint)
  <2>1. SubSeq(d.aSavepoint, 1, i + 1) \in Seq(SUBSET Keys)
    BY <1>1, <1>2, SubSeqProperties, LenProperties
  <2>2. (IF i < 0 THEN d.disk ELSE d.aSavepoint[i + 1]) \in SUBSET Keys
    BY <1>1, <1>2, ElementOfSeq, LenProperties DEF DbType
  <2> QED
    BY <1>2, <2>1, <2>2 DEF PagerStep, SavepointRollback, DbType
<1> QED
  BY <1>2 DEF PagerStep, SavepointRollback, DbType

\* Releasing a savepoint of the pager.
LEMMA SavepointReleaseStep ==
    ASSUME NEW d \in DbType, NEW i \in Nat
    PROVE  PagerStep(d, SavepointRelease(d, i))
<1>1. d.aSavepoint \in Seq(SUBSET Keys)
  BY DEF DbType
<1>2. i < Len(d.aSavepoint) => SubSeq(d.aSavepoint, 1, i) \in Seq(SUBSET Keys)
  BY <1>1, SubSeqProperties, LenProperties
<1> QED
  BY <1>2 DEF PagerStep, SavepointRelease, DbType

\* Starting a read transaction.
LEMMA BeginReadStep ==
    ASSUME NEW d \in DbType
    PROVE  PagerStep(d, BeginRead(d))
BY DEF PagerStep, BeginRead, DbType

\* Starting a write transaction, with the savepoints made before it.
LEMMA BeginWriteStep ==
    ASSUME NEW d \in DbType
    PROVE  PagerStep(d, BeginWrite(d))
<1> DEFINE e == [d EXCEPT !.inTrans = "write"]
<1>1. PagerStep(d, e) /\ d.nSavepoint \in Nat
  BY DEF PagerStep, DbType
<1> QED
  BY <1>1, OpenSavepointStep DEF BeginWrite, PagerStep
-----------------------------------------------------------------------------
\* From d to e: every savepoint is kept, or every one is dropped.
SavepointsKept(d, e) ==
    \/ /\ e.autoCommit = d.autoCommit
       /\ e.nSavepoint = d.nSavepoint
       /\ e.pSavepoint = d.pSavepoint
       /\ e.isTransactionSavepoint = d.isTransactionSavepoint
    \/ /\ e.nSavepoint = 0
       /\ e.pSavepoint = <<>>
       /\ e.isTransactionSavepoint = FALSE

\* From d to e: what a halt does before it uncounts its program.
Halting(d, e) ==
    /\ e \in DbType
    /\ SavepointsKept(d, e)
    /\ e.nVdbeActive = d.nVdbeActive
    /\ e.nVdbeWrite = d.nVdbeWrite
    /\ e.nVdbeRead = d.nVdbeRead

\* sqlite3CloseSavepoints.
LEMMA CloseSavepointsStep ==
    ASSUME NEW d \in DbType
    PROVE  Halting(d, CloseSavepoints(d))
BY EmptySeq DEF Halting, SavepointsKept, CloseSavepoints, DbType

\* The rollback of everything, on an error no savepoint can undo.
LEMMA AbandonTransactionStep ==
    ASSUME NEW d \in DbType
    PROVE  Halting(d, AbandonTransaction(d))
<1> DEFINE r == RollbackAll(d)
<1>1. PagerStep(d, r)
  BY RollbackAllStep
<1>2. AbandonTransaction(d) = [CloseSavepoints(r) EXCEPT !.autoCommit = TRUE]
  BY DEF AbandonTransaction
<1> HIDE DEF r
<1>3. Halting(r, CloseSavepoints(r)) /\ CloseSavepoints(r).pSavepoint = <<>>
      /\ CloseSavepoints(r).nSavepoint = 0
      /\ CloseSavepoints(r).isTransactionSavepoint = FALSE
  BY <1>1, CloseSavepointsStep DEF PagerStep, CloseSavepoints, DbType
<1> QED
  BY <1>1, <1>2, <1>3 DEF Halting, SavepointsKept, PagerStep, DbType

\* sqlite3VdbeCloseStatement keeps the types and the statement's text.
LEMMA CloseStatementStep ==
    ASSUME NEW d \in DbType, NEW v \in VmType, NEW undo \in BOOLEAN
    PROVE  LET h == CloseStatement(d, v, undo)
           IN  /\ Halting(d, h.db)
               /\ h.vm \in VmType
               /\ h.vm.sql = v.sql
<1> DEFINE i == v.iStatement - 1
           e == IF undo THEN SavepointRollback(d, i) ELSE d
           f == SavepointRelease(e, i)
<1>1. CASE d.nStatement > 0 /\ v.iStatement # 0
  <2>1. i \in Nat
    BY <1>1 DEF VmType
  <2>2. PagerStep(d, e)
    <3>1. i \in Int /\ i >= -1
      BY <2>1
    <3>2. PagerStep(d, SavepointRollback(d, i))
      BY <3>1, SavepointRollbackStep
    <3>3. PagerStep(d, d)
      BY DEF PagerStep
    <3> QED
      BY <3>2, <3>3
  <2>3. PagerStep(e, f)
    <3>1. e \in DbType
      BY <2>2 DEF PagerStep
    <3>2. \A x \in DbType : \A n \in Nat : PagerStep(x, SavepointRelease(x, n))
      BY SavepointReleaseStep
    <3> QED
      BY <2>1, <3>1, <3>2
  <2>4. Halting(d, [f EXCEPT !.nStatement = @ - 1])
    <3> HIDE DEF f, e
    <3>1. PagerStep(d, f)
      BY <2>2, <2>3 DEF PagerStep
    <3>2. f.nStatement \in Nat /\ f.nStatement > 0
      BY <1>1, <3>1 DEF PagerStep, DbType
    <3>3. [f EXCEPT !.nStatement = @ - 1] \in DbType
      <4>1. f.nStatement - 1 \in Nat
        BY <3>2
      <4> QED
        BY <3>1, <4>1 DEF PagerStep, DbType
    <3> QED
      BY <3>1, <3>3 DEF Halting, SavepointsKept, PagerStep, DbType
  <2>5. /\ [v EXCEPT !.iStatement = 0] \in VmType
        /\ [v EXCEPT !.iStatement = 0].sql = v.sql
    BY DEF VmType
  <2> QED
    BY <1>1, <2>4, <2>5 DEF CloseStatement
<1>2. CASE ~(d.nStatement > 0 /\ v.iStatement # 0)
  BY <1>2 DEF CloseStatement, Halting, SavepointsKept
<1> QED
  BY <1>1, <1>2

\* What two parts of a halt do, one after the other.
LEMMA HaltingTransitive ==
    ASSUME NEW d, NEW e, NEW f, Halting(d, e), Halting(e, f)
    PROVE  Halting(d, f)
BY DEF Halting, SavepointsKept

\* Every outcome of the end of a statement (commit, rollback, statement
\* rollback, abandoned transaction) leaves the three counters to Halt.
LEMMA EndOfStatementStep ==
    ASSUME NEW d \in DbType, NEW v \in VmType, NEW full \in BOOLEAN
    PROVE  LET h == EndOfStatement(d, v, full)
           IN  /\ Halting(d, h.db)
               /\ h.vm \in VmType
               /\ h.vm.sql = v.sql
<1> DEFINE special  == v.rc = "nomem"
           stmtUndo == special /\ UsesStmtJournal(v.sql)
           d1       == IF special /\ ~stmtUndo THEN AbandonTransaction(d) ELSE d
           keep     == v.rc = "ok" \/ (v.errorAction = "fail" /\ ~special)
           hc       == [db |-> [BtreeCommit(d1) EXCEPT !.nStatement = 0], vm |-> v]
           hr       == [db |-> [RollbackAll(d1) EXCEPT !.nStatement = 0],
                        vm |-> IF keep THEN [v EXCEPT !.rc = "full"] ELSE v]
           ha       == [db |-> AbandonTransaction(d1), vm |-> v]
           Fits(h)  == Halting(d, h.db) /\ h.vm \in VmType /\ h.vm.sql = v.sql
<1>1. Halting(d, d1)
  <2>1. Halting(d, d)
    BY DEF Halting, SavepointsKept
  <2> QED
    BY <2>1, AbandonTransactionStep
<1>2. d1 \in DbType
  BY <1>1 DEF Halting
<1> HIDE DEF d1
<1>3. Fits(hc)
  <2> DEFINE c == BtreeCommit(d1)
  <2>1. PagerStep(d1, c)
    BY <1>2, BtreeCommitStep
  <2> HIDE DEF c
  <2>2. Halting(d1, [c EXCEPT !.nStatement = 0])
    BY <2>1 DEF Halting, SavepointsKept, PagerStep, DbType
  <2> QED
    BY <1>1, <2>2, HaltingTransitive DEF c
<1>4. Fits(hr)
  <2> DEFINE c == RollbackAll(d1)
  <2>1. PagerStep(d1, c)
    BY <1>2, RollbackAllStep
  <2> HIDE DEF c
  <2>2. Halting(d1, [c EXCEPT !.nStatement = 0])
    BY <2>1 DEF Halting, SavepointsKept, PagerStep, DbType
  <2>3. hr.vm \in VmType /\ hr.vm.sql = v.sql
    BY DEF VmType
  <2> QED
    BY <1>1, <2>2, <2>3, HaltingTransitive DEF c
<1>5. Fits(CloseStatement(d1, v, FALSE)) /\ Fits(CloseStatement(d1, v, TRUE))
  BY <1>1, <1>2, CloseStatementStep, HaltingTransitive
<1>6. Fits(ha)
  BY <1>1, <1>2, AbandonTransactionStep, HaltingTransitive
<1>7. EndOfStatement(d, v, full) \in
        {hc, hr, ha, CloseStatement(d1, v, FALSE), CloseStatement(d1, v, TRUE)}
  BY DEF EndOfStatement, d1
<1> QED
  BY <1>3, <1>4, <1>5, <1>6, <1>7
-----------------------------------------------------------------------------
\* What a statement adds to a counter.
One(b) == IF b THEN 1 ELSE 0

\* e counts one active statement, with the text q, less than d.
Uncounts(d, e, q) ==
    /\ e.nVdbeActive = d.nVdbeActive - 1
    /\ e.nVdbeWrite = d.nVdbeWrite - One(IsWriter(q))
    /\ e.nVdbeRead = d.nVdbeRead - One(IsReader(q))

\* d counts at least the statement with the text q.
HasCounted(d, q) ==
    /\ d.nVdbeActive >= 1
    /\ d.nVdbeWrite >= One(IsWriter(q))
    /\ d.nVdbeRead >= One(IsReader(q))

\* sqlite3VdbeHalt of an active program uncounts it exactly once.
LEMMA HaltStep ==
    ASSUME NEW d \in DbType, NEW v \in VmType, NEW full \in BOOLEAN,
           Busy(v), HasCounted(d, v.sql)
    PROVE  LET h == Halt(d, v, full)
           IN  /\ h.db \in DbType /\ h.vm \in VmType
               /\ h.vm.sql = v.sql /\ h.vm.magic = "halt"
               /\ SavepointsKept(d, h.db)
               /\ Uncounts(d, h.db, v.sql)
<1> DEFINE h == IF IsReader(v.sql) THEN EndOfStatement(d, v, full)
                                   ELSE [db |-> d, vm |-> v]
           e == h.db
           w == h.vm
           a == e.nVdbeActive - 1
           b == e.nVdbeWrite - One(IsWriter(v.sql))
           c == e.nVdbeRead - One(IsReader(v.sql))
           f == [e EXCEPT !.nVdbeActive = a, !.nVdbeWrite = b, !.nVdbeRead = c]
           x == [w EXCEPT !.magic = "halt", !.left = 0, !.at = 0]
<1>1. Halting(d, e) /\ w \in VmType /\ w.sql = v.sql
  <2>1. Halting(d, d)
    BY DEF Halting, SavepointsKept
  <2> QED
    BY <2>1, EndOfStatementStep
<1>2. Halt(d, v, full) = [db |-> f, vm |-> x]
  BY DEF Halt, Busy, One
<1> HIDE DEF h
<1>3. a \in Nat /\ b \in Nat /\ c \in Nat
  BY <1>1, SMTT(20) DEF Halting, HasCounted, DbType, One
<1>4. f \in DbType /\ SavepointsKept(d, f) /\ Uncounts(d, f, v.sql)
  <2> HIDE DEF a, b, c
  <2>1. f \in DbType /\ SavepointsKept(d, f)
    BY <1>1, <1>3 DEF Halting, SavepointsKept, DbType
  <2>2. f.nVdbeActive = a /\ f.nVdbeWrite = b /\ f.nVdbeRead = c
    BY <1>1 DEF Halting, DbType
  <2> QED
    BY <1>1, <2>1, <2>2 DEF Halting, Uncounts, a, b, c
<1>5. x \in VmType /\ x.sql = v.sql /\ x.magic = "halt"
  BY <1>1 DEF VmType
<1> HIDE DEF f, x
<1> QED
  BY <1>2, <1>4, <1>5
-----------------------------------------------------------------------------
\* SavepointsAgree, of the connection in the middle of a step.
SavepointsAgreeIn(d) ==
    /\ Len(d.pSavepoint) = d.nSavepoint + One(d.isTransactionSavepoint)
    /\ d.pSavepoint # <<>> => ~d.autoCommit

\* The inductive invariant.
IInv == TypeOK /\ CountersAgree /\ SavepointsAgree

\* d counts what db does, with statement s now in state w.
Recounts(d, s, w) ==
    /\ d.nVdbeActive = db.nVdbeActive + One(Busy(w)) - One(Busy(vm[s]))
    /\ d.nVdbeWrite = db.nVdbeWrite + One(Busy(w) /\ IsWriter(w.sql))
                                    - One(Busy(vm[s]) /\ IsWriter(vm[s].sql))
    /\ d.nVdbeRead = db.nVdbeRead + One(Busy(w) /\ IsReader(w.sql))
                                  - One(Busy(vm[s]) /\ IsReader(vm[s].sql))

\* Two sets that differ at most in s differ in size by that member.
LEMMA CountOneMember ==
    ASSUME NEW S, IsFiniteSet(S), NEW s \in S,
           NEW A \in SUBSET S, NEW B \in SUBSET S,
           A \ {s} = B \ {s}
    PROVE  Cardinality(B) = Cardinality(A) + One(s \in B) - One(s \in A)
<1>1. IsFiniteSet(A) /\ IsFiniteSet(B)
  BY FS_Subset
<1>2. Cardinality(A) \in Nat /\ Cardinality(B) \in Nat
  BY <1>1, FS_CardinalityType
<1>3. /\ Cardinality(A \ {s}) = IF s \in A THEN Cardinality(A) - 1 ELSE Cardinality(A)
      /\ Cardinality(B \ {s}) = IF s \in B THEN Cardinality(B) - 1 ELSE Cardinality(B)
  BY <1>1, FS_RemoveElement
<1> QED
  BY <1>2, <1>3 DEF One

\* The counters still count the active statements when one statement
\* changed and they were recounted for it.
LEMMA Recounted ==
    ASSUME TypeOK, CountersAgree, NEW s \in Stmts, NEW d, NEW w,
           Recounts(d, s, w), Apply(s, d, w)
    PROVE  CountersAgree'
<1> DEFINE A == {t \in Stmts : Busy(vm[t])}
           W == {t \in Stmts : Busy(vm[t]) /\ IsWriter(vm[t].sql)}
           R == {t \in Stmts : Busy(vm[t]) /\ IsReader(vm[t].sql)}
<1>1. vm'[s] = w /\ \A t \in Stmts \ {s} : vm'[t] = vm[t]
  BY DEF Apply, TypeOK
<1>2. IsFiniteSet(Stmts)
  BY VdbeAssumption
<1>3. A \ {s} = A' \ {s} /\ W \ {s} = W' \ {s} /\ R \ {s} = R' \ {s}
  BY <1>1
<1>4. /\ s \in A <=> Busy(vm[s])
      /\ s \in A' <=> Busy(w)
      /\ s \in W <=> Busy(vm[s]) /\ IsWriter(vm[s].sql)
      /\ s \in W' <=> Busy(w) /\ IsWriter(w.sql)
      /\ s \in R <=> Busy(vm[s]) /\ IsReader(vm[s].sql)
      /\ s \in R' <=> Busy(w) /\ IsReader(w.sql)
  BY <1>1
<1>5. /\ A \in SUBSET Stmts /\ W \in SUBSET Stmts /\ R \in SUBSET Stmts
      /\ A' \in SUBSET Stmts /\ W' \in SUBSET Stmts /\ R' \in SUBSET Stmts
  OBVIOUS
<1>6. db.nVdbeActive = Cardinality(A) /\ db.nVdbeWrite = Cardinality(W)
      /\ db.nVdbeRead = Cardinality(R)
  BY DEF CountersAgree
<1>7. CountersAgree' <=> /\ d.nVdbeActive = Cardinality(A')
                         /\ d.nVdbeWrite = Cardinality(W')
                         /\ d.nVdbeRead = Cardinality(R')
  BY DEF CountersAgree, Apply
<1> HIDE DEF A, W, R
<1>8. /\ Cardinality(A') = Cardinality(A) + One(s \in A') - One(s \in A)
      /\ Cardinality(W') = Cardinality(W) + One(s \in W') - One(s \in W)
      /\ Cardinality(R') = Cardinality(R) + One(s \in R') - One(s \in R)
  BY <1>2, <1>3, <1>5, CountOneMember
<1> QED
  BY <1>4, <1>6, <1>7, <1>8 DEF Recounts, One

\* An active statement is counted, so the counters can be decremented.
LEMMA BusyIsCounted ==
    ASSUME TypeOK, CountersAgree, NEW s \in Stmts, Busy(vm[s])
    PROVE  HasCounted(db, vm[s].sql)
<1> DEFINE A == {t \in Stmts : Busy(vm[t])}
           W == {t \in Stmts : Busy(vm[t]) /\ IsWriter(vm[t].sql)}
           R == {t \in Stmts : Busy(vm[t]) /\ IsReader(vm[t].sql)}
<1>1. IsFiniteSet(A) /\ IsFiniteSet(W) /\ IsFiniteSet(R)
  BY VdbeAssumption, FS_Subset
<1>2. \A S : IsFiniteSet(S) /\ s \in S => Cardinality(S) >= 1
  BY FS_EmptySet, FS_CardinalityType
<1>3. \A S : IsFiniteSet(S) => Cardinality(S) >= 0
  BY FS_CardinalityType
<1>4. s \in A /\ (IsWriter(vm[s].sql) => s \in W) /\ (IsReader(vm[s].sql) => s \in R)
  OBVIOUS
<1>5. db.nVdbeActive = Cardinality(A) /\ db.nVdbeWrite = Cardinality(W)
      /\ db.nVdbeRead = Cardinality(R)
  BY DEF CountersAgree
<1> HIDE DEF A, W, R
<1> QED
  BY <1>1, <1>2, <1>3, <1>4, <1>5 DEF HasCounted, One

\* The step of one statement keeps the invariant when it recounts.
LEMMA MoveKeepsIInv ==
    ASSUME IInv, NEW s \in Stmts, NEW d \in DbType, NEW w \in VmType,
           Apply(s, d, w), Recounts(d, s, w), SavepointsAgreeIn(d)
    PROVE  IInv'
<1>1. TypeOK'
  BY DEF IInv, TypeOK, Apply
<1>2. CountersAgree'
  BY Recounted DEF IInv
<1>3. SavepointsAgree'
  BY DEF SavepointsAgree, SavepointsAgreeIn, Apply, One
<1> QED
  BY <1>1, <1>2, <1>3 DEF IInv
-----------------------------------------------------------------------------
\* d differs from db only in the pager, in nStatement, and in counting s.
Running(s, d) ==
    /\ d \in DbType
    /\ d.nVdbeActive = db.nVdbeActive + 1 - One(Busy(vm[s]))
    /\ d.nVdbeWrite = db.nVdbeWrite + One(IsWriter(vm[s].sql))
                                    - One(Busy(vm[s]) /\ IsWriter(vm[s].sql))
    /\ d.nVdbeRead = db.nVdbeRead + One(IsReader(vm[s].sql))
                                  - One(Busy(vm[s]) /\ IsReader(vm[s].sql))

\* From d to e: nothing about savepoints or autoCommit changes.
SameSavepoints(d, e) ==
    /\ e.autoCommit = d.autoCommit
    /\ e.nSavepoint = d.nSavepoint
    /\ e.pSavepoint = d.pSavepoint
    /\ e.isTransactionSavepoint = d.isTransactionSavepoint

\* sqlite3VdbeRewind keeps the program and its parameters.
LEMMA RewindType ==
    ASSUME NEW v \in VmType
    PROVE  /\ Rewind(v) \in VmType
           /\ Rewind(v).sql = v.sql /\ Rewind(v).aVar = v.aVar
           /\ Rewind(v).magic = "run" /\ ~Rewind(v).started
BY DEF Rewind, VmType

\* The entry of sqlite3_step counts the statement unless it was active.
LEMMA EnterStep ==
    ASSUME TypeOK, CountersAgree, NEW s \in Stmts, vm[s].magic # "dead"
    PROVE  LET e == Enter(s)
           IN  /\ Running(s, e.db)
               /\ SameSavepoints(db, e.db)
               /\ e.vm \in VmType /\ e.vm.sql = vm[s].sql
               /\ Busy(e.vm)
<1> DEFINE v == IF vm[s].magic = "halt" THEN Rewind(vm[s]) ELSE vm[s]
           q == vm[s].sql
           a == db.nVdbeActive + 1
           b == db.nVdbeWrite + One(IsWriter(q))
           c == db.nVdbeRead + One(IsReader(q))
           f == [db EXCEPT !.nVdbeActive = a, !.nVdbeWrite = b, !.nVdbeRead = c]
           w == [v EXCEPT !.started = TRUE]
<1>1. vm[s] \in VmType /\ db \in DbType
  BY DEF TypeOK
<1>2. v \in VmType /\ v.sql = q /\ v.magic = "run"
  BY <1>1, RewindType DEF VmType
<1>3. v.started <=> Busy(vm[s])
  BY <1>1, RewindType DEF VmType, Busy
<1>4. Enter(s) = IF v.started THEN [db |-> db, vm |-> v] ELSE [db |-> f, vm |-> w]
  BY <1>2 DEF Enter, One
<1> HIDE DEF v
<1>5. CASE v.started
  BY <1>1, <1>2, <1>3, <1>4, <1>5 DEF Running, SameSavepoints, Busy, One, DbType
<1>6. CASE ~v.started
  <2>1. a \in Nat /\ b \in Nat /\ c \in Nat
    BY <1>1 DEF One, DbType
  <2>2. f \in DbType /\ SameSavepoints(db, f)
    <3> HIDE DEF a, b, c
    <3> QED
      BY <1>1, <2>1 DEF DbType, SameSavepoints
  <2>3. f.nVdbeActive = a /\ f.nVdbeWrite = b /\ f.nVdbeRead = c
    BY <1>1 DEF DbType
  <2>4. Running(s, f)
    <3> HIDE DEF f
    <3>1. One(Busy(vm[s])) = 0 /\ One(Busy(vm[s]) /\ IsWriter(q)) = 0
          /\ One(Busy(vm[s]) /\ IsReader(q)) = 0
      BY <1>3, <1>6 DEF One
    <3>2. /\ db.nVdbeActive \in Nat /\ db.nVdbeWrite \in Nat /\ db.nVdbeRead \in Nat
          /\ One(IsWriter(q)) \in Nat /\ One(IsReader(q)) \in Nat
      BY <1>1 DEF DbType, One
    <3>3. /\ a = db.nVdbeActive + 1 - One(Busy(vm[s]))
          /\ b = db.nVdbeWrite + One(IsWriter(q)) - One(Busy(vm[s]) /\ IsWriter(q))
          /\ c = db.nVdbeRead + One(IsReader(q)) - One(Busy(vm[s]) /\ IsReader(q))
      BY <3>1, <3>2
    <3> HIDE DEF a, b, c
    <3> QED
      BY <2>2, <2>3, <3>3 DEF Running
  <2>5. w \in VmType /\ w.sql = q /\ Busy(w)
    BY <1>2 DEF VmType, Busy
  <2> HIDE DEF f, w
  <2> QED
    BY <1>4, <1>6, <2>2, <2>4, <2>5
<1> QED
  BY <1>5, <1>6

\* In the middle of a step its statement is counted.
LEMMA RunningIsCounted ==
    ASSUME TypeOK, CountersAgree, NEW s \in Stmts, NEW d, Running(s, d)
    PROVE  HasCounted(d, vm[s].sql)
<1>1. db \in DbType
  BY DEF TypeOK
<1>2. CASE Busy(vm[s])
  BY <1>1, <1>2, BusyIsCounted DEF HasCounted, Running, One, DbType
<1>3. CASE ~Busy(vm[s])
  BY <1>1, <1>3, SMTT(20) DEF HasCounted, Running, One, DbType
<1> QED
  BY <1>2, <1>3

\* A step after which s is still active.
LEMMA ActiveKeepsIInv ==
    ASSUME IInv, NEW s \in Stmts, NEW d, Running(s, d), SavepointsAgreeIn(d),
           NEW w \in VmType, w.sql = vm[s].sql, Busy(w), Apply(s, d, w)
    PROVE  IInv'
<1>1. Recounts(d, s, w)
  BY DEF Running, Recounts, One
<1> QED
  BY <1>1, MoveKeepsIInv DEF Running

\* The halt of s in the middle of a step.
LEMMA HaltRunning ==
    ASSUME TypeOK, CountersAgree, NEW s \in Stmts, NEW d, Running(s, d),
           NEW v \in VmType, v.sql = vm[s].sql, Busy(v), NEW full \in BOOLEAN
    PROVE  LET h == Halt(d, v, full)
           IN  /\ h.db \in DbType /\ h.vm \in VmType
               /\ h.vm.sql = vm[s].sql /\ h.vm.magic = "halt"
               /\ SavepointsKept(d, h.db)
               /\ Recounts(h.db, s, h.vm)
<1> DEFINE h == Halt(d, v, full)
<1>1. HasCounted(d, v.sql)
  BY RunningIsCounted
<1>2. /\ h.db \in DbType /\ h.vm \in VmType
      /\ h.vm.sql = v.sql /\ h.vm.magic = "halt"
      /\ SavepointsKept(d, h.db)
      /\ Uncounts(d, h.db, v.sql)
  BY <1>1, HaltStep DEF Running
<1> HIDE DEF h
<1>3. ~Busy(h.vm)
  BY <1>2 DEF Busy
<1>4. /\ db.nVdbeActive \in Nat /\ db.nVdbeWrite \in Nat /\ db.nVdbeRead \in Nat
  BY DEF TypeOK, DbType
<1>5. Recounts(h.db, s, h.vm)
  <2>1. One(Busy(h.vm)) = 0 /\ One(Busy(h.vm) /\ IsWriter(h.vm.sql)) = 0
        /\ One(Busy(h.vm) /\ IsReader(h.vm.sql)) = 0
    BY <1>3 DEF One
  <2>2. /\ One(Busy(vm[s])) \in Nat
        /\ One(IsWriter(vm[s].sql)) \in Nat /\ One(IsReader(vm[s].sql)) \in Nat
        /\ One(Busy(vm[s]) /\ IsWriter(vm[s].sql)) \in Nat
        /\ One(Busy(vm[s]) /\ IsReader(vm[s].sql)) \in Nat
    BY DEF One
  <2> QED
    BY <1>2, <1>4, <2>1, <2>2 DEF Uncounts, Recounts, Running
<1> QED
  BY <1>2, <1>5 DEF h

\* Keeping or dropping all the savepoints keeps their count right.
LEMMA KeptSavepointsAgree ==
    ASSUME NEW d, NEW e, SavepointsKept(d, e), SavepointsAgreeIn(d)
    PROVE  SavepointsAgreeIn(e)
BY EmptySeq DEF SavepointsKept, SavepointsAgreeIn, One

\* A step that ends s.
LEMMA FinishKeepsIInv ==
    ASSUME IInv, NEW s \in Stmts, NEW d, Running(s, d), SavepointsAgreeIn(d),
           NEW v \in VmType, v.sql = vm[s].sql, Busy(v),
           NEW rc \in {"ok", "error", "busy", "constraint", "nomem", "full"},
           Finish(s, d, v, rc)
    PROVE  IInv'
<1> DEFINE w == [v EXCEPT !.rc = rc]
<1>1. w \in VmType /\ w.sql = vm[s].sql /\ Busy(w)
  BY DEF VmType, Busy
<1>2. PICK full \in BOOLEAN :
         LET h == Halt(d, w, full) IN Apply(s, h.db, h.vm)
  BY VdbeAssumption DEF Finish
<1> DEFINE h == Halt(d, w, full)
<1>3. /\ h.db \in DbType /\ h.vm \in VmType
      /\ SavepointsKept(d, h.db) /\ Recounts(h.db, s, h.vm)
  BY <1>1, HaltRunning DEF IInv
<1>4. Apply(s, h.db, h.vm)
  BY <1>2
<1> HIDE DEF h
<1>5. SavepointsAgreeIn(h.db)
  BY <1>3, KeptSavepointsAgree
<1> QED
  BY <1>3, <1>4, <1>5, MoveKeepsIInv

\* A pager operation in the middle of a step.
LEMMA PagerKeepsRunning ==
    ASSUME NEW s \in Stmts, NEW d, NEW e, Running(s, d), PagerStep(d, e),
           SavepointsAgreeIn(d)
    PROVE  Running(s, e) /\ SavepointsAgreeIn(e)
BY DEF Running, PagerStep, SavepointsAgreeIn

\* The state every step starts from.
LEMMA Entered ==
    ASSUME IInv, NEW s \in Stmts, vm[s].magic # "dead"
    PROVE  LET e == Enter(s)
           IN  /\ Running(s, e.db) /\ SavepointsAgreeIn(e.db)
               /\ SameSavepoints(db, e.db)
               /\ e.vm \in VmType /\ e.vm.sql = vm[s].sql /\ Busy(e.vm)
<1> DEFINE e == Enter(s)
<1>1. /\ Running(s, e.db) /\ SameSavepoints(db, e.db)
      /\ e.vm \in VmType /\ e.vm.sql = vm[s].sql /\ Busy(e.vm)
  BY EnterStep DEF IInv
<1> HIDE DEF e
<1>2. SavepointsAgreeIn(e.db)
  BY <1>1 DEF IInv, SavepointsAgree, SavepointsAgreeIn, SameSavepoints, One
<1> QED
  BY <1>1, <1>2 DEF e
-----------------------------------------------------------------------------
\* A write changes the working content only.
LEMMA WorkStep ==
    ASSUME NEW d \in DbType, NEW K \in SUBSET Keys
    PROVE  PagerStep(d, [d EXCEPT !.work = K])
BY DEF PagerStep, DbType

\* The fields of a statement's text, and its parameters.
LEMMA SqlFields ==
    ASSUME NEW v \in VmType
    PROVE  /\ v.sql.rows \in Seq(Keys \cup Params)
           /\ v.sql.name \in Names
           /\ v.sql.onConflict \in {"abort", "fail", "rollback"}
           /\ v.aVar \in [Params -> Keys \cup {Null}]
BY VdbeAssumption DEF VmType, SqlType

\* The row list with its parameters in place: keys and NULLs.
LEMMA RowsType ==
    ASSUME NEW v \in VmType
    PROVE  /\ Len(v.sql.rows) \in Nat
           /\ Rows(v) \in Seq(Keys \cup {Null})
           /\ Len(Rows(v)) = Len(v.sql.rows)
<1> DEFINE r == v.sql.rows
<1>1. r \in Seq(Keys \cup Params) /\ v.aVar \in [Params -> Keys \cup {Null}]
  BY SqlFields
<1>2. Len(r) \in Nat /\ DOMAIN r = 1..Len(r) /\ r \in [1..Len(r) -> Keys \cup Params]
  BY <1>1, LenProperties
<1>3. Rows(v) = [i \in 1..Len(r) |-> IF r[i] \in Params THEN v.aVar[r[i]] ELSE r[i]]
  BY <1>2 DEF Rows
<1> HIDE DEF r
<1>4. \A i \in 1..Len(r) :
         (IF r[i] \in Params THEN v.aVar[r[i]] ELSE r[i]) \in Keys \cup {Null}
  BY <1>1, <1>2
<1>5. Rows(v) \in [1..Len(r) -> Keys \cup {Null}]
  BY <1>3, <1>4
<1>6. Rows(v) \in Seq(Keys \cup {Null}) /\ Len(Rows(v)) = Len(r)
  BY <1>2, <1>5, LenProperties
<1> QED
  BY <1>2, <1>6 DEF r

\* OP_Transaction of a writer, with or without its statement transaction.
LEMMA OpenStatementKeepsRunning ==
    ASSUME NEW s \in Stmts, NEW d, Running(s, d), SavepointsAgreeIn(d),
           NEW v \in VmType, v.sql = vm[s].sql, Busy(v)
    PROVE  LET o == OpenStatement(d, v)
           IN  /\ Running(s, o.db) /\ SavepointsAgreeIn(o.db)
               /\ o.vm \in VmType /\ o.vm.sql = vm[s].sql /\ Busy(o.vm)
<1> DEFINE b == BeginWrite(d)
           n == d.nSavepoint + d.nStatement + 1
           c == [b EXCEPT !.nStatement = @ + 1]
           e == OpenSavepoint(c, n)
           w == [v EXCEPT !.iStatement = n]
<1>1. OpenStatement(d, v) \in {[db |-> e, vm |-> w], [db |-> b, vm |-> v]}
  BY DEF OpenStatement
<1>2. n \in Nat
  BY DEF Running, DbType
<1>3. w \in VmType /\ w.sql = vm[s].sql /\ Busy(w)
  <2> HIDE DEF n
  <2> QED
    BY <1>2 DEF VmType, Busy
<1>4. PagerStep(d, b)
  BY BeginWriteStep DEF Running
<1>5. Running(s, b) /\ SavepointsAgreeIn(b)
  BY <1>4, PagerKeepsRunning
<1> HIDE DEF b, n
<1>6. Running(s, c) /\ SavepointsAgreeIn(c)
  <2>1. b \in DbType /\ b.nStatement + 1 \in Nat
    BY <1>5 DEF Running, DbType
  <2> QED
    BY <1>5, <2>1 DEF Running, SavepointsAgreeIn, DbType
<1> HIDE DEF c
<1>7. Running(s, e) /\ SavepointsAgreeIn(e)
  BY <1>2, <1>6, OpenSavepointStep, PagerKeepsRunning DEF Running
<1> HIDE DEF e, w
<1> QED
  BY <1>1, <1>3, <1>5, <1>7

\* A writer whose rows are written keeps the invariant, with rows to return
\* or without.
LEMMA WrittenKeepsIInv ==
    ASSUME IInv, NEW s \in Stmts, NEW d, Running(s, d), SavepointsAgreeIn(d),
           NEW v \in VmType, v.sql = vm[s].sql, Busy(v), NEW n \in Nat,
           Written(s, d, v, n)
    PROVE  IInv'
<1>1. CASE v.sql.returning /\ n > 0
  <2> DEFINE w == [v EXCEPT !.left = n - 1]
  <2>1. n - 1 \in Nat
    BY <1>1
  <2>2. w \in VmType /\ w.sql = vm[s].sql /\ Busy(w)
    BY <2>1 DEF VmType, Busy
  <2>3. Apply(s, d, w)
    BY <1>1 DEF Written
  <2> QED
    BY <2>2, <2>3, ActiveKeepsIInv
<1>2. CASE ~(v.sql.returning /\ n > 0)
  BY <1>2, FinishKeepsIInv DEF Written
<1> QED
  BY <1>1, <1>2

\* The rows before the first clash are keys: no NULL is ever stored.
LEMMA PrefixIsKeys ==
    ASSUME NEW v \in VmType, NEW content, NEW n \in 0..Len(Rows(v)),
           \A i \in 1..n : ~Clash(content, Rows(v), i)
    PROVE  Prefix(Rows(v), n) \subseteq Keys
BY RowsType DEF Prefix, Clash

\* One step of a SELECT.
LEMMA StepSelectKeepsIInv ==
    ASSUME IInv, NEW s \in Stmts, StepSelect(s)
    PROVE  IInv'
<1> DEFINE e == Enter(s)
           d == IF Starting(s) THEN BeginRead(e.db) ELSE e.db
           ahead == {k \in d.work : k > e.vm.at}
<1>1. /\ Running(s, e.db) /\ SavepointsAgreeIn(e.db)
      /\ e.vm \in VmType /\ e.vm.sql = vm[s].sql /\ Busy(e.vm)
  BY Entered DEF StepSelect, CanStep
<1>2. Running(s, d) /\ SavepointsAgreeIn(d)
  BY <1>1, BeginReadStep, PagerKeepsRunning DEF Running
<1>3. CASE \E k \in ahead : Apply(s, d, [e.vm EXCEPT !.at = k])
  <2>1. PICK k \in ahead : Apply(s, d, [e.vm EXCEPT !.at = k])
    BY <1>3
  <2>2. k \in Keys
    <3> HIDE DEF d
    <3> QED
      BY <1>2 DEF Running, DbType
  <2>3. [e.vm EXCEPT !.at = k] \in VmType /\ [e.vm EXCEPT !.at = k].sql = vm[s].sql
        /\ Busy([e.vm EXCEPT !.at = k])
    <3> HIDE DEF e
    <3> QED
      BY <1>1, <2>2 DEF VmType, Busy
  <2> HIDE DEF d, e
  <2> QED
    BY <1>2, <2>1, <2>3, ActiveKeepsIInv
<1>4. CASE \E rc \in {"ok", "nomem"} : Finish(s, d, e.vm, rc)
  <2> HIDE DEF d, e
  <2> QED
    BY <1>1, <1>2, <1>4, FinishKeepsIInv
<1> QED
  BY <1>3, <1>4 DEF StepSelect

\* One step of a program that reads no table.
LEMMA StepValueKeepsIInv ==
    ASSUME IInv, NEW s \in Stmts, StepValue(s)
    PROVE  IInv'
<1> DEFINE e == Enter(s)
<1>1. /\ Running(s, e.db) /\ SavepointsAgreeIn(e.db)
      /\ e.vm \in VmType /\ e.vm.sql = vm[s].sql /\ Busy(e.vm)
  BY Entered DEF StepValue, CanStep
<1>2. Apply(s, e.db, e.vm) \/ Finish(s, e.db, e.vm, "ok")
  BY DEF StepValue
<1> HIDE DEF e
<1> QED
  BY <1>1, <1>2, ActiveKeepsIInv, FinishKeepsIInv

\* The step in which an INSERT writes, whether it completes or fails.
LEMMA StartInsertKeepsIInv ==
    ASSUME IInv, NEW s \in Stmts, StartInsert(s)
    PROVE  IInv'
<1> DEFINE e == Enter(s)
           o == OpenStatement(e.db, e.vm)
           rows == Rows(o.vm)
           clashes == {i \in 1..Len(rows) : Clash(o.db.work, rows, i)}
           With(n) == [o.db EXCEPT !.work = @ \cup Prefix(rows, n)]
<1>1. /\ Running(s, e.db) /\ SavepointsAgreeIn(e.db)
      /\ e.vm \in VmType /\ e.vm.sql = vm[s].sql /\ Busy(e.vm)
  BY Entered DEF StartInsert, CanStep
<1>2. \/ clashes = {} /\ Written(s, With(Len(rows)), o.vm, Len(rows))
      \/ \E i \in clashes :
            /\ \A j \in clashes : i <= j
            /\ Finish(s, With(i - 1),
                      [o.vm EXCEPT !.errorAction = o.vm.sql.onConflict], "constraint")
      \/ \E n \in 0..Len(rows) :
            /\ \A i \in clashes : n < i
            /\ Finish(s, With(n), o.vm, "nomem")
  BY DEF StartInsert
<1> HIDE DEF e
<1>3. /\ Running(s, o.db) /\ SavepointsAgreeIn(o.db)
      /\ o.vm \in VmType /\ o.vm.sql = vm[s].sql /\ Busy(o.vm)
  BY <1>1, OpenStatementKeepsRunning
<1> HIDE DEF o
<1>4. Len(rows) \in Nat
  BY <1>3, RowsType
<1>5. ASSUME NEW n \in 0..Len(rows), \A i \in clashes : n < i
      PROVE  Running(s, With(n)) /\ SavepointsAgreeIn(With(n))
  <2>1. \A i \in 1..n : ~Clash(o.db.work, rows, i)
    BY <1>4, <1>5
  <2>2. Prefix(rows, n) \subseteq Keys
    BY <1>3, <2>1, PrefixIsKeys
  <2>3. o.db \in DbType /\ o.db.work \cup Prefix(rows, n) \in SUBSET Keys
    BY <1>3, <2>2 DEF Running, DbType
  <2>4. PagerStep(o.db, With(n))
    BY <2>3, WorkStep
  <2> QED
    BY <1>3, <2>4, PagerKeepsRunning
<1> HIDE DEF rows
<1>6. CASE clashes = {} /\ Written(s, With(Len(rows)), o.vm, Len(rows))
  <2>1. Running(s, With(Len(rows))) /\ SavepointsAgreeIn(With(Len(rows)))
    <3>1. Len(rows) \in 0..Len(rows) /\ \A i \in clashes : Len(rows) < i
      BY <1>4, <1>6
    <3> HIDE DEF With, clashes
    <3> QED
      BY <1>5, <3>1
  <2> HIDE DEF With
  <2> QED
    BY <1>3, <1>4, <1>6, <2>1, WrittenKeepsIInv
<1>7. CASE \E i \in clashes :
             /\ \A j \in clashes : i <= j
             /\ Finish(s, With(i - 1),
                       [o.vm EXCEPT !.errorAction = o.vm.sql.onConflict], "constraint")
  <2> DEFINE w == [o.vm EXCEPT !.errorAction = o.vm.sql.onConflict]
  <2>1. PICK i \in clashes : /\ \A j \in clashes : i <= j
                             /\ Finish(s, With(i - 1), w, "constraint")
    BY <1>7
  <2>2. w \in VmType /\ w.sql = vm[s].sql /\ Busy(w)
    BY <1>3, SqlFields DEF VmType, Busy
  <2>3. i - 1 \in 0..Len(rows) /\ \A j \in clashes : i - 1 < j
    BY <1>4, <2>1
  <2>4. Running(s, With(i - 1)) /\ SavepointsAgreeIn(With(i - 1))
    BY <1>5, <2>3
  <2> HIDE DEF With, w
  <2> QED
    BY <2>1, <2>2, <2>4, FinishKeepsIInv
<1>8. CASE \E n \in 0..Len(rows) : /\ \A i \in clashes : n < i
                                  /\ Finish(s, With(n), o.vm, "nomem")
  <2>1. PICK n \in 0..Len(rows) : /\ \A i \in clashes : n < i
                                  /\ Finish(s, With(n), o.vm, "nomem")
    BY <1>8
  <2>2. Running(s, With(n)) /\ SavepointsAgreeIn(With(n))
    BY <1>5, <2>1
  <2> HIDE DEF With
  <2> QED
    BY <1>3, <2>1, <2>2, FinishKeepsIInv
<1> QED
  BY <1>2, <1>6, <1>7, <1>8

\* A statement names finitely many rows.
LEMMA PrefixIsFinite ==
    ASSUME NEW rows, NEW n \in Nat
    PROVE  IsFiniteSet(Prefix(rows, n))
<1> DEFINE f == [i \in 1..n |-> rows[i]]
<1>1. f \in Surjection(1..n, Prefix(rows, n))
  BY DEF Surjection, Prefix
<1>2. IsFiniteSet(1..n)
  BY FS_Interval
<1> QED
  BY <1>1, <1>2, FS_Surjection

\* The step in which a DELETE writes.
LEMMA StartDeleteKeepsIInv ==
    ASSUME IInv, NEW s \in Stmts, StartDelete(s)
    PROVE  IInv'
<1> DEFINE e == Enter(s)
           o == OpenStatement(e.db, e.vm)
           victims == o.db.work \cap Prefix(Rows(o.vm), Len(o.vm.sql.rows))
           Without(K) == [o.db EXCEPT !.work = @ \ K]
<1>1. /\ Running(s, e.db) /\ SavepointsAgreeIn(e.db)
      /\ e.vm \in VmType /\ e.vm.sql = vm[s].sql /\ Busy(e.vm)
  BY Entered DEF StartDelete, CanStep
<1>2. \/ Written(s, Without(victims), o.vm, Cardinality(victims))
      \/ \E K \in SUBSET victims : Finish(s, Without(K), o.vm, "nomem")
  BY DEF StartDelete
<1> HIDE DEF e
<1>3. /\ Running(s, o.db) /\ SavepointsAgreeIn(o.db)
      /\ o.vm \in VmType /\ o.vm.sql = vm[s].sql /\ Busy(o.vm)
  BY <1>1, OpenStatementKeepsRunning
<1> HIDE DEF o
<1>4. Cardinality(victims) \in Nat
  <2>1. IsFiniteSet(Prefix(Rows(o.vm), Len(o.vm.sql.rows)))
    BY <1>3, RowsType, PrefixIsFinite
  <2>2. IsFiniteSet(victims)
    BY <2>1, FS_Subset
  <2> QED
    BY <2>2, FS_CardinalityType
<1>5. ASSUME NEW K
      PROVE  Running(s, Without(K)) /\ SavepointsAgreeIn(Without(K))
  <2>1. o.db \in DbType
    BY <1>3 DEF Running
  <2>2. o.db.work \ K \in SUBSET Keys
    BY <2>1 DEF DbType
  <2>3. PagerStep(o.db, Without(K))
    BY <2>1, <2>2, WorkStep
  <2> QED
    BY <1>3, <2>3, PagerKeepsRunning
<1> HIDE DEF victims, Without
<1> QED
  BY <1>2, <1>3, <1>4, <1>5, WrittenKeepsIInv, FinishKeepsIInv

\* A later step of a writer with a RETURNING clause.
LEMMA StepReturningKeepsIInv ==
    ASSUME IInv, NEW s \in Stmts, StepReturning(s)
    PROVE  IInv'
<1>1. Busy(vm[s]) /\ vm[s] \in VmType /\ db \in DbType
  BY DEF StepReturning, Starting, IInv, TypeOK
<1>2. Running(s, db)
  BY <1>1 DEF Running, One, DbType
<1>3. SavepointsAgreeIn(db)
  BY DEF IInv, SavepointsAgree, SavepointsAgreeIn, One
<1>4. CASE vm[s].left > 0 /\ Apply(s, db, [vm[s] EXCEPT !.left = @ - 1])
  <2> DEFINE w == [vm[s] EXCEPT !.left = @ - 1]
  <2>1. vm[s].left - 1 \in Nat
    BY <1>1, <1>4 DEF VmType
  <2>2. w \in VmType /\ w.sql = vm[s].sql /\ Busy(w)
    BY <1>1, <2>1 DEF VmType, Busy
  <2> QED
    BY <1>2, <1>3, <1>4, <2>2, ActiveKeepsIInv
<1>5. CASE \E rc \in {"ok", "nomem"} : Finish(s, db, vm[s], rc)
  BY <1>1, <1>2, <1>3, <1>5, FinishKeepsIInv
<1> QED
  BY <1>4, <1>5 DEF StepReturning
-----------------------------------------------------------------------------
\* A step that halts s and then drops every savepoint.
LEMMA HaltAndClose ==
    ASSUME IInv, NEW s \in Stmts, NEW d, Running(s, d),
           NEW v \in VmType, v.sql = vm[s].sql, Busy(v), NEW full \in BOOLEAN,
           LET h == Halt(d, v, full) IN Apply(s, CloseSavepoints(h.db), h.vm)
    PROVE  IInv'
<1> DEFINE h == Halt(d, v, full)
           c == CloseSavepoints(h.db)
<1>1. h.db \in DbType /\ h.vm \in VmType /\ Recounts(h.db, s, h.vm)
  BY HaltRunning DEF IInv
<1>2. Apply(s, c, h.vm)
  OBVIOUS
<1> HIDE DEF h
<1>3. c \in DbType /\ Recounts(c, s, h.vm)
  BY <1>1, CloseSavepointsStep DEF Halting, Recounts
<1>4. SavepointsAgreeIn(c)
  BY <1>1, EmptySeq DEF CloseSavepoints, SavepointsAgreeIn, DbType, One
<1> HIDE DEF c
<1> QED
  BY <1>1, <1>2, <1>3, <1>4, MoveKeepsIInv

\* Setting autoCommit in the middle of a step.
LEMMA AutoCommitKeepsRunning ==
    ASSUME NEW s \in Stmts, NEW d, Running(s, d), NEW b \in BOOLEAN
    PROVE  /\ Running(s, [d EXCEPT !.autoCommit = b])
           /\ [d EXCEPT !.autoCommit = b].pSavepoint = d.pSavepoint
           /\ [d EXCEPT !.autoCommit = b].nSavepoint = d.nSavepoint
           /\ [d EXCEPT !.autoCommit = b].isTransactionSavepoint = d.isTransactionSavepoint
           /\ [d EXCEPT !.autoCommit = b].autoCommit = b
BY DEF Running, DbType

\* BEGIN.
LEMMA StepBeginKeepsIInv ==
    ASSUME IInv, NEW s \in Stmts, StepBegin(s)
    PROVE  IInv'
<1> DEFINE e == Enter(s)
           d == [e.db EXCEPT !.autoCommit = FALSE]
           h == Halt(d, e.vm, FALSE)
<1>1. /\ Running(s, e.db) /\ SavepointsAgreeIn(e.db)
      /\ e.vm \in VmType /\ e.vm.sql = vm[s].sql /\ Busy(e.vm)
  BY Entered DEF StepBegin, CanStep
<1>2. Apply(s, CloseSavepoints(h.db), h.vm) \/ Finish(s, e.db, e.vm, "error")
  BY DEF StepBegin
<1> HIDE DEF e
<1>3. Running(s, d)
  BY <1>1, AutoCommitKeepsRunning
<1>4. CASE Apply(s, CloseSavepoints(h.db), h.vm)
  BY <1>1, <1>3, <1>4, HaltAndClose
<1>5. CASE Finish(s, e.db, e.vm, "error")
  BY <1>1, <1>5, FinishKeepsIInv
<1> QED
  BY <1>2, <1>4, <1>5

\* COMMIT, refused, failed or done.
LEMMA StepCommitKeepsIInv ==
    ASSUME IInv, NEW s \in Stmts, StepCommit(s)
    PROVE  IInv'
<1> DEFINE e == Enter(s)
           d == [e.db EXCEPT !.autoCommit = TRUE]
<1>1. /\ Running(s, e.db) /\ SavepointsAgreeIn(e.db)
      /\ e.vm \in VmType /\ e.vm.sql = vm[s].sql /\ Busy(e.vm)
  BY Entered DEF StepCommit, CanStep
<1>2. \/ \E rc \in {"error", "busy"} : Finish(s, e.db, e.vm, rc)
      \/ \E full \in BOOLEAN :
            LET h == Halt(d, e.vm, full) IN Apply(s, CloseSavepoints(h.db), h.vm)
  BY VdbeAssumption DEF StepCommit
<1> HIDE DEF e
<1>3. Running(s, d)
  BY <1>1, AutoCommitKeepsRunning
<1>4. CASE \E full \in BOOLEAN :
             LET h == Halt(d, e.vm, full) IN Apply(s, CloseSavepoints(h.db), h.vm)
  BY <1>1, <1>3, <1>4, HaltAndClose
<1>5. CASE \E rc \in {"error", "busy"} : Finish(s, e.db, e.vm, rc)
  BY <1>1, <1>5, FinishKeepsIInv
<1> QED
  BY <1>2, <1>4, <1>5

\* ROLLBACK.
LEMMA StepRollbackKeepsIInv ==
    ASSUME IInv, NEW s \in Stmts, StepRollback(s)
    PROVE  IInv'
<1> DEFINE e == Enter(s)
           r == RollbackAll(e.db)
           d == [r EXCEPT !.autoCommit = TRUE]
           h == Halt(d, e.vm, FALSE)
<1>1. /\ Running(s, e.db) /\ SavepointsAgreeIn(e.db)
      /\ e.vm \in VmType /\ e.vm.sql = vm[s].sql /\ Busy(e.vm)
  BY Entered DEF StepRollback, CanStep
<1>2. Apply(s, CloseSavepoints(h.db), h.vm) \/ Finish(s, e.db, e.vm, "error")
  BY DEF StepRollback
<1> HIDE DEF e
<1>3. Running(s, r)
  BY <1>1, RollbackAllStep, PagerKeepsRunning DEF Running
<1> HIDE DEF r
<1>4. Running(s, d)
  BY <1>3, AutoCommitKeepsRunning
<1>5. CASE Apply(s, CloseSavepoints(h.db), h.vm)
  BY <1>1, <1>4, <1>5, HaltAndClose
<1>6. CASE Finish(s, e.db, e.vm, "error")
  BY <1>1, <1>6, FinishKeepsIInv
<1> QED
  BY <1>2, <1>5, <1>6

\* SAVEPOINT, as the start of a transaction or inside one.
LEMMA StepSavepointKeepsIInv ==
    ASSUME IInv, NEW s \in Stmts, StepSavepoint(s)
    PROVE  IInv'
<1> DEFINE e == Enter(s)
           p == [e.db EXCEPT !.pSavepoint = Append(@, e.vm.sql.name)]
           t == [p EXCEPT !.autoCommit = FALSE, !.isTransactionSavepoint = TRUE]
           u == [p EXCEPT !.nSavepoint = @ + 1]
<1>1. /\ Running(s, e.db) /\ SavepointsAgreeIn(e.db) /\ SameSavepoints(db, e.db)
      /\ e.vm \in VmType /\ e.vm.sql = vm[s].sql /\ Busy(e.vm)
  BY Entered DEF StepSavepoint, CanStep
<1>2. \/ \E rc \in {"busy", "nomem"} : Finish(s, e.db, e.vm, rc)
      \/ db.autoCommit /\ Finish(s, t, e.vm, "ok")
      \/ ~db.autoCommit /\ Finish(s, u, e.vm, "ok")
  BY DEF StepSavepoint
<1> HIDE DEF e
<1>3. /\ Running(s, p) /\ Len(p.pSavepoint) = Len(e.db.pSavepoint) + 1
      /\ p.nSavepoint = e.db.nSavepoint /\ p.autoCommit = e.db.autoCommit
      /\ p.isTransactionSavepoint = e.db.isTransactionSavepoint
  <2>1. e.db \in DbType /\ e.db.pSavepoint \in Seq(Names) /\ e.vm.sql.name \in Names
    BY <1>1, SqlFields DEF Running, DbType
  <2>2. Append(e.db.pSavepoint, e.vm.sql.name) \in Seq(Names)
        /\ Len(Append(e.db.pSavepoint, e.vm.sql.name)) = Len(e.db.pSavepoint) + 1
    BY <2>1, AppendProperties
  <2> QED
    BY <1>1, <2>1, <2>2 DEF Running, DbType
<1>4. db.autoCommit => Running(s, t) /\ SavepointsAgreeIn(t)
  <2>1. Running(s, t)
    <3> HIDE DEF p
    <3> QED
      BY <1>3 DEF Running, DbType
  <2>2. /\ t.nSavepoint = p.nSavepoint /\ t.pSavepoint = p.pSavepoint
        /\ t.isTransactionSavepoint = TRUE /\ t.autoCommit = FALSE
    <3> HIDE DEF p
    <3> QED
      BY <1>3 DEF Running, DbType
  <2>3. db.autoCommit => Len(e.db.pSavepoint) = 0 /\ e.db.nSavepoint = 0
    BY <1>1, EmptySeq DEF Running, SavepointsAgreeIn, SameSavepoints, One, DbType
  <2> HIDE DEF t, p
  <2> QED
    BY <1>3, <2>1, <2>2, <2>3 DEF SavepointsAgreeIn, One
<1>5. ~db.autoCommit => Running(s, u) /\ SavepointsAgreeIn(u)
  <2>1. p.nSavepoint + 1 \in Nat /\ p \in DbType
    <3> HIDE DEF p
    <3> QED
      BY <1>3 DEF Running, DbType
  <2>2. /\ Running(s, u)
        /\ u.nSavepoint = p.nSavepoint + 1 /\ u.pSavepoint = p.pSavepoint
        /\ u.isTransactionSavepoint = p.isTransactionSavepoint
        /\ u.autoCommit = p.autoCommit
    <3> HIDE DEF p
    <3> QED
      BY <1>3, <2>1 DEF Running, DbType
  <2>3. e.db.nSavepoint \in Nat
    BY <1>1 DEF Running, DbType
  <2> HIDE DEF u, p
  <2> QED
    BY <1>1, <1>3, <2>2, <2>3 DEF SavepointsAgreeIn, SameSavepoints, One
<1> HIDE DEF p, t, u
<1> QED
  BY <1>1, <1>2, <1>4, <1>5, FinishKeepsIInv

\* Dropping the savepoints after position i leaves i of them, counted right.
LEMMA PoppedKeepsRunning ==
    ASSUME NEW s \in Stmts, NEW d, Running(s, d), SavepointsAgreeIn(d),
           NEW i \in DOMAIN d.pSavepoint
    PROVE  LET p == Popped(d, i)
           IN  /\ Running(s, p) /\ SavepointsAgreeIn(p) /\ ~p.autoCommit
               /\ i \in Nat \ {0} /\ Len(p.pSavepoint) = i
               /\ p.nSavepoint = i - One(d.isTransactionSavepoint)
               /\ p.isTransactionSavepoint = d.isTransactionSavepoint
<1> DEFINE a == SubSeq(d.pSavepoint, 1, i)
           n == d.nSavepoint - (Len(d.pSavepoint) - i)
           p == [d EXCEPT !.pSavepoint = a, !.nSavepoint = n]
<1>1. d \in DbType /\ d.pSavepoint \in Seq(Names) /\ d.nSavepoint \in Nat
  BY DEF Running, DbType
<1>2. Len(d.pSavepoint) \in Nat /\ i \in 1..Len(d.pSavepoint)
      /\ \A j \in 1..i : d.pSavepoint[j] \in Names
  BY <1>1, LenProperties, ElementOfSeq
<1>3. a \in Seq(Names) /\ Len(a) = i
  BY <1>2, SubSeqProperties
<1>4. n = i - One(d.isTransactionSavepoint)
  BY <1>1, <1>2 DEF SavepointsAgreeIn, One
<1>5. n \in Nat
  BY <1>2, <1>4 DEF One
<1>6. ~d.autoCommit
  BY <1>2, EmptySeq DEF SavepointsAgreeIn
<1>7. Popped(d, i) = p
  BY DEF Popped
<1> HIDE DEF a, n
<1>8. /\ Running(s, p) /\ p.pSavepoint = a /\ p.nSavepoint = n
      /\ p.autoCommit = d.autoCommit
      /\ p.isTransactionSavepoint = d.isTransactionSavepoint
  BY <1>1, <1>3, <1>5 DEF Running, DbType
<1> HIDE DEF p
<1>9. SavepointsAgreeIn(p)
  BY <1>2, <1>3, <1>4, <1>6, <1>8 DEF SavepointsAgreeIn, One
<1> QED
  BY <1>2, <1>3, <1>4, <1>6, <1>7, <1>8, <1>9

\* The index the code computes is the position, less the transaction
\* savepoint, which the b-tree does not count.
LEMMA BtreeIndexValue ==
    ASSUME IInv, NEW i \in DOMAIN db.pSavepoint
    PROVE  BtreeIndex(i) = i - One(db.isTransactionSavepoint) - 1
<1>1. db.pSavepoint \in Seq(Names) /\ db.nSavepoint \in Nat
  BY DEF IInv, TypeOK, DbType
<1>2. Len(db.pSavepoint) \in Nat /\ i \in 1..Len(db.pSavepoint)
  BY <1>1, LenProperties
<1> QED
  BY <1>1, <1>2 DEF BtreeIndex, IInv, SavepointsAgree, One

\* ROLLBACK TO.
LEMMA StepRollbackToKeepsIInv ==
    ASSUME IInv, NEW s \in Stmts, StepRollbackTo(s)
    PROVE  IInv'
<1> DEFINE e == Enter(s)
<1>1. /\ Running(s, e.db) /\ SavepointsAgreeIn(e.db) /\ SameSavepoints(db, e.db)
      /\ e.vm \in VmType /\ e.vm.sql = vm[s].sql /\ Busy(e.vm)
  BY Entered DEF StepRollbackTo, CanStep
<1>2. \/ \E rc \in {"error", "nomem"} : Finish(s, e.db, e.vm, rc)
      \/ \E i \in DOMAIN db.pSavepoint :
            Finish(s, SavepointRollback(Popped(e.db, i), BtreeIndex(i)), e.vm, "ok")
  BY DEF StepRollbackTo
<1> HIDE DEF e
<1>3. ASSUME NEW i \in DOMAIN db.pSavepoint,
             Finish(s, SavepointRollback(Popped(e.db, i), BtreeIndex(i)), e.vm, "ok")
      PROVE  IInv'
  <2> DEFINE p == Popped(e.db, i)
             r == SavepointRollback(p, BtreeIndex(i))
  <2>1. i \in DOMAIN e.db.pSavepoint
    BY <1>1 DEF SameSavepoints
  <2>2. Running(s, p) /\ SavepointsAgreeIn(p) /\ i \in Nat \ {0}
    BY <1>1, <2>1, PoppedKeepsRunning
  <2>3. BtreeIndex(i) \in Int /\ BtreeIndex(i) >= -1
    BY <2>2, BtreeIndexValue DEF One
  <2> HIDE DEF p
  <2>4. PagerStep(p, r)
    BY <2>2, <2>3, SavepointRollbackStep DEF Running
  <2>5. Running(s, r) /\ SavepointsAgreeIn(r)
    BY <2>2, <2>4, PagerKeepsRunning
  <2>6. Finish(s, r, e.vm, "ok")
    BY <1>3 DEF p
  <2> HIDE DEF r
  <2> QED
    BY <1>1, <2>5, <2>6, FinishKeepsIInv
<1> QED
  BY <1>1, <1>2, <1>3, FinishKeepsIInv

\* RELEASE of a nested savepoint, or of the transaction savepoint, whose
\* commit may fail.
LEMMA StepReleaseKeepsIInv ==
    ASSUME IInv, NEW s \in Stmts, StepRelease(s)
    PROVE  IInv'
<1> DEFINE e == Enter(s)
           Inner(i) == [SavepointRelease(Popped(e.db, i), BtreeIndex(i)) EXCEPT
                           !.pSavepoint = SubSeq(@, 1, i - 1), !.nSavepoint = @ - 1]
           d == [e.db EXCEPT !.autoCommit = TRUE]
<1>1. /\ Running(s, e.db) /\ SavepointsAgreeIn(e.db) /\ SameSavepoints(db, e.db)
      /\ e.vm \in VmType /\ e.vm.sql = vm[s].sql /\ Busy(e.vm)
  BY Entered DEF StepRelease, CanStep
<1>2. \/ \E rc \in {"error", "busy"} : Finish(s, e.db, e.vm, rc)
      \/ \E i \in DOMAIN db.pSavepoint :
            ~(i = 1 /\ db.isTransactionSavepoint) /\ Finish(s, Inner(i), e.vm, "ok")
      \/ \E full \in BOOLEAN :
            LET h == Halt(d, e.vm, full)
            IN  \/ Apply(s, CloseSavepoints(h.db), h.vm)
                \/ Apply(s, [h.db EXCEPT !.autoCommit = FALSE], h.vm)
  BY VdbeAssumption DEF StepRelease
<1> HIDE DEF e
<1>3. CASE \E rc \in {"error", "busy"} : Finish(s, e.db, e.vm, rc)
  BY <1>1, <1>3, FinishKeepsIInv
<1>4. ASSUME NEW i \in DOMAIN db.pSavepoint, ~(i = 1 /\ db.isTransactionSavepoint),
             Finish(s, Inner(i), e.vm, "ok")
      PROVE  IInv'
  <2> DEFINE p == Popped(e.db, i)
             r == SavepointRelease(p, BtreeIndex(i))
             a == SubSeq(r.pSavepoint, 1, i - 1)
             n == r.nSavepoint - 1
             f == [r EXCEPT !.pSavepoint = a, !.nSavepoint = n]
  <2>1. i \in DOMAIN e.db.pSavepoint
        /\ e.db.isTransactionSavepoint = db.isTransactionSavepoint
    BY <1>1 DEF SameSavepoints
  <2>2. /\ Running(s, p) /\ SavepointsAgreeIn(p) /\ ~p.autoCommit
        /\ i \in Nat \ {0} /\ Len(p.pSavepoint) = i
        /\ p.nSavepoint = i - One(db.isTransactionSavepoint)
        /\ p.isTransactionSavepoint = db.isTransactionSavepoint
    BY <1>1, <2>1, PoppedKeepsRunning
  <2>3. BtreeIndex(i) \in Nat
    BY <1>4, <2>2, BtreeIndexValue DEF One
  <2> HIDE DEF p
  <2>4. PagerStep(p, r)
    BY <2>2, <2>3, SavepointReleaseStep DEF Running
  <2>5. Running(s, r)
    BY <2>2, <2>4, PagerKeepsRunning
  <2>6. Finish(s, f, e.vm, "ok")
    BY <1>4 DEF p
  <2> HIDE DEF r
  <2>7. /\ r.pSavepoint \in Seq(Names) /\ Len(r.pSavepoint) = i
        /\ r.nSavepoint = i - One(db.isTransactionSavepoint) /\ ~r.autoCommit
        /\ r.isTransactionSavepoint = db.isTransactionSavepoint
    BY <2>2, <2>4 DEF PagerStep, DbType
  <2>8. n \in Nat /\ n = i - 1 - One(db.isTransactionSavepoint)
    BY <1>4, <2>2, <2>7 DEF One
  <2>9. a \in Seq(Names) /\ Len(a) = i - 1
    <3>1. \A j \in 1..(i - 1) : r.pSavepoint[j] \in Names
      BY <2>2, <2>7, ElementOfSeq
    <3> QED
      BY <2>2, <3>1, SubSeqProperties
  <2> HIDE DEF a, n
  <2>10. /\ Running(s, f) /\ f.pSavepoint = a /\ f.nSavepoint = n
         /\ f.autoCommit = r.autoCommit
         /\ f.isTransactionSavepoint = r.isTransactionSavepoint
    BY <2>5, <2>8, <2>9 DEF Running, DbType
  <2> HIDE DEF f
  <2>11. SavepointsAgreeIn(f)
    BY <2>2, <2>7, <2>8, <2>9, <2>10 DEF SavepointsAgreeIn, One
  <2> QED
    BY <1>1, <2>6, <2>10, <2>11, FinishKeepsIInv
<1>5. ASSUME NEW full \in BOOLEAN,
             LET h == Halt(d, e.vm, full)
             IN  \/ Apply(s, CloseSavepoints(h.db), h.vm)
                 \/ Apply(s, [h.db EXCEPT !.autoCommit = FALSE], h.vm)
      PROVE  IInv'
  <2> DEFINE h == Halt(d, e.vm, full)
             f == [h.db EXCEPT !.autoCommit = FALSE]
  <2>1. /\ Running(s, d) /\ d.pSavepoint = e.db.pSavepoint
        /\ d.nSavepoint = e.db.nSavepoint
        /\ d.isTransactionSavepoint = e.db.isTransactionSavepoint
    BY <1>1, AutoCommitKeepsRunning
  <2>2. CASE Apply(s, CloseSavepoints(h.db), h.vm)
    BY <1>1, <2>1, <2>2, HaltAndClose
  <2>3. CASE Apply(s, f, h.vm)
    <3>1. /\ h.db \in DbType /\ h.vm \in VmType
          /\ SavepointsKept(d, h.db) /\ Recounts(h.db, s, h.vm)
      BY <1>1, <2>1, HaltRunning DEF IInv
    <3> HIDE DEF h, d
    <3>2. /\ f \in DbType /\ Recounts(f, s, h.vm) /\ ~f.autoCommit
          /\ f.pSavepoint = h.db.pSavepoint /\ f.nSavepoint = h.db.nSavepoint
          /\ f.isTransactionSavepoint = h.db.isTransactionSavepoint
      BY <3>1 DEF DbType, Recounts
    <3> HIDE DEF f
    <3>3. SavepointsAgreeIn(f)
      BY <1>1, <2>1, <3>1, <3>2, EmptySeq DEF SavepointsKept, SavepointsAgreeIn, One
    <3> QED
      BY <2>3, <3>1, <3>2, <3>3, MoveKeepsIInv
  <2> QED
    BY <1>5, <2>2, <2>3
<1> HIDE DEF Inner
<1> QED
  BY <1>2, <1>3, <1>4, <1>5
-----------------------------------------------------------------------------
\* sqlite3_reset and sqlite3_finalize halt s, active or not.
LEMMA HaltAny ==
    ASSUME IInv, NEW s \in Stmts, NEW full \in BOOLEAN
    PROVE  LET h == Halt(db, vm[s], full)
           IN  /\ h.db \in DbType /\ h.vm \in VmType /\ SavepointsAgreeIn(h.db)
               /\ \A w \in VmType : ~Busy(w) => Recounts(h.db, s, w)
<1> DEFINE h == Halt(db, vm[s], full)
<1>1. db \in DbType /\ vm[s] \in VmType
  BY DEF IInv, TypeOK
<1>2. SavepointsAgreeIn(db)
  BY DEF IInv, SavepointsAgree, SavepointsAgreeIn, One
<1>3. CASE Busy(vm[s])
  <2>1. Running(s, db)
    BY <1>1, <1>3 DEF Running, One, DbType
  <2>2. /\ h.db \in DbType /\ h.vm \in VmType /\ h.vm.magic = "halt"
        /\ SavepointsKept(db, h.db) /\ Recounts(h.db, s, h.vm)
    BY <1>1, <1>3, <2>1, HaltRunning DEF IInv
  <2> HIDE DEF h
  <2>3. \A w \in VmType : ~Busy(w) => Recounts(h.db, s, w)
    BY <2>2 DEF Recounts, Busy, One
  <2>4. SavepointsAgreeIn(h.db)
    BY <1>2, <2>2, KeptSavepointsAgree
  <2> QED
    BY <2>2, <2>3, <2>4 DEF h
<1>4. CASE ~Busy(vm[s])
  <2>1. h.db = db /\ h.vm \in {vm[s], [vm[s] EXCEPT !.magic = "halt"]}
    BY <1>4 DEF Halt, Busy
  <2>2. h.vm \in VmType
    BY <1>1, <2>1 DEF VmType
  <2> HIDE DEF h
  <2>3. \A w \in VmType : ~Busy(w) => Recounts(db, s, w)
    BY <1>1, <1>4 DEF Recounts, One, DbType
  <2> QED
    BY <1>1, <1>2, <2>1, <2>2, <2>3 DEF h
<1> QED
  BY <1>3, <1>4

\* A finalized statement is well-formed and idle.
LEMMA DeadType == Dead \in VmType /\ ~Busy(Dead)
<1> DEFINE q == CHOOSE q \in Sqls : TRUE
<1>1. q \in Sqls
  BY VdbeAssumption
<1> HIDE DEF q
<1>2. Dead = [Fresh(q) EXCEPT !.magic = "dead"]
  BY DEF Dead, q
<1> QED
  BY <1>1, <1>2 DEF Fresh, Unbound, VmType, Busy

\* A call that halts s and leaves it idle.
LEMMA HaltedKeepsIInv ==
    ASSUME IInv, NEW s \in Stmts, NEW full \in BOOLEAN, NEW w \in VmType, ~Busy(w),
           Apply(s, Halt(db, vm[s], full).db, w)
    PROVE  IInv'
<1> DEFINE d == Halt(db, vm[s], full).db
<1>1. d \in DbType /\ SavepointsAgreeIn(d) /\ Recounts(d, s, w)
  BY HaltAny
<1>2. Apply(s, d, w)
  OBVIOUS
<1> HIDE DEF d
<1> QED
  BY <1>1, <1>2, MoveKeepsIInv

\* sqlite3_reset.
LEMMA ResetKeepsIInv ==
    ASSUME IInv, NEW s \in Stmts, Reset(s)
    PROVE  IInv'
<1>1. PICK full \in BOOLEAN :
         LET h == Halt(db, vm[s], full) IN Apply(s, h.db, Rewind(h.vm))
  BY VdbeAssumption DEF Reset
<1> DEFINE w == Rewind(Halt(db, vm[s], full).vm)
<1>2. w \in VmType /\ ~Busy(w)
  BY HaltAny, RewindType DEF Busy
<1> QED
  BY <1>1, <1>2, HaltedKeepsIInv

\* sqlite3_finalize.
LEMMA FinalizeKeepsIInv ==
    ASSUME IInv, NEW s \in Stmts, Finalize(s)
    PROVE  IInv'
<1>1. PICK full \in BOOLEAN : Apply(s, Halt(db, vm[s], full).db, Dead)
  BY VdbeAssumption DEF Finalize
<1> QED
  BY <1>1, DeadType, HaltedKeepsIInv

\* A call that changes an idle statement, or only its parameters.
LEMMA QuietKeepsIInv ==
    ASSUME IInv, NEW s \in Stmts, NEW w \in VmType, vm' = [vm EXCEPT ![s] = w],
           UNCHANGED db, Busy(w) <=> Busy(vm[s]), Busy(w) => w.sql = vm[s].sql
    PROVE  IInv'
<1>1. db \in DbType
  BY DEF IInv, TypeOK
<1>2. SavepointsAgreeIn(db)
  BY DEF IInv, SavepointsAgree, SavepointsAgreeIn, One
<1>3. Recounts(db, s, w)
  BY <1>1 DEF Recounts, One, DbType
<1>4. Apply(s, db, w)
  BY DEF Apply
<1> QED
  BY <1>1, <1>2, <1>3, <1>4, MoveKeepsIInv

\* sqlite3_prepare_v2.
LEMMA PrepareKeepsIInv ==
    ASSUME IInv, NEW s \in Stmts, NEW q \in Sqls, Prepare(s, q)
    PROVE  IInv'
<1>1. Fresh(q) \in VmType /\ ~Busy(Fresh(q))
  BY DEF Fresh, Unbound, VmType, Busy
<1>2. ~Busy(vm[s]) /\ vm' = [vm EXCEPT ![s] = Fresh(q)] /\ UNCHANGED db
  BY DEF Prepare, Busy
<1> QED
  BY <1>1, <1>2, QuietKeepsIInv

\* sqlite3_bind_*.
LEMMA BindKeepsIInv ==
    ASSUME IInv, NEW s \in Stmts, NEW p \in Params, NEW value \in Keys \cup {Null},
           Bind(s, p, value)
    PROVE  IInv'
<1> DEFINE v == vm[s]
           a == [v.aVar EXCEPT ![p] = value]
           w == [v EXCEPT !.aVar = a]
<1>1. v \in VmType /\ vm' = [vm EXCEPT ![s] = w] /\ UNCHANGED db
  BY DEF Bind, IInv, TypeOK
<1>2. a \in [Params -> Keys \cup {Null}]
  BY <1>1 DEF VmType
<1> HIDE DEF a, v
<1>3. w \in VmType /\ w.sql = v.sql /\ w.magic = v.magic /\ w.started = v.started
  BY <1>1, <1>2 DEF VmType
<1> HIDE DEF w
<1> QED
  BY <1>1, <1>3, QuietKeepsIInv DEF Busy, v

\* sqlite3_clear_bindings.
LEMMA ClearBindingsKeepsIInv ==
    ASSUME IInv, NEW s \in Stmts, ClearBindings(s)
    PROVE  IInv'
<1> DEFINE w == [vm[s] EXCEPT !.aVar = Unbound]
<1>1. vm[s] \in VmType /\ vm' = [vm EXCEPT ![s] = w] /\ UNCHANGED db
  BY DEF ClearBindings, IInv, TypeOK
<1>2. /\ w \in VmType /\ w.sql = vm[s].sql
      /\ w.magic = vm[s].magic /\ w.started = vm[s].started
  BY <1>1 DEF VmType, Unbound
<1> HIDE DEF w
<1> QED
  BY <1>1, <1>2, QuietKeepsIInv DEF Busy
-----------------------------------------------------------------------------
\* A connection that was just opened satisfies the invariant.
LEMMA InitIInv == Init => IInv
<1> SUFFICES ASSUME Init PROVE IInv
  OBVIOUS
<1>1. TypeOK
  BY DeadType, EmptySeq DEF Init, TypeOK, DbType
<1>2. CountersAgree
  <2>1. \A s \in Stmts : ~Busy(vm[s])
    BY DeadType DEF Init
  <2>2. /\ {s \in Stmts : Busy(vm[s])} = {}
        /\ {s \in Stmts : Busy(vm[s]) /\ IsWriter(vm[s].sql)} = {}
        /\ {s \in Stmts : Busy(vm[s]) /\ IsReader(vm[s].sql)} = {}
    BY <2>1
  <2> QED
    BY <2>2, FS_EmptySet DEF CountersAgree, Init
<1>3. SavepointsAgree
  BY EmptySeq DEF SavepointsAgree, Init
<1> QED
  BY <1>1, <1>2, <1>3 DEF IInv

\* Every call keeps it.
LEMMA StepIInv == IInv /\ [Next]_vars => IInv'
<1> SUFFICES ASSUME IInv, [Next]_vars PROVE IInv'
  OBVIOUS
<1>1. CASE UNCHANGED vars
  BY <1>1 DEF IInv, TypeOK, CountersAgree, SavepointsAgree, vars
<1>2. ASSUME NEW s \in Stmts, Step(s)
      PROVE  IInv'
  BY <1>2, StepSelectKeepsIInv, StepValueKeepsIInv, StartInsertKeepsIInv,
     StartDeleteKeepsIInv, StepReturningKeepsIInv, StepBeginKeepsIInv,
     StepCommitKeepsIInv, StepRollbackKeepsIInv, StepSavepointKeepsIInv,
     StepReleaseKeepsIInv, StepRollbackToKeepsIInv DEF Step
<1>3. CASE Next
  BY <1>2, <1>3, PrepareKeepsIInv, BindKeepsIInv, ClearBindingsKeepsIInv,
     ResetKeepsIInv, FinalizeKeepsIInv DEF Next
<1> QED
  BY <1>1, <1>3

\* The inductive invariant holds for any number of statements and any texts.
THEOREM Invariant == Spec => []IInv
<1> QED
  BY InitIInv, StepIInv, PTL DEF Spec

\* The connection and its statements stay well-formed, and no counter of
\* struct sqlite3 ever goes below zero, whatever calls the program makes.
THEOREM TypeCorrect == Spec => []TypeOK
<1>1. IInv => TypeOK
  BY DEF IInv
<1> QED
  BY <1>1, Invariant, PTL

\* checkActiveVdbeCnt never fails: nVdbeActive, nVdbeWrite and nVdbeRead count
\* exactly the statements that are active, however their runs interleave and
\* end, so the commit and rollback decisions taken from them are about the
\* statements there really are.
THEOREM CountersCorrect == Spec => []CountersAgree
<1>1. IInv => CountersAgree
  BY DEF IInv
<1> QED
  BY <1>1, Invariant, PTL

\* checkSavepointCount never fails, and no savepoint is open in autocommit
\* mode: positions in the name list can be turned into b-tree indices by
\* subtraction.
THEOREM SavepointsCorrect == Spec => []SavepointsAgree
<1>1. IInv => SavepointsAgree
  BY DEF IInv
<1> QED
  BY <1>1, Invariant, PTL

-----------------------------------------------------------------------------
(***************************************************************************)
(* The transactions.  The invariant TInv is inductive relative to IInv     *)
(* of the first part: that the counters count the active statements        *)
(* is what makes "the last one out" a decision the code can take.  To the  *)
(* three invariants the runs check it adds StatementsHeld: nStatement      *)
(* counts at most the active statements that hold a statement transaction, *)
(* so that when nVdbeWrite is zero nStatement is zero too.                 *)
(*                                                                         *)
(* A step is followed as in the first part.  Middle says what holds of the *)
(* connection between its parts, EnteredMiddle that Enter establishes it,  *)
(* the lemmas on reading, writing and savepoints that each part keeps it,  *)
(* and HaltEnds that Halt turns it back into the invariant: the            *)
(* transaction either ends (Ended) or was not the halted statement's.      *)
(*                                                                         *)
(* CommitIsWhole is proved from the shape of a step: every step of a       *)
(* program stays active on uncommitted work (Stays) or is a Halt of such a *)
(* state (Ends), and only that Halt can commit, as the last writer.        *)
(***************************************************************************)

\* Texts whose statement reads or writes the table while it is active.
UsesTable(q) == q.kind \in {"select", "insert", "delete"}

\* The three invariants, of the connection in the middle of a step of s.
Pending(d) == d.inTrans # "write" => d.work = d.disk /\ d.aSavepoint = <<>>

Owned(d) ==
    d.autoCommit => /\ d.inTrans = "write" => d.nVdbeWrite > 0
                    /\ d.inTrans = "read" => d.nVdbeRead > 0

OthersHold(s, d) ==
    \A t \in Stmts \ {s} :
        Busy(vm[t]) /\ UsesTable(vm[t].sql) => d.inTrans # "none"

\* A statement with a statement transaction.
Holds(v) == Busy(v) /\ v.iStatement # 0

OtherHolders(s) == {t \in Stmts \ {s} : Holds(vm[t])}

\* No more statement transactions are counted than active statements have,
\* and only writers have one; a program that has not started has none.
StatementsHeld ==
    /\ db.nStatement <= Cardinality({t \in Stmts : Holds(vm[t])})
    /\ \A t \in Stmts : Holds(vm[t]) => IsWriter(vm[t].sql)
    /\ \A t \in Stmts : vm[t].magic = "run" /\ ~vm[t].started => vm[t].iStatement = 0

TInv ==
    /\ PendingOnlyInTransaction
    /\ TransactionIsOwned
    /\ ReadersHoldTransaction
    /\ StatementsHeld

\* In the middle of a step of s, with the connection d and the program v.
Middle(s, d, v) ==
    /\ Running(s, d)
    /\ v \in VmType /\ v.sql = vm[s].sql /\ Busy(v)
    /\ Pending(d)
    /\ OthersHold(s, d)
    /\ d.nStatement <= Cardinality(OtherHolders(s)) + One(v.iStatement # 0)
    /\ v.iStatement # 0 => IsWriter(v.sql)
-----------------------------------------------------------------------------
\* In the middle of a step the counters leave to the other statements at
\* least as many readers as writers, and none when s is the only reader.
LEMMA OthersCounted ==
    ASSUME TypeOK, CountersAgree, NEW s \in Stmts, NEW d, Running(s, d)
    PROVE  LET q == vm[s].sql
           IN  /\ d.nVdbeWrite - One(IsWriter(q)) <= d.nVdbeRead - One(IsReader(q))
               /\ d.nVdbeRead <= One(IsReader(q))
                     => \A t \in Stmts \ {s} : Busy(vm[t]) => ~IsReader(vm[t].sql)
<1> DEFINE q == vm[s].sql
           W == {t \in Stmts : Busy(vm[t]) /\ IsWriter(vm[t].sql)}
           R == {t \in Stmts : Busy(vm[t]) /\ IsReader(vm[t].sql)}
<1>1. W \subseteq Stmts /\ R \subseteq Stmts /\ W \ {s} \subseteq R \ {s}
  BY DEF IsWriter, IsReader
<1>2. IsFiniteSet(W) /\ IsFiniteSet(R) /\ IsFiniteSet(W \ {s}) /\ IsFiniteSet(R \ {s})
  BY <1>1, VdbeAssumption, FS_Subset
<1>3. /\ s \in W <=> Busy(vm[s]) /\ IsWriter(q)
      /\ s \in R <=> Busy(vm[s]) /\ IsReader(q)
  OBVIOUS
<1>4. db.nVdbeWrite = Cardinality(W) /\ db.nVdbeRead = Cardinality(R)
  BY DEF CountersAgree
<1>5. \A t \in Stmts \ {s} : Busy(vm[t]) /\ IsReader(vm[t].sql) => t \in R \ {s}
  OBVIOUS
<1> HIDE DEF W, R
<1>6. /\ Cardinality(W \ {s}) = Cardinality(W) - One(s \in W)
      /\ Cardinality(R \ {s}) = Cardinality(R) - One(s \in R)
      /\ Cardinality(W) \in Nat /\ Cardinality(R) \in Nat
  BY <1>2, FS_RemoveElement, FS_CardinalityType DEF One
<1>7. Cardinality(W \ {s}) <= Cardinality(R \ {s})
  BY <1>1, <1>2, FS_Subset
<1>8. /\ d.nVdbeWrite - One(IsWriter(q)) = Cardinality(W \ {s})
      /\ d.nVdbeRead - One(IsReader(q)) = Cardinality(R \ {s})
  BY <1>3, <1>4, <1>6 DEF Running, One
<1>9. d.nVdbeRead \in Nat /\ d.nVdbeWrite \in Nat
  BY DEF Running, DbType
<1>10. d.nVdbeRead <= One(IsReader(q)) => R \ {s} = {}
  <2> SUFFICES ASSUME d.nVdbeRead <= One(IsReader(q)) PROVE R \ {s} = {}
    OBVIOUS
  <2>1. Cardinality(R \ {s}) \in Nat
    BY <1>2, FS_CardinalityType
  <2>2. Cardinality(R \ {s}) = 0
    BY <1>8, <1>9, <2>1 DEF One
  <2> QED
    BY <1>2, <2>2, FS_EmptySet
<1> QED
  BY <1>5, <1>7, <1>8, <1>10

\* From d to e: the transaction ends, or becomes a read transaction that other
\* statements keep.
Ended(d, e) ==
    /\ e.inTrans = IF d.inTrans # "none" /\ d.nVdbeRead > 1 THEN "read" ELSE "none"
    /\ Pending(e)

\* A commit or rollback of the b-tree ends the transaction.
LEMMA BtreeEnds ==
    ASSUME NEW d \in DbType, Pending(d)
    PROVE  /\ Ended(d, BtreeCommit(d)) /\ BtreeCommit(d).autoCommit = d.autoCommit
           /\ Ended(d, RollbackAll(d)) /\ RollbackAll(d).autoCommit = d.autoCommit
           /\ RollbackAll(d).nStatement = d.nStatement
<1>1. CASE d.inTrans = "write"
  BY <1>1 DEF DbType, Ended, BtreeCommit, RollbackAll, EndTransaction, Pending
<1>2. CASE d.inTrans # "write"
  BY <1>2 DEF DbType, Ended, BtreeCommit, RollbackAll, EndTransaction, Pending
<1> QED
  BY <1>1, <1>2

\* So does giving it up.
LEMMA AbandonEnds ==
    ASSUME NEW d \in DbType, Pending(d)
    PROVE  /\ Ended(d, AbandonTransaction(d))
           /\ AbandonTransaction(d).autoCommit
           /\ AbandonTransaction(d).nStatement = 0
<1> DEFINE r == RollbackAll(d)
<1>1. Ended(d, r) /\ r \in DbType
  BY BtreeEnds, RollbackAllStep DEF PagerStep
<1>2. AbandonTransaction(d) = [CloseSavepoints(r) EXCEPT !.autoCommit = TRUE]
  BY DEF AbandonTransaction
<1> HIDE DEF r
<1> QED
  BY <1>1, <1>2 DEF CloseSavepoints, DbType, Ended, Pending

\* Ending twice is ending once.
LEMMA EndedTwice ==
    ASSUME NEW d \in DbType, NEW e \in DbType, NEW f, Ended(d, e), Ended(e, f),
           e.nVdbeRead = d.nVdbeRead
    PROVE  Ended(d, f)
BY DEF Ended

\* Rolling back to or releasing a savepoint does not end the transaction.
LEMMA SavepointKeepsTransaction ==
    ASSUME NEW d \in DbType, Pending(d), NEW i \in Int
    PROVE  /\ SavepointRollback(d, i).inTrans = d.inTrans
           /\ Pending(SavepointRollback(d, i))
           /\ SavepointRelease(d, i).inTrans = d.inTrans
           /\ Pending(SavepointRelease(d, i))
BY DEF SavepointRollback, SavepointRelease, DbType, Pending

\* Closing a statement transaction keeps the transaction, and uncounts it if
\* it was counted.
LEMMA CloseStatementKeeps ==
    ASSUME NEW d \in DbType, NEW v \in VmType, NEW undo \in BOOLEAN, Pending(d)
    PROVE  LET h == CloseStatement(d, v, undo)
           IN  /\ h.db.inTrans = d.inTrans /\ h.db.autoCommit = d.autoCommit
               /\ Pending(h.db)
               /\ h.db.nStatement = IF d.nStatement > 0 /\ v.iStatement # 0
                                    THEN d.nStatement - 1 ELSE d.nStatement
<1> DEFINE i == v.iStatement - 1
           e == IF undo THEN SavepointRollback(d, i) ELSE d
           f == SavepointRelease(e, i)
<1>1. CASE d.nStatement > 0 /\ v.iStatement # 0
  <2>1. i \in Nat /\ i \in Int /\ i >= -1
    BY <1>1 DEF VmType
  <2>2. e \in DbType /\ e.inTrans = d.inTrans /\ Pending(e)
        /\ e.nStatement = d.nStatement /\ e.autoCommit = d.autoCommit
    BY <2>1, SavepointRollbackStep, SavepointKeepsTransaction DEF PagerStep
  <2> HIDE DEF e, i
  <2>3. f \in DbType /\ f.inTrans = d.inTrans /\ Pending(f)
        /\ f.nStatement = d.nStatement /\ f.autoCommit = d.autoCommit
    BY <2>1, <2>2, SavepointReleaseStep, SavepointKeepsTransaction DEF PagerStep
  <2>4. CloseStatement(d, v, undo).db = [f EXCEPT !.nStatement = @ - 1]
    BY <1>1 DEF CloseStatement, e, i
  <2> HIDE DEF f
  <2> QED
    BY <1>1, <2>3, <2>4 DEF DbType, Pending
<1>2. CASE ~(d.nStatement > 0 /\ v.iStatement # 0)
  BY <1>2 DEF CloseStatement
<1> QED
  BY <1>1, <1>2

\* The end of a statement ends the transaction or keeps it; outside BEGIN it
\* is kept only if the statement was not the only writer.
LEMMA EndOfStatementEnds ==
    ASSUME NEW d \in DbType, NEW v \in VmType, NEW full \in BOOLEAN, Pending(d)
    PROVE  LET h == EndOfStatement(d, v, full)
           IN  /\ Pending(h.db)
               /\ \/ Ended(d, h.db)
                  \/ /\ h.db.inTrans = d.inTrans
                     /\ h.db.autoCommit = d.autoCommit
                     /\ d.autoCommit => d.nVdbeWrite # One(IsWriter(v.sql))
               /\ \/ h.db.nStatement = 0
                  \/ h.db.nStatement = d.nStatement - One(v.iStatement # 0)
<1> DEFINE special  == v.rc = "nomem"
           stmtUndo == special /\ UsesStmtJournal(v.sql)
           d1       == IF special /\ ~stmtUndo THEN AbandonTransaction(d) ELSE d
           keep     == v.rc = "ok" \/ (v.errorAction = "fail" /\ ~special)
           hc       == [db |-> [BtreeCommit(d1) EXCEPT !.nStatement = 0], vm |-> v]
           hr       == [db |-> [RollbackAll(d1) EXCEPT !.nStatement = 0],
                        vm |-> IF keep THEN [v EXCEPT !.rc = "full"] ELSE v]
           ha       == [db |-> AbandonTransaction(d1), vm |-> v]
           h        == EndOfStatement(d, v, full)
           Closed   == CloseStatement(d1, v, FALSE).db = h.db
                          \/ CloseStatement(d1, v, TRUE).db = h.db
           Kept(e)  == /\ e.inTrans = d.inTrans /\ e.autoCommit = d.autoCommit
                       /\ d.autoCommit => d.nVdbeWrite # One(IsWriter(v.sql))
           Uncounted(e) == \/ e.nStatement = 0
                           \/ e.nStatement = d.nStatement - One(v.iStatement # 0)
<1>1. \/ d1 = d
      \/ Ended(d, d1) /\ d1.nStatement = 0
  BY AbandonEnds
<1>2. d1 \in DbType /\ d1.nVdbeRead = d.nVdbeRead /\ Pending(d1)
  BY <1>1, AbandonTransactionStep DEF Halting, Ended
<1>3. \/ h = hc \/ h = hr \/ h = ha
      \/ Closed /\ ~OnlyWriter(d1, v)
  BY DEF EndOfStatement
<1> HIDE DEF d1, h
<1>4. ASSUME NEW e, Ended(d1, e)
      PROVE  Ended(d, e)
  <2>1. CASE d1 = d
    BY <1>4, <2>1
  <2>2. CASE Ended(d, d1)
    BY <1>2, <1>4, <2>2, EndedTwice
  <2> QED
    BY <1>1, <2>1, <2>2
<1>5. CASE h = hc
  <2> DEFINE c == BtreeCommit(d1)
  <2>1. Ended(d, c) /\ c \in DbType
    BY <1>2, <1>4, BtreeEnds, BtreeCommitStep DEF PagerStep
  <2>2. h.db = [c EXCEPT !.nStatement = 0]
    BY <1>5
  <2> HIDE DEF c
  <2> QED
    BY <2>1, <2>2 DEF Ended, Pending, DbType, h
<1>6. CASE h = hr
  <2> DEFINE c == RollbackAll(d1)
  <2>1. Ended(d, c) /\ c \in DbType
    BY <1>2, <1>4, BtreeEnds, RollbackAllStep DEF PagerStep
  <2>2. h.db = [c EXCEPT !.nStatement = 0]
    BY <1>6
  <2> HIDE DEF c
  <2> QED
    BY <2>1, <2>2 DEF Ended, Pending, DbType, h
<1>7. CASE h = ha
  BY <1>2, <1>4, <1>7, AbandonEnds DEF Ended, h
<1>8. CASE Closed /\ ~OnlyWriter(d1, v)
  <2>1. /\ h.db.inTrans = d1.inTrans /\ h.db.autoCommit = d1.autoCommit
        /\ Pending(h.db)
        /\ h.db.nStatement = IF d1.nStatement > 0 /\ v.iStatement # 0
                             THEN d1.nStatement - 1 ELSE d1.nStatement
    <3>1. PICK undo \in BOOLEAN : CloseStatement(d1, v, undo).db = h.db
      BY <1>8
    <3> HIDE DEF Closed
    <3> QED
      BY <1>2, <3>1, CloseStatementKeeps
  <2>2. CASE d1 = d
    <3>1. d.nStatement \in Nat /\ v.iStatement \in Nat
      BY DEF DbType, VmType
    <3>2. Uncounted(h.db)
      BY <2>1, <2>2, <3>1 DEF One
    <3>3. Kept(h.db)
      BY <1>8, <2>1, <2>2 DEF OnlyWriter, One
    <3> QED
      BY <2>1, <3>2, <3>3 DEF h
  <2>3. CASE Ended(d, d1) /\ d1.nStatement = 0
    BY <2>1, <2>3 DEF Ended, h
  <2> QED
    BY <1>1, <2>2, <2>3
<1> QED
  BY <1>3, <1>5, <1>6, <1>7, <1>8
-----------------------------------------------------------------------------
\* Two counts of the same statements are equal.
LEMMA RunningSame ==
    ASSUME NEW s \in Stmts, NEW d, NEW e, Running(s, d), Running(s, e)
    PROVE  e.nVdbeWrite = d.nVdbeWrite /\ e.nVdbeRead = d.nVdbeRead
BY DEF Running

\* The end of the transaction leaves it to the other statements that use it.
LEMMA EndedKeepsOthers ==
    ASSUME TypeOK, CountersAgree, NEW s \in Stmts, NEW d, Running(s, d),
           IsReader(vm[s].sql), OthersHold(s, d), NEW e, Ended(d, e)
    PROVE  OthersHold(s, e)
<1>1. CASE d.inTrans # "none" /\ d.nVdbeRead > 1
  BY <1>1 DEF Ended, OthersHold
<1>2. CASE d.inTrans # "none" /\ ~(d.nVdbeRead > 1)
  <2>1. d.nVdbeRead <= One(IsReader(vm[s].sql))
    BY <1>2 DEF Running, DbType, One
  <2>2. \A t \in Stmts \ {s} : Busy(vm[t]) => ~IsReader(vm[t].sql)
    BY <2>1, OthersCounted
  <2> QED
    BY <2>2 DEF OthersHold, UsesTable, IsReader
<1>3. CASE d.inTrans = "none"
  BY <1>3 DEF OthersHold, Ended
<1> QED
  BY <1>1, <1>2, <1>3

\* Halting s in the middle of a step, when the transaction is owned or s is
\* about to end it.
LEMMA HaltEnds ==
    ASSUME TypeOK, CountersAgree, NEW s \in Stmts, NEW d, NEW v, Middle(s, d, v),
           NEW full \in BOOLEAN,
           Owned(d) \/ (IsReader(v.sql) /\ d.nVdbeWrite = One(IsWriter(v.sql)))
    PROVE  LET h == Halt(d, v, full)
           IN  /\ h.db \in DbType /\ h.vm \in VmType /\ h.vm.magic = "halt"
               /\ Pending(h.db) /\ OthersHold(s, h.db) /\ Owned(h.db)
               /\ h.db.nStatement <= Cardinality(OtherHolders(s))
<1> DEFINE q == vm[s].sql
           h == Halt(d, v, full)
           g == IF IsReader(v.sql) THEN EndOfStatement(d, v, full)
                                   ELSE [db |-> d, vm |-> v]
           N == Cardinality(OtherHolders(s))
<1>1. /\ Running(s, d) /\ d \in DbType /\ v \in VmType /\ v.sql = q /\ Busy(v)
      /\ Pending(d) /\ OthersHold(s, d)
      /\ d.nStatement <= N + One(v.iStatement # 0)
      /\ v.iStatement # 0 => IsWriter(q)
  BY DEF Middle, Running
<1>2. N \in Nat
  <2>1. OtherHolders(s) \subseteq Stmts
    BY DEF OtherHolders
  <2> QED
    BY <2>1, VdbeAssumption, FS_Subset, FS_CardinalityType
<1>3. h.db \in DbType /\ h.vm \in VmType /\ h.vm.magic = "halt"
  BY <1>1, HaltRunning
<1>4. /\ g.db \in DbType
      /\ g.db.nVdbeWrite = d.nVdbeWrite /\ g.db.nVdbeRead = d.nVdbeRead
      /\ Pending(g.db)
      /\ \/ IsReader(q) /\ Ended(d, g.db)
         \/ /\ g.db.inTrans = d.inTrans /\ g.db.autoCommit = d.autoCommit
            /\ IsReader(q) => (d.autoCommit => d.nVdbeWrite # One(IsWriter(q)))
      /\ g.db.nStatement = 0 \/ g.db.nStatement = d.nStatement - One(v.iStatement # 0)
  <2>1. CASE IsReader(q)
    BY <1>1, <2>1, EndOfStatementEnds, EndOfStatementStep DEF Halting
  <2>2. CASE ~IsReader(q)
    <3>1. v.iStatement = 0
      BY <1>1, <2>2 DEF IsReader, IsWriter
    <3> QED
      BY <1>1, <2>2, <3>1 DEF One, DbType
  <2> QED
    BY <2>1, <2>2
<1>5. h.db = [g.db EXCEPT !.nVdbeActive = @ - 1,
                          !.nVdbeWrite = @ - (IF IsWriter(v.sql) THEN 1 ELSE 0),
                          !.nVdbeRead = @ - (IF IsReader(v.sql) THEN 1 ELSE 0)]
  BY <1>1 DEF Halt, Busy
<1> HIDE DEF g, h
<1>6. /\ h.db.inTrans = g.db.inTrans /\ h.db.autoCommit = g.db.autoCommit
      /\ h.db.work = g.db.work /\ h.db.disk = g.db.disk
      /\ h.db.aSavepoint = g.db.aSavepoint /\ h.db.nStatement = g.db.nStatement
      /\ h.db.nVdbeWrite = d.nVdbeWrite - One(IsWriter(q))
      /\ h.db.nVdbeRead = d.nVdbeRead - One(IsReader(q))
  BY <1>1, <1>4, <1>5 DEF DbType, One
<1>7. Pending(h.db)
  BY <1>4, <1>6 DEF Pending
<1>8. h.db.nStatement <= N
  <2>1. One(v.iStatement # 0) \in {0, 1} /\ d.nStatement \in Nat
    BY <1>1 DEF One, DbType
  <2> HIDE DEF N
  <2> QED
    BY <1>1, <1>2, <1>4, <1>6, <2>1
<1>9. OthersHold(s, h.db)
  <2>1. OthersHold(s, g.db)
    BY <1>1, <1>4, EndedKeepsOthers DEF OthersHold
  <2> QED
    BY <1>6, <2>1 DEF OthersHold
<1>10. Owned(h.db)
  <2>1. h.db.nVdbeWrite \in Nat /\ h.db.nVdbeRead \in Nat
        /\ h.db.nVdbeWrite <= h.db.nVdbeRead
    BY <1>1, <1>3, <1>6, OthersCounted DEF DbType
  <2>2. CASE IsReader(q) /\ Ended(d, g.db)
    BY <1>1, <1>6, <2>1, <2>2 DEF Owned, Ended, One, DbType
  <2>3. CASE /\ g.db.inTrans = d.inTrans /\ g.db.autoCommit = d.autoCommit
             /\ IsReader(q) => (d.autoCommit => d.nVdbeWrite # One(IsWriter(q)))
    <3>1. CASE IsReader(q) /\ d.autoCommit
      BY <1>1, <1>6, <2>1, <2>3, <3>1 DEF Owned, One, DbType
    <3>2. CASE ~d.autoCommit
      BY <1>6, <2>3, <3>2 DEF Owned
    <3>3. CASE ~IsReader(q)
      <4>1. ~IsWriter(q) /\ Owned(d)
        BY <1>1, <3>3 DEF IsReader, IsWriter
      <4>2. h.db.nVdbeWrite = d.nVdbeWrite /\ h.db.nVdbeRead = d.nVdbeRead
        BY <1>1, <1>6, <3>3, <4>1 DEF One, DbType
      <4> QED
        BY <1>6, <2>3, <4>1, <4>2 DEF Owned
    <3> QED
      BY <3>1, <3>2, <3>3
  <2> QED
    BY <1>4, <2>2, <2>3
<1> QED
  BY <1>3, <1>7, <1>8, <1>9, <1>10 DEF h
-----------------------------------------------------------------------------
\* A step of s keeps the invariant when it leaves the connection d and the
\* program w like this.
LEMMA MoveKeepsTInv ==
    ASSUME IInv, TInv, NEW s \in Stmts, NEW d, NEW w, Apply(s, d, w),
           Pending(d), OthersHold(s, d), Owned(d),
           Busy(w) /\ UsesTable(w.sql) => d.inTrans # "none",
           d.nStatement <= Cardinality(OtherHolders(s)) + One(Holds(w)),
           Holds(w) => IsWriter(w.sql),
           w.magic = "run" /\ ~w.started => w.iStatement = 0
    PROVE  TInv'
<1>1. db' = d /\ vm'[s] = w /\ \A t \in Stmts \ {s} : vm'[t] = vm[t]
  BY DEF Apply, IInv, TypeOK
<1>2. PendingOnlyInTransaction'
  BY <1>1 DEF PendingOnlyInTransaction, Pending
<1>3. TransactionIsOwned'
  BY <1>1 DEF TransactionIsOwned, Owned
<1>4. ReadersHoldTransaction'
  <2>1. \A t \in Stmts : Busy(vm'[t]) /\ UsesTable(vm'[t].sql) => d.inTrans # "none"
    BY <1>1 DEF OthersHold
  <2> QED
    BY <1>1, <2>1 DEF ReadersHoldTransaction, UsesTable
<1>5. db'.nStatement <= Cardinality({t \in Stmts : Holds(vm'[t])})
  <2> DEFINE H == {t \in Stmts : Holds(vm'[t])}
  <2>1. H \subseteq Stmts /\ (s \in H <=> Holds(w)) /\ H \ {s} = OtherHolders(s)
    BY <1>1 DEF OtherHolders
  <2> HIDE DEF H
  <2>2. IsFiniteSet(H)
    BY <2>1, VdbeAssumption, FS_Subset
  <2>3. Cardinality(H \ {s}) = Cardinality(H) - One(Holds(w)) /\ Cardinality(H) \in Nat
    BY <2>1, <2>2, FS_RemoveElement, FS_CardinalityType DEF One
  <2>4. d.nStatement <= Cardinality(H)
    BY <2>1, <2>3 DEF One
  <2> QED
    BY <1>1, <2>4 DEF H
<1>6. \A t \in Stmts : /\ Holds(vm'[t]) => IsWriter(vm'[t].sql)
                       /\ vm'[t].magic = "run" /\ ~vm'[t].started => vm'[t].iStatement = 0
  BY <1>1 DEF TInv, StatementsHeld
<1>7. StatementsHeld'
  <2>1. {t \in Stmts : Holds(vm'[t])} = {t \in Stmts : Holds(vm[t])'}
    BY DEF Holds, Busy
  <2> QED
    BY <1>5, <1>6, <2>1 DEF StatementsHeld, Holds, Busy
<1> QED
  BY <1>2, <1>3, <1>4, <1>7 DEF TInv

\* After a halt s is idle.
LEMMA IdleKeepsTInv ==
    ASSUME IInv, TInv, NEW s \in Stmts, NEW d, NEW w, Apply(s, d, w),
           d \in DbType, Pending(d), OthersHold(s, d), Owned(d),
           d.nStatement <= Cardinality(OtherHolders(s)),
           ~Busy(w), w.magic = "run" => w.iStatement = 0
    PROVE  TInv'
<1>1. One(Holds(w)) = 0 /\ ~Holds(w)
  BY DEF Holds, One
<1>2. OtherHolders(s) \subseteq Stmts
  BY DEF OtherHolders
<1>3. Cardinality(OtherHolders(s)) \in Nat
  BY <1>2, VdbeAssumption, FS_Subset, FS_CardinalityType
<1>4. d.nStatement <= Cardinality(OtherHolders(s)) + One(Holds(w))
  BY <1>1, <1>3
<1> QED
  BY <1>1, <1>4, MoveKeepsTInv

\* A step after which s is still active.
LEMMA ActiveKeepsTInv ==
    ASSUME IInv, TInv, NEW s \in Stmts, NEW d, NEW w, Middle(s, d, w), Owned(d),
           UsesTable(w.sql) => d.inTrans # "none", Apply(s, d, w)
    PROVE  TInv'
<1>1. Holds(w) <=> w.iStatement # 0
  BY DEF Middle, Holds
<1>2. One(Holds(w)) = One(w.iStatement # 0)
  BY <1>1 DEF One
<1>3. d.nStatement <= Cardinality(OtherHolders(s)) + One(Holds(w))
  BY <1>2 DEF Middle
<1>4. /\ Pending(d) /\ OthersHold(s, d) /\ w.started
      /\ Holds(w) => IsWriter(w.sql)
  BY <1>1 DEF Middle, Busy
<1> QED
  BY <1>3, <1>4, MoveKeepsTInv

\* A step that ends s.
LEMMA FinishKeepsTInv ==
    ASSUME IInv, TInv, NEW s \in Stmts, NEW d, NEW v, Middle(s, d, v), Owned(d),
           NEW rc \in {"ok", "error", "busy", "constraint", "nomem", "full"},
           Finish(s, d, v, rc)
    PROVE  TInv'
<1> DEFINE w == [v EXCEPT !.rc = rc]
<1>1. Middle(s, d, w)
  BY DEF Middle, VmType, Busy
<1>2. PICK full \in BOOLEAN :
         LET h == Halt(d, w, full) IN Apply(s, h.db, h.vm)
  BY VdbeAssumption DEF Finish
<1> DEFINE h == Halt(d, w, full)
<1>3. /\ h.db \in DbType /\ h.vm \in VmType /\ h.vm.magic = "halt"
      /\ Pending(h.db) /\ OthersHold(s, h.db) /\ Owned(h.db)
      /\ h.db.nStatement <= Cardinality(OtherHolders(s))
  BY <1>1, HaltEnds DEF IInv
<1>4. Apply(s, h.db, h.vm)
  BY <1>2
<1> HIDE DEF h
<1> QED
  BY <1>3, <1>4, IdleKeepsTInv DEF Busy

\* A step that halts s and then drops every savepoint.
LEMMA HaltAndCloseKeepsTInv ==
    ASSUME IInv, TInv, NEW s \in Stmts, NEW d, NEW v, Middle(s, d, v),
           NEW full \in BOOLEAN,
           Owned(d) \/ (IsReader(v.sql) /\ d.nVdbeWrite = One(IsWriter(v.sql))),
           LET h == Halt(d, v, full) IN Apply(s, CloseSavepoints(h.db), h.vm)
    PROVE  TInv'
<1> DEFINE h == Halt(d, v, full)
           c == CloseSavepoints(h.db)
<1>1. /\ h.db \in DbType /\ h.vm \in VmType /\ h.vm.magic = "halt"
      /\ Pending(h.db) /\ OthersHold(s, h.db) /\ Owned(h.db)
      /\ h.db.nStatement <= Cardinality(OtherHolders(s))
  BY HaltEnds DEF IInv
<1>2. Apply(s, c, h.vm)
  OBVIOUS
<1> HIDE DEF h
<1>3. /\ c \in DbType /\ Pending(c) /\ OthersHold(s, c) /\ Owned(c)
      /\ c.nStatement = 0
  BY <1>1, CloseSavepointsStep
     DEF Halting, CloseSavepoints, DbType, Pending, OthersHold, Owned
<1>4. Cardinality(OtherHolders(s)) >= 0
  <2>1. OtherHolders(s) \subseteq Stmts
    BY DEF OtherHolders
  <2> QED
    BY <2>1, VdbeAssumption, FS_Subset, FS_CardinalityType
<1> HIDE DEF c
<1> QED
  BY <1>1, <1>2, <1>3, <1>4, IdleKeepsTInv DEF Busy
-----------------------------------------------------------------------------
\* From d to e: nothing about the transaction changes.
Aside(d, e) ==
    /\ e.inTrans = d.inTrans
    /\ e.work = d.work
    /\ e.disk = d.disk
    /\ e.aSavepoint = d.aSavepoint
    /\ e.nStatement = d.nStatement

\* Such a change in the middle of a step.
LEMMA AsideKeepsMiddle ==
    ASSUME NEW s \in Stmts, NEW d, NEW e, NEW v, Middle(s, d, v), Running(s, e),
           Aside(d, e)
    PROVE  /\ Middle(s, e, v)
           /\ e.autoCommit = d.autoCommit /\ Owned(d) => Owned(e)
<1>1. e.nVdbeWrite = d.nVdbeWrite /\ e.nVdbeRead = d.nVdbeRead
  BY RunningSame DEF Middle
<1> QED
  BY <1>1 DEF Middle, Aside, Pending, OthersHold, Owned

\* The other statements' transactions are all those counted but that of s.
LEMMA HoldersSplit ==
    ASSUME TInv, NEW s \in Stmts
    PROVE  db.nStatement <= Cardinality(OtherHolders(s)) + One(Holds(vm[s]))
<1> DEFINE H == {t \in Stmts : Holds(vm[t])}
<1>1. H \subseteq Stmts /\ (s \in H <=> Holds(vm[s])) /\ H \ {s} = OtherHolders(s)
      /\ db.nStatement <= Cardinality(H)
  BY DEF OtherHolders, TInv, StatementsHeld
<1> HIDE DEF H
<1>2. IsFiniteSet(H)
  BY <1>1, VdbeAssumption, FS_Subset
<1>3. Cardinality(H \ {s}) = Cardinality(H) - One(Holds(vm[s])) /\ Cardinality(H) \in Nat
  BY <1>1, <1>2, FS_RemoveElement, FS_CardinalityType DEF One
<1> QED
  BY <1>1, <1>3 DEF One

\* In the middle of a step its own statement is among those counted.
LEMMA OwnIsCounted ==
    ASSUME IInv, NEW s \in Stmts, NEW d, Running(s, d)
    PROVE  /\ IsReader(vm[s].sql) => d.nVdbeRead > 0
           /\ IsWriter(vm[s].sql) => d.nVdbeWrite > 0
<1>1. d.nVdbeWrite >= One(IsWriter(vm[s].sql)) /\ d.nVdbeRead >= One(IsReader(vm[s].sql))
  BY RunningIsCounted DEF HasCounted, IInv
<1>2. d.nVdbeWrite \in Nat /\ d.nVdbeRead \in Nat
  BY DEF Running, DbType
<1> HIDE DEF IInv, Running
<1> QED
  BY <1>1, <1>2 DEF One

\* Entering a step counts no statement less.
LEMMA EnteringCounts ==
    ASSUME IInv, NEW s \in Stmts, NEW d, Running(s, d)
    PROVE  d.nVdbeWrite >= db.nVdbeWrite /\ d.nVdbeRead >= db.nVdbeRead
<1>1. db.nVdbeWrite \in Nat /\ db.nVdbeRead \in Nat
  BY DEF IInv, TypeOK, DbType
<1>2. /\ One(IsWriter(vm[s].sql)) - One(Busy(vm[s]) /\ IsWriter(vm[s].sql)) \in {0, 1}
      /\ One(IsReader(vm[s].sql)) - One(Busy(vm[s]) /\ IsReader(vm[s].sql)) \in {0, 1}
  BY DEF One
<1>3. /\ One(IsWriter(vm[s].sql)) \in Int
      /\ One(Busy(vm[s]) /\ IsWriter(vm[s].sql)) \in Int
      /\ One(IsReader(vm[s].sql)) \in Int
      /\ One(Busy(vm[s]) /\ IsReader(vm[s].sql)) \in Int
  BY DEF One
<1> QED
  BY <1>1, <1>2, <1>3 DEF Running

\* The state every step starts from.
LEMMA EnteredMiddle ==
    ASSUME IInv, TInv, NEW s \in Stmts, vm[s].magic # "dead"
    PROVE  LET e == Enter(s)
           IN  /\ Middle(s, e.db, e.vm) /\ Owned(e.db)
               /\ e.db.inTrans = db.inTrans
               /\ SameSavepoints(db, e.db) /\ SavepointsAgreeIn(e.db)
               /\ Starting(s) => e.vm.iStatement = 0
               /\ Busy(vm[s]) => e.db = db /\ e.vm = vm[s]
<1> DEFINE e == Enter(s)
           v == IF vm[s].magic = "halt" THEN Rewind(vm[s]) ELSE vm[s]
<1>1. /\ Running(s, e.db) /\ SavepointsAgreeIn(e.db) /\ SameSavepoints(db, e.db)
      /\ e.vm \in VmType /\ e.vm.sql = vm[s].sql /\ Busy(e.vm)
  BY Entered
<1>2. db \in DbType /\ vm[s] \in VmType /\ Pending(db) /\ Owned(db)
  BY DEF IInv, TypeOK, TInv, PendingOnlyInTransaction, Pending, TransactionIsOwned,
         Owned
<1>3. OthersHold(s, db)
  BY DEF TInv, ReadersHoldTransaction, OthersHold, UsesTable
<1>4. Holds(vm[s]) => IsWriter(vm[s].sql)
  BY DEF TInv, StatementsHeld
<1>5. Aside(db, e.db)
  BY <1>2 DEF Enter, Aside, DbType
<1>6. ~Busy(vm[s]) => e.vm.iStatement = 0
  <2> SUFFICES ASSUME ~Busy(vm[s]) PROVE e.vm.iStatement = 0
    OBVIOUS
  <2>1. ~v.started /\ v.iStatement = 0 /\ v \in VmType
    BY <1>2, RewindType DEF Rewind, VmType, Busy, TInv, StatementsHeld
  <2>2. e.vm = [v EXCEPT !.started = TRUE]
    BY <2>1 DEF Enter
  <2> HIDE DEF e, v
  <2> QED
    BY <2>1, <2>2 DEF VmType
<1>7. Busy(vm[s]) => e.db = db /\ e.vm = vm[s]
  BY <1>2 DEF Enter, Busy, VmType
<1> HIDE DEF e
<1>8. Owned(e.db)
  <2>1. e.db.nVdbeWrite >= db.nVdbeWrite /\ e.db.nVdbeRead >= db.nVdbeRead
        /\ db.nVdbeWrite \in Nat /\ db.nVdbeRead \in Nat
    BY <1>1, <1>2, EnteringCounts DEF DbType
  <2>2. e.db.nVdbeWrite \in Nat /\ e.db.nVdbeRead \in Nat
    BY <1>1 DEF Running, DbType
  <2> QED
    BY <1>1, <1>2, <1>5, <2>1, <2>2 DEF Owned, Aside, SameSavepoints
<1>9. e.db.nStatement <= Cardinality(OtherHolders(s)) + One(e.vm.iStatement # 0)
  <2>1. One(Holds(vm[s])) = One(e.vm.iStatement # 0)
    BY <1>6, <1>7 DEF Holds, One
  <2> QED
    BY <1>5, <2>1, HoldersSplit DEF Aside
<1>10. e.vm.iStatement # 0 => IsWriter(e.vm.sql)
  BY <1>1, <1>4, <1>6, <1>7 DEF Holds
<1>11. Middle(s, e.db, e.vm)
  BY <1>1, <1>2, <1>3, <1>5, <1>9, <1>10 DEF Middle, Pending, OthersHold, Aside
<1> QED
  BY <1>1, <1>5, <1>6, <1>7, <1>8, <1>11 DEF Starting, Aside, e

\* In the middle of a step that wants to read.
LEMMA BeginReadMiddle ==
    ASSUME IInv, NEW s \in Stmts, NEW d, NEW v, Middle(s, d, v), Owned(d),
           IsReader(v.sql)
    PROVE  LET e == BeginRead(d)
           IN  Middle(s, e, v) /\ Owned(e) /\ e.inTrans # "none"
<1> DEFINE e == BeginRead(d)
<1>1. d \in DbType /\ Running(s, d) /\ v.sql = vm[s].sql /\ SavepointsAgreeIn(d) \in BOOLEAN
  BY DEF Middle, Running, SavepointsAgreeIn
<1>2. PagerStep(d, e)
  BY <1>1, BeginReadStep
<1>3. Running(s, e)
  BY <1>1, <1>2 DEF Running, PagerStep
<1>4. e.work = d.work /\ e.disk = d.disk /\ e.aSavepoint = d.aSavepoint
      /\ e.inTrans = IF d.inTrans = "none" THEN "read" ELSE d.inTrans
  BY <1>1 DEF BeginRead, DbType
<1>5. e.nVdbeRead > 0
  BY <1>1, <1>3, OwnIsCounted
<1> HIDE DEF e
<1>6. Middle(s, e, v)
  BY <1>2, <1>3, <1>4 DEF Middle, Pending, OthersHold, PagerStep
<1>7. Owned(e)
  BY <1>2, <1>4, <1>5 DEF Owned, PagerStep
<1> QED
  BY <1>4, <1>6, <1>7 DEF e

\* OP_Transaction of a writer that starts.
LEMMA OpenStatementMiddle ==
    ASSUME IInv, NEW s \in Stmts, NEW d, NEW v, Middle(s, d, v), Owned(d),
           SavepointsAgreeIn(d), IsWriter(v.sql), v.iStatement = 0
    PROVE  LET o == OpenStatement(d, v)
           IN  Middle(s, o.db, o.vm) /\ Owned(o.db) /\ o.db.inTrans = "write"
<1> DEFINE b == BeginWrite(d)
           n == d.nSavepoint + d.nStatement + 1
           c == [b EXCEPT !.nStatement = @ + 1]
           o == OpenStatement(d, v)
<1>1. d \in DbType /\ Running(s, d) /\ v \in VmType /\ v.sql = vm[s].sql /\ Busy(v)
      /\ n \in Nat /\ n # 0 /\ OthersHold(s, d)
      /\ d.nStatement <= Cardinality(OtherHolders(s)) + One(v.iStatement # 0)
  BY DEF Middle, Running, DbType
<1>2. /\ Running(s, o.db)
      /\ o.vm \in VmType /\ o.vm.sql = vm[s].sql /\ Busy(o.vm)
  BY <1>1, OpenStatementKeepsRunning
<1>3. b \in DbType /\ b.inTrans = "write" /\ b.nStatement = d.nStatement
      /\ b.autoCommit = d.autoCommit
  <2>1. b.inTrans = "write"
    BY <1>1 DEF BeginWrite, OpenSavepoint, DbType
  <2> QED
    BY <1>1, <2>1, BeginWriteStep DEF PagerStep
<1>4. /\ o.db.inTrans = "write" /\ o.db.autoCommit = d.autoCommit
      /\ \/ o.db.nStatement = d.nStatement + 1 /\ o.vm.iStatement = n
         \/ o.db.nStatement = d.nStatement /\ o.vm = v
  <2> HIDE DEF b, n
  <2>1. c.inTrans = "write" /\ c.autoCommit = d.autoCommit
        /\ c.nStatement = d.nStatement + 1
    BY <1>3 DEF DbType
  <2>2. \/ o = [db |-> OpenSavepoint(c, n), vm |-> [v EXCEPT !.iStatement = n]]
        \/ o = [db |-> b, vm |-> v]
    BY DEF OpenStatement, b, n
  <2>3. [v EXCEPT !.iStatement = n].iStatement = n
    BY <1>1 DEF VmType
  <2>4. c \in DbType
    <3>1. b.nStatement + 1 \in Nat
      BY <1>3 DEF DbType
    <3> QED
      BY <1>3, <3>1 DEF DbType
  <2> HIDE DEF c
  <2>5. OpenSavepoint(c, n).inTrans = c.inTrans
        /\ OpenSavepoint(c, n).autoCommit = c.autoCommit
        /\ OpenSavepoint(c, n).nStatement = c.nStatement
    BY <2>4 DEF OpenSavepoint, DbType
  <2>6. CASE o = [db |-> OpenSavepoint(c, n), vm |-> [v EXCEPT !.iStatement = n]]
    <3>1. o.db = OpenSavepoint(c, n) /\ o.vm = [v EXCEPT !.iStatement = n]
      BY <2>6
    <3> HIDE DEF o
    <3> QED
      BY <2>1, <2>3, <2>5, <3>1
  <2>7. CASE o = [db |-> b, vm |-> v]
    <3>1. o.db = b /\ o.vm = v
      BY <2>7
    <3> HIDE DEF o
    <3> QED
      BY <1>3, <3>1
  <2> QED
    BY <2>2, <2>6, <2>7
<1>5. o.db.nVdbeWrite > 0
  BY <1>1, <1>2, OwnIsCounted
<1>6. Cardinality(OtherHolders(s)) \in Nat
  <2>1. OtherHolders(s) \subseteq Stmts
    BY DEF OtherHolders
  <2> QED
    BY <2>1, VdbeAssumption, FS_Subset, FS_CardinalityType
<1> HIDE DEF o, n
<1>7. o.db.nStatement <= Cardinality(OtherHolders(s)) + One(o.vm.iStatement # 0)
  <2>1. d.nStatement <= Cardinality(OtherHolders(s)) /\ d.nStatement \in Nat
    BY <1>1, <1>6 DEF One, DbType
  <2> QED
    BY <1>1, <1>4, <1>6, <2>1 DEF One
<1>8. Middle(s, o.db, o.vm)
  BY <1>1, <1>2, <1>4, <1>7 DEF Middle, Pending, OthersHold
<1>9. Owned(o.db)
  BY <1>4, <1>5 DEF Owned
<1> QED
  BY <1>4, <1>8, <1>9 DEF o

\* A write in a write transaction.
LEMMA WriteMiddle ==
    ASSUME NEW s \in Stmts, NEW d, NEW v, Middle(s, d, v), Owned(d),
           d.inTrans = "write", NEW K \in SUBSET Keys
    PROVE  LET e == [d EXCEPT !.work = K]
           IN  Middle(s, e, v) /\ Owned(e) /\ e.inTrans = "write"
<1> DEFINE e == [d EXCEPT !.work = K]
<1>1. d \in DbType /\ Running(s, d)
  BY DEF Middle, Running
<1>2. PagerStep(d, e)
  BY <1>1, WorkStep
<1>3. e.inTrans = "write"
  BY <1>1 DEF DbType
<1> HIDE DEF e
<1>4. Running(s, e)
  BY <1>1, <1>2 DEF Running, PagerStep
<1> QED
  BY <1>2, <1>3, <1>4 DEF Middle, Pending, OthersHold, Owned, PagerStep, e

\* The program moves on in the middle of a step.
LEMMA ProgramMoves ==
    ASSUME NEW s \in Stmts, NEW d, NEW v, Middle(s, d, v),
           NEW w \in VmType, w.sql = v.sql, Busy(w), w.iStatement = v.iStatement
    PROVE  Middle(s, d, w)
BY DEF Middle
-----------------------------------------------------------------------------
\* One step of a SELECT.
LEMMA StepSelectKeepsTInv ==
    ASSUME IInv, TInv, NEW s \in Stmts, StepSelect(s)
    PROVE  TInv'
<1> DEFINE e == Enter(s)
           d == IF Starting(s) THEN BeginRead(e.db) ELSE e.db
           ahead == {k \in d.work : k > e.vm.at}
<1>1. /\ Middle(s, e.db, e.vm) /\ Owned(e.db) /\ e.db.inTrans = db.inTrans
      /\ Busy(vm[s]) => e.db = db /\ e.vm = vm[s]
  BY EnteredMiddle DEF StepSelect, CanStep
<1>2. vm[s].sql.kind = "select" /\ IsReader(vm[s].sql) /\ UsesTable(vm[s].sql)
      /\ e.vm.sql = vm[s].sql
  BY <1>1 DEF StepSelect, CanStep, IsReader, UsesTable, Middle
<1>3. \/ \E k \in ahead : Apply(s, d, [e.vm EXCEPT !.at = k])
      \/ \E rc \in {"ok", "nomem"} : Finish(s, d, e.vm, rc)
  BY DEF StepSelect
<1> HIDE DEF e
<1>4. Middle(s, d, e.vm) /\ Owned(d) /\ d.inTrans # "none"
  <2>1. CASE Starting(s)
    BY <1>1, <1>2, <2>1, BeginReadMiddle
  <2>2. CASE ~Starting(s)
    <3>1. db.inTrans # "none"
      BY <1>2, <2>2 DEF TInv, ReadersHoldTransaction, Starting, UsesTable
    <3> QED
      BY <1>1, <2>2, <3>1
  <2> QED
    BY <2>1, <2>2
<1>5. CASE \E k \in ahead : Apply(s, d, [e.vm EXCEPT !.at = k])
  <2>1. PICK k \in ahead : Apply(s, d, [e.vm EXCEPT !.at = k])
    BY <1>5
  <2> HIDE DEF d
  <2>2. k \in Keys
    BY <1>4 DEF Middle, Running, DbType
  <2> DEFINE w == [e.vm EXCEPT !.at = k]
  <2>3. w \in VmType /\ w.sql = e.vm.sql /\ Busy(w) /\ w.iStatement = e.vm.iStatement
    BY <1>4, <2>2 DEF Middle, VmType, Busy
  <2>4. Apply(s, d, w)
    BY <2>1
  <2> HIDE DEF w
  <2> QED
    BY <1>4, <2>3, <2>4, ProgramMoves, ActiveKeepsTInv
<1>6. CASE \E rc \in {"ok", "nomem"} : Finish(s, d, e.vm, rc)
  <2> HIDE DEF d
  <2> QED
    BY <1>4, <1>6, FinishKeepsTInv
<1> QED
  BY <1>3, <1>5, <1>6

\* One step of a program that reads no table.
LEMMA StepValueKeepsTInv ==
    ASSUME IInv, TInv, NEW s \in Stmts, StepValue(s)
    PROVE  TInv'
<1> DEFINE e == Enter(s)
<1>1. Middle(s, e.db, e.vm) /\ Owned(e.db)
  BY EnteredMiddle DEF StepValue, CanStep
<1>2. ~UsesTable(e.vm.sql)
  BY <1>1 DEF StepValue, CanStep, UsesTable, Middle
<1>3. Apply(s, e.db, e.vm) \/ Finish(s, e.db, e.vm, "ok")
  BY DEF StepValue
<1> HIDE DEF e
<1> QED
  BY <1>1, <1>2, <1>3, ActiveKeepsTInv, FinishKeepsTInv

\* A writer whose rows are written, with rows to return or without.
LEMMA WrittenKeepsTInv ==
    ASSUME IInv, TInv, NEW s \in Stmts, NEW d, NEW v, Middle(s, d, v), Owned(d),
           d.inTrans = "write", NEW n \in Nat, Written(s, d, v, n)
    PROVE  TInv'
<1>1. CASE v.sql.returning /\ n > 0
  <2> DEFINE w == [v EXCEPT !.left = n - 1]
  <2>1. n - 1 \in Nat
    BY <1>1
  <2>2. w \in VmType /\ w.sql = v.sql /\ Busy(w) /\ w.iStatement = v.iStatement
    BY <2>1 DEF Middle, VmType, Busy
  <2>3. Apply(s, d, w)
    BY <1>1 DEF Written
  <2> HIDE DEF w
  <2> QED
    BY <2>2, <2>3, ProgramMoves, ActiveKeepsTInv
<1>2. CASE ~(v.sql.returning /\ n > 0)
  BY <1>2, FinishKeepsTInv DEF Written
<1> QED
  BY <1>1, <1>2

\* The step of a writer that starts: the transaction, then the writing.
LEMMA WriterStarts ==
    ASSUME IInv, TInv, NEW s \in Stmts, vm[s].magic # "dead", Starting(s),
           IsWriter(vm[s].sql)
    PROVE  LET e == Enter(s)
               o == OpenStatement(e.db, e.vm)
           IN  Middle(s, o.db, o.vm) /\ Owned(o.db) /\ o.db.inTrans = "write"
<1> DEFINE e == Enter(s)
<1>1. /\ Middle(s, e.db, e.vm) /\ Owned(e.db) /\ SavepointsAgreeIn(e.db)
      /\ e.vm.iStatement = 0
  BY EnteredMiddle
<1>2. IsWriter(e.vm.sql)
  BY <1>1 DEF Middle
<1> HIDE DEF e
<1> QED
  BY <1>1, <1>2, OpenStatementMiddle DEF e

\* The step in which an INSERT writes, whether it completes or fails.
LEMMA StartInsertKeepsTInv ==
    ASSUME IInv, TInv, NEW s \in Stmts, StartInsert(s)
    PROVE  TInv'
<1> DEFINE e == Enter(s)
           o == OpenStatement(e.db, e.vm)
           rows == Rows(o.vm)
           clashes == {i \in 1..Len(rows) : Clash(o.db.work, rows, i)}
           With(n) == [o.db EXCEPT !.work = @ \cup Prefix(rows, n)]
           failed == [o.vm EXCEPT !.errorAction = o.vm.sql.onConflict]
<1>1. Middle(s, o.db, o.vm) /\ Owned(o.db) /\ o.db.inTrans = "write"
  <2>1. vm[s].magic # "dead" /\ Starting(s) /\ IsWriter(vm[s].sql)
    BY DEF StartInsert, CanStep, IsWriter
  <2> QED
    BY <2>1, WriterStarts
<1>2. \/ clashes = {} /\ Written(s, With(Len(rows)), o.vm, Len(rows))
      \/ \E i \in clashes :
            /\ \A j \in clashes : i <= j
            /\ Finish(s, With(i - 1), failed, "constraint")
      \/ \E n \in 0..Len(rows) :
            /\ \A i \in clashes : n < i
            /\ Finish(s, With(n), o.vm, "nomem")
  BY DEF StartInsert
<1> HIDE DEF o
<1>3. o.vm \in VmType /\ o.db \in DbType /\ Len(rows) \in Nat
  BY <1>1, RowsType, LenProperties DEF Middle, Running
<1>4. ASSUME NEW n \in 0..Len(rows), \A i \in clashes : n < i
      PROVE  Middle(s, With(n), o.vm) /\ Owned(With(n)) /\ With(n).inTrans = "write"
  <2>1. \A i \in 1..n : ~Clash(o.db.work, rows, i)
    <3> TAKE i \in 1..n
    <3>1. i \in 1..Len(rows) /\ ~(n < i)
      BY <1>3
    <3> QED
      BY <1>4, <3>1
  <2>2. Prefix(rows, n) \subseteq Keys
    BY <1>3, <2>1, PrefixIsKeys
  <2>3. o.db.work \cup Prefix(rows, n) \in SUBSET Keys
    BY <1>3, <2>2 DEF DbType
  <2> QED
    BY <1>1, <2>3, WriteMiddle
<1> HIDE DEF With, rows
<1>5. CASE clashes = {} /\ Written(s, With(Len(rows)), o.vm, Len(rows))
  <2>1. Len(rows) \in 0..Len(rows)
    BY <1>3
  <2> QED
    BY <1>3, <1>4, <1>5, <2>1, WrittenKeepsTInv
<1>6. CASE \E i \in clashes : /\ \A j \in clashes : i <= j
                              /\ Finish(s, With(i - 1), failed, "constraint")
  <2>1. PICK i \in clashes : /\ \A j \in clashes : i <= j
                             /\ Finish(s, With(i - 1), failed, "constraint")
    BY <1>6
  <2>2. i - 1 \in 0..Len(rows) /\ \A j \in clashes : i - 1 < j
    BY <1>3, <2>1
  <2>3. Middle(s, With(i - 1), o.vm) /\ Owned(With(i - 1))
    BY <1>4, <2>2
  <2>4. failed \in VmType /\ failed.sql = o.vm.sql /\ Busy(failed)
        /\ failed.iStatement = o.vm.iStatement
    <3>1. o.vm.sql.onConflict \in {"abort", "fail", "rollback"}
      BY <1>3, SqlFields
    <3> QED
      BY <1>1, <1>3, <3>1 DEF Middle, VmType, Busy
  <2> HIDE DEF failed
  <2> QED
    BY <2>1, <2>3, <2>4, ProgramMoves, FinishKeepsTInv
<1>7. CASE \E n \in 0..Len(rows) : /\ \A i \in clashes : n < i
                                   /\ Finish(s, With(n), o.vm, "nomem")
  <2>1. PICK n \in 0..Len(rows) : /\ \A i \in clashes : n < i
                                  /\ Finish(s, With(n), o.vm, "nomem")
    BY <1>7
  <2> QED
    BY <1>4, <2>1, FinishKeepsTInv
<1> QED
  BY <1>2, <1>5, <1>6, <1>7

\* The step in which a DELETE writes.
LEMMA StartDeleteKeepsTInv ==
    ASSUME IInv, TInv, NEW s \in Stmts, StartDelete(s)
    PROVE  TInv'
<1> DEFINE e == Enter(s)
           o == OpenStatement(e.db, e.vm)
           victims == o.db.work \cap Prefix(Rows(o.vm), Len(o.vm.sql.rows))
           Without(K) == [o.db EXCEPT !.work = @ \ K]
<1>1. Middle(s, o.db, o.vm) /\ Owned(o.db) /\ o.db.inTrans = "write"
  <2>1. vm[s].magic # "dead" /\ Starting(s) /\ IsWriter(vm[s].sql)
    BY DEF StartDelete, CanStep, IsWriter
  <2> QED
    BY <2>1, WriterStarts
<1>2. \/ Written(s, Without(victims), o.vm, Cardinality(victims))
      \/ \E K \in SUBSET victims : Finish(s, Without(K), o.vm, "nomem")
  BY DEF StartDelete
<1> HIDE DEF o
<1>3. o.db \in DbType /\ o.vm \in VmType
  BY <1>1 DEF Middle, Running
<1>4. Cardinality(victims) \in Nat
  <2>1. IsFiniteSet(Prefix(Rows(o.vm), Len(o.vm.sql.rows)))
    BY <1>3, RowsType, PrefixIsFinite
  <2>2. IsFiniteSet(victims)
    BY <2>1, FS_Subset
  <2> QED
    BY <2>2, FS_CardinalityType
<1>5. ASSUME NEW K
      PROVE  /\ Middle(s, Without(K), o.vm) /\ Owned(Without(K))
             /\ Without(K).inTrans = "write"
  <2>1. o.db.work \ K \in SUBSET Keys
    BY <1>3 DEF DbType
  <2> QED
    BY <1>1, <2>1, WriteMiddle
<1> HIDE DEF victims, Without
<1> QED
  BY <1>2, <1>4, <1>5, WrittenKeepsTInv, FinishKeepsTInv

\* A later step of a writer with a RETURNING clause.
LEMMA StepReturningKeepsTInv ==
    ASSUME IInv, TInv, NEW s \in Stmts, StepReturning(s)
    PROVE  TInv'
<1>1. Busy(vm[s]) /\ vm[s].magic # "dead" /\ IsWriter(vm[s].sql)
  BY DEF StepReturning, Starting
<1>2. Middle(s, db, vm[s]) /\ Owned(db)
  BY <1>1, EnteredMiddle
<1>3. db.inTrans # "none"
  BY <1>1 DEF TInv, ReadersHoldTransaction, IsWriter
<1>4. CASE vm[s].left > 0 /\ Apply(s, db, [vm[s] EXCEPT !.left = @ - 1])
  <2> DEFINE w == [vm[s] EXCEPT !.left = @ - 1]
  <2>1. vm[s] \in VmType /\ vm[s].left - 1 \in Nat
    BY <1>2, <1>4 DEF Middle, VmType
  <2>2. w \in VmType /\ w.sql = vm[s].sql /\ Busy(w) /\ w.iStatement = vm[s].iStatement
    BY <1>1, <2>1 DEF VmType, Busy
  <2>3. Apply(s, db, w)
    BY <1>4
  <2> HIDE DEF w
  <2> QED
    BY <1>2, <1>3, <2>2, <2>3, ProgramMoves, ActiveKeepsTInv
<1>5. CASE \E rc \in {"ok", "nomem"} : Finish(s, db, vm[s], rc)
  BY <1>2, <1>5, FinishKeepsTInv
<1> QED
  BY <1>4, <1>5 DEF StepReturning
-----------------------------------------------------------------------------
\* BEGIN.
LEMMA StepBeginKeepsTInv ==
    ASSUME IInv, TInv, NEW s \in Stmts, StepBegin(s)
    PROVE  TInv'
<1> DEFINE e == Enter(s)
           d == [e.db EXCEPT !.autoCommit = FALSE]
           h == Halt(d, e.vm, FALSE)
<1>1. Middle(s, e.db, e.vm) /\ Owned(e.db)
  BY EnteredMiddle DEF StepBegin, CanStep
<1>2. Apply(s, CloseSavepoints(h.db), h.vm) \/ Finish(s, e.db, e.vm, "error")
  BY DEF StepBegin
<1> HIDE DEF e
<1>3. Running(s, d) /\ ~d.autoCommit
  BY <1>1, AutoCommitKeepsRunning DEF Middle
<1>4. Aside(e.db, d)
  BY <1>1 DEF Middle, Running, DbType, Aside
<1>5. Middle(s, d, e.vm) /\ Owned(d)
  <2> HIDE DEF d
  <2> QED
    BY <1>1, <1>3, <1>4, AsideKeepsMiddle DEF Owned
<1>6. CASE Apply(s, CloseSavepoints(h.db), h.vm)
  <2> HIDE DEF d
  <2> QED
    BY <1>5, <1>6, HaltAndCloseKeepsTInv
<1>7. CASE Finish(s, e.db, e.vm, "error")
  BY <1>1, <1>7, FinishKeepsTInv
<1> QED
  BY <1>2, <1>6, <1>7

\* A step back to autocommit, when no statement is writing.
LEMMA CommittingMiddle ==
    ASSUME IInv, NEW s \in Stmts, NEW d, NEW v, Middle(s, d, v),
           db.nVdbeWrite = 0, ~IsWriter(vm[s].sql)
    PROVE  LET e == [d EXCEPT !.autoCommit = TRUE]
           IN  Middle(s, e, v) /\ e.nVdbeWrite = One(IsWriter(v.sql))
<1> DEFINE e == [d EXCEPT !.autoCommit = TRUE]
<1>1. Running(s, d) /\ v.sql = vm[s].sql
  BY DEF Middle
<1>2. Running(s, e)
  BY <1>1, AutoCommitKeepsRunning
<1>3. Aside(d, e)
  BY <1>1 DEF Running, DbType, Aside
<1> HIDE DEF e
<1>4. Middle(s, e, v)
  BY <1>2, <1>3, AsideKeepsMiddle
<1>5. e.nVdbeWrite = 0
  BY <1>2 DEF Running, One
<1>6. One(IsWriter(v.sql)) = 0
  BY <1>1 DEF One
<1> QED
  BY <1>4, <1>5, <1>6 DEF e

\* COMMIT, refused, failed or done.
LEMMA StepCommitKeepsTInv ==
    ASSUME IInv, TInv, NEW s \in Stmts, StepCommit(s)
    PROVE  TInv'
<1> DEFINE e == Enter(s)
           d == [e.db EXCEPT !.autoCommit = TRUE]
<1>1. Middle(s, e.db, e.vm) /\ Owned(e.db)
  BY EnteredMiddle DEF StepCommit, CanStep
<1>2. \/ \E rc \in {"error", "busy"} : Finish(s, e.db, e.vm, rc)
      \/ /\ db.nVdbeWrite = 0
         /\ \E full \in BOOLEAN :
               LET h == Halt(d, e.vm, full) IN Apply(s, CloseSavepoints(h.db), h.vm)
  BY VdbeAssumption DEF StepCommit
<1>3. ~IsWriter(vm[s].sql) /\ IsReader(vm[s].sql)
  BY DEF StepCommit, CanStep, IsWriter, IsReader
<1> HIDE DEF e
<1>4. CASE /\ db.nVdbeWrite = 0
           /\ \E full \in BOOLEAN :
                 LET h == Halt(d, e.vm, full) IN Apply(s, CloseSavepoints(h.db), h.vm)
  <2>1. /\ Middle(s, d, e.vm) /\ d.nVdbeWrite = One(IsWriter(e.vm.sql))
        /\ IsReader(e.vm.sql)
    BY <1>1, <1>3, <1>4, CommittingMiddle DEF Middle
  <2> HIDE DEF d
  <2> QED
    BY <1>4, <2>1, HaltAndCloseKeepsTInv
<1>5. CASE \E rc \in {"error", "busy"} : Finish(s, e.db, e.vm, rc)
  BY <1>1, <1>5, FinishKeepsTInv
<1> QED
  BY <1>2, <1>4, <1>5

\* ROLLBACK.
LEMMA StepRollbackKeepsTInv ==
    ASSUME IInv, TInv, NEW s \in Stmts, StepRollback(s)
    PROVE  TInv'
<1> DEFINE e == Enter(s)
           r == RollbackAll(e.db)
           d == [r EXCEPT !.autoCommit = TRUE]
           h == Halt(d, e.vm, FALSE)
<1>1. Middle(s, e.db, e.vm) /\ Owned(e.db) /\ SavepointsAgreeIn(e.db)
  BY EnteredMiddle DEF StepRollback, CanStep
<1>2. Apply(s, CloseSavepoints(h.db), h.vm) \/ Finish(s, e.db, e.vm, "error")
  BY DEF StepRollback
<1>3. IsReader(vm[s].sql)
  BY DEF StepRollback, CanStep, IsReader
<1> HIDE DEF e
<1>4. e.db \in DbType /\ Running(s, e.db) /\ Pending(e.db) /\ OthersHold(s, e.db)
  BY <1>1 DEF Middle, Running
<1>5. Running(s, r) /\ Ended(e.db, r) /\ r.nStatement = e.db.nStatement
  <2>1. PagerStep(e.db, r)
    BY <1>4, RollbackAllStep
  <2> QED
    BY <1>1, <1>4, <2>1, BtreeEnds, PagerKeepsRunning
<1>6. OthersHold(s, r)
  <2> HIDE DEF r
  <2> QED
    BY <1>3, <1>4, <1>5, EndedKeepsOthers DEF IInv
<1> HIDE DEF r
<1>7. Middle(s, r, e.vm)
  BY <1>1, <1>5, <1>6 DEF Middle, Ended
<1>8. Running(s, d) /\ Aside(r, d)
  <2>1. Running(s, d)
    BY <1>5, AutoCommitKeepsRunning
  <2> QED
    BY <1>5, <2>1 DEF Running, DbType, Aside
<1>9. Middle(s, d, e.vm) /\ d.inTrans # "write" /\ d.nVdbeRead > 0
  <2> HIDE DEF d
  <2>1. d.nVdbeRead > 0
    BY <1>3, <1>8, OwnIsCounted
  <2>2. d.inTrans # "write"
    BY <1>5, <1>8 DEF Aside, Ended
  <2> QED
    BY <1>7, <1>8, <2>1, <2>2, AsideKeepsMiddle
<1>10. Owned(d)
  <2> HIDE DEF d
  <2> QED
    BY <1>9 DEF Owned
<1>11. CASE Apply(s, CloseSavepoints(h.db), h.vm)
  <2> HIDE DEF d
  <2> QED
    BY <1>9, <1>10, <1>11, HaltAndCloseKeepsTInv
<1>12. CASE Finish(s, e.db, e.vm, "error")
  BY <1>1, <1>12, FinishKeepsTInv
<1> QED
  BY <1>2, <1>11, <1>12

\* SAVEPOINT, as the start of a transaction or inside one.
LEMMA StepSavepointKeepsTInv ==
    ASSUME IInv, TInv, NEW s \in Stmts, StepSavepoint(s)
    PROVE  TInv'
<1> DEFINE e == Enter(s)
           p == [e.db EXCEPT !.pSavepoint = Append(@, e.vm.sql.name)]
           t == [p EXCEPT !.autoCommit = FALSE, !.isTransactionSavepoint = TRUE]
           u == [p EXCEPT !.nSavepoint = @ + 1]
<1>1. Middle(s, e.db, e.vm) /\ Owned(e.db) /\ SameSavepoints(db, e.db)
  BY EnteredMiddle DEF StepSavepoint, CanStep
<1>2. \/ \E rc \in {"busy", "nomem"} : Finish(s, e.db, e.vm, rc)
      \/ Finish(s, t, e.vm, "ok")
      \/ ~db.autoCommit /\ Finish(s, u, e.vm, "ok")
  BY DEF StepSavepoint
<1> HIDE DEF e
<1>3. e.db \in DbType /\ Running(s, e.db) /\ e.vm \in VmType
  BY <1>1 DEF Middle, Running
<1>4. Running(s, p) /\ Aside(e.db, p) /\ p.autoCommit = e.db.autoCommit
  <2>1. e.db.pSavepoint \in Seq(Names) /\ e.vm.sql.name \in Names
    BY <1>3, SqlFields DEF DbType
  <2>2. Append(e.db.pSavepoint, e.vm.sql.name) \in Seq(Names)
    BY <2>1, AppendProperties
  <2> QED
    BY <1>3, <2>2 DEF Running, DbType, Aside
<1> HIDE DEF p
<1>5. Running(s, t) /\ Aside(e.db, t) /\ ~t.autoCommit
  BY <1>4 DEF Running, DbType, Aside
<1>6. Running(s, u) /\ Aside(e.db, u) /\ u.autoCommit = e.db.autoCommit
  <2>1. p.nSavepoint + 1 \in Nat /\ p \in DbType
    BY <1>4 DEF Running, DbType
  <2> QED
    BY <1>4, <2>1 DEF Running, DbType, Aside
<1> HIDE DEF t, u
<1>7. Middle(s, t, e.vm) /\ Owned(t)
  BY <1>1, <1>5, AsideKeepsMiddle DEF Owned
<1>8. ~db.autoCommit => Middle(s, u, e.vm) /\ Owned(u)
  BY <1>1, <1>6, AsideKeepsMiddle DEF Owned, SameSavepoints
<1> QED
  BY <1>1, <1>2, <1>7, <1>8, FinishKeepsTInv

\* Dropping savepoint names, inside a transaction.
LEMMA PoppedMiddle ==
    ASSUME NEW s \in Stmts, NEW d, NEW v, Middle(s, d, v), SavepointsAgreeIn(d),
           NEW i \in DOMAIN d.pSavepoint
    PROVE  LET p == Popped(d, i)
           IN  Middle(s, p, v) /\ ~p.autoCommit /\ SavepointsAgreeIn(p)
<1> DEFINE p == Popped(d, i)
<1>1. Running(s, d) /\ d \in DbType
  BY DEF Middle, Running
<1>2. Running(s, p) /\ SavepointsAgreeIn(p) /\ ~p.autoCommit
  BY <1>1, PoppedKeepsRunning
<1>3. Aside(d, p)
  BY <1>1 DEF Popped, Aside, DbType
<1> HIDE DEF p
<1> QED
  BY <1>2, <1>3, AsideKeepsMiddle DEF p

\* Rolling back to or releasing a savepoint in the middle of a step.
LEMMA SavepointMiddle ==
    ASSUME NEW s \in Stmts, NEW d, NEW v, Middle(s, d, v), SavepointsAgreeIn(d),
           NEW i \in Int, NEW e, PagerStep(d, e),
           e \in {SavepointRollback(d, i), SavepointRelease(d, i)}
    PROVE  Middle(s, e, v) /\ e.autoCommit = d.autoCommit
<1>1. d \in DbType /\ Pending(d) /\ Running(s, d)
  BY DEF Middle, Running
<1>2. Running(s, e)
  BY <1>1, PagerKeepsRunning
<1>3. e.inTrans = d.inTrans /\ Pending(e)
  BY <1>1, SavepointKeepsTransaction
<1> QED
  BY <1>2, <1>3 DEF Middle, OthersHold, PagerStep

\* ROLLBACK TO.
LEMMA StepRollbackToKeepsTInv ==
    ASSUME IInv, TInv, NEW s \in Stmts, StepRollbackTo(s)
    PROVE  TInv'
<1> DEFINE e == Enter(s)
<1>1. /\ Middle(s, e.db, e.vm) /\ Owned(e.db)
      /\ SameSavepoints(db, e.db) /\ SavepointsAgreeIn(e.db)
  BY EnteredMiddle DEF StepRollbackTo, CanStep
<1>2. \/ \E rc \in {"error", "nomem"} : Finish(s, e.db, e.vm, rc)
      \/ \E i \in DOMAIN db.pSavepoint :
            Finish(s, SavepointRollback(Popped(e.db, i), BtreeIndex(i)), e.vm, "ok")
  BY DEF StepRollbackTo
<1> HIDE DEF e
<1>3. ASSUME NEW i \in DOMAIN db.pSavepoint,
             Finish(s, SavepointRollback(Popped(e.db, i), BtreeIndex(i)), e.vm, "ok")
      PROVE  TInv'
  <2> DEFINE p == Popped(e.db, i)
             r == SavepointRollback(p, BtreeIndex(i))
  <2>1. i \in DOMAIN e.db.pSavepoint
    BY <1>1 DEF SameSavepoints
  <2>2. Middle(s, p, e.vm) /\ ~p.autoCommit /\ SavepointsAgreeIn(p)
    BY <1>1, <2>1, PoppedMiddle
  <2>3. BtreeIndex(i) \in Int /\ BtreeIndex(i) >= -1
    <3>1. i \in Nat \ {0}
      BY <1>1, <2>1, PoppedKeepsRunning DEF Middle
    <3> QED
      BY <3>1, BtreeIndexValue DEF One
  <2>4. Finish(s, r, e.vm, "ok")
    BY <1>3
  <2> HIDE DEF p
  <2>5. PagerStep(p, r)
    BY <2>2, <2>3, SavepointRollbackStep DEF Middle, Running
  <2>6. Middle(s, r, e.vm) /\ ~r.autoCommit
    BY <2>2, <2>3, <2>5, SavepointMiddle
  <2> HIDE DEF r
  <2> QED
    BY <2>4, <2>6, FinishKeepsTInv DEF Owned
<1> QED
  BY <1>1, <1>2, <1>3, FinishKeepsTInv

\* RELEASE of a nested savepoint, or of the transaction savepoint, whose
\* commit may fail.
LEMMA StepReleaseKeepsTInv ==
    ASSUME IInv, TInv, NEW s \in Stmts, StepRelease(s)
    PROVE  TInv'
<1> DEFINE e == Enter(s)
           Inner(i) == [SavepointRelease(Popped(e.db, i), BtreeIndex(i)) EXCEPT
                           !.pSavepoint = SubSeq(@, 1, i - 1), !.nSavepoint = @ - 1]
           d == [e.db EXCEPT !.autoCommit = TRUE]
<1>1. /\ Middle(s, e.db, e.vm) /\ Owned(e.db)
      /\ SameSavepoints(db, e.db) /\ SavepointsAgreeIn(e.db)
  BY EnteredMiddle DEF StepRelease, CanStep
<1>2. \/ \E rc \in {"error", "busy"} : Finish(s, e.db, e.vm, rc)
      \/ \E i \in DOMAIN db.pSavepoint :
            ~(i = 1 /\ db.isTransactionSavepoint) /\ Finish(s, Inner(i), e.vm, "ok")
      \/ /\ db.nVdbeWrite = 0
         /\ \E full \in BOOLEAN :
               LET h == Halt(d, e.vm, full)
               IN  \/ Apply(s, CloseSavepoints(h.db), h.vm)
                   \/ Apply(s, [h.db EXCEPT !.autoCommit = FALSE], h.vm)
  BY VdbeAssumption DEF StepRelease
<1>3. ~IsWriter(vm[s].sql) /\ IsReader(vm[s].sql)
  BY DEF StepRelease, CanStep, IsWriter, IsReader
<1> HIDE DEF e
<1>4. CASE \E rc \in {"error", "busy"} : Finish(s, e.db, e.vm, rc)
  BY <1>1, <1>4, FinishKeepsTInv
<1>5. ASSUME NEW i \in DOMAIN db.pSavepoint, ~(i = 1 /\ db.isTransactionSavepoint),
             Finish(s, Inner(i), e.vm, "ok")
      PROVE  TInv'
  <2> DEFINE p == Popped(e.db, i)
             r == SavepointRelease(p, BtreeIndex(i))
             a == SubSeq(r.pSavepoint, 1, i - 1)
             n == r.nSavepoint - 1
             f == [r EXCEPT !.pSavepoint = a, !.nSavepoint = n]
  <2>1. i \in DOMAIN e.db.pSavepoint
        /\ e.db.isTransactionSavepoint = db.isTransactionSavepoint
    BY <1>1 DEF SameSavepoints
  <2>2. Middle(s, p, e.vm) /\ ~p.autoCommit /\ SavepointsAgreeIn(p)
    BY <1>1, <2>1, PoppedMiddle
  <2>3. /\ i \in Nat \ {0} /\ Len(p.pSavepoint) = i
        /\ p.nSavepoint = i - One(db.isTransactionSavepoint)
    BY <1>1, <2>1, PoppedKeepsRunning DEF Middle
  <2>4. BtreeIndex(i) \in Nat
    BY <1>5, <2>3, BtreeIndexValue DEF One
  <2>5. Finish(s, f, e.vm, "ok")
    BY <1>5
  <2> HIDE DEF p
  <2>6. PagerStep(p, r)
    BY <2>2, <2>4, SavepointReleaseStep DEF Middle, Running
  <2>7. Middle(s, r, e.vm) /\ ~r.autoCommit
    BY <2>2, <2>4, <2>6, SavepointMiddle
  <2>8. Running(s, r) /\ r.pSavepoint = p.pSavepoint /\ r.nSavepoint = p.nSavepoint
    BY <2>6, <2>7 DEF Middle, PagerStep
  <2> HIDE DEF r
  <2>9. n \in Nat
    BY <1>5, <2>3, <2>8 DEF One
  <2>10. a \in Seq(Names)
    <3>1. r.pSavepoint \in Seq(Names)
      BY <2>8 DEF Running, DbType
    <3>2. \A j \in 1..(i - 1) : r.pSavepoint[j] \in Names
      BY <2>3, <2>8, <3>1, ElementOfSeq
    <3> QED
      BY <2>3, <3>2, SubSeqProperties
  <2> HIDE DEF a, n
  <2>11. Running(s, f) /\ Aside(r, f) /\ f.autoCommit = r.autoCommit
    BY <2>8, <2>9, <2>10 DEF Running, DbType, Aside
  <2> HIDE DEF f
  <2>12. Middle(s, f, e.vm) /\ Owned(f)
    BY <2>7, <2>11, AsideKeepsMiddle DEF Owned
  <2> QED
    BY <2>5, <2>12, FinishKeepsTInv
<1>6. ASSUME db.nVdbeWrite = 0, NEW full \in BOOLEAN,
             LET h == Halt(d, e.vm, full)
             IN  \/ Apply(s, CloseSavepoints(h.db), h.vm)
                 \/ Apply(s, [h.db EXCEPT !.autoCommit = FALSE], h.vm)
      PROVE  TInv'
  <2> DEFINE h == Halt(d, e.vm, full)
             f == [h.db EXCEPT !.autoCommit = FALSE]
  <2>1. /\ Middle(s, d, e.vm) /\ d.nVdbeWrite = One(IsWriter(e.vm.sql))
        /\ IsReader(e.vm.sql)
    BY <1>1, <1>3, <1>6, CommittingMiddle DEF Middle
  <2> HIDE DEF d
  <2>2. CASE Apply(s, CloseSavepoints(h.db), h.vm)
    BY <2>1, <2>2, HaltAndCloseKeepsTInv
  <2>3. CASE Apply(s, f, h.vm)
    <3>1. /\ h.db \in DbType /\ h.vm \in VmType /\ h.vm.magic = "halt"
          /\ Pending(h.db) /\ OthersHold(s, h.db)
          /\ h.db.nStatement <= Cardinality(OtherHolders(s))
      BY <2>1, HaltEnds DEF IInv
    <3> HIDE DEF h
    <3>2. /\ f \in DbType /\ Pending(f) /\ OthersHold(s, f) /\ Owned(f)
          /\ f.nStatement = h.db.nStatement
      BY <3>1 DEF DbType, Pending, OthersHold, Owned
    <3> HIDE DEF f
    <3> QED
      BY <2>3, <3>1, <3>2, IdleKeepsTInv DEF Busy
  <2> QED
    BY <1>6, <2>2, <2>3
<1> HIDE DEF Inner
<1> QED
  BY <1>2, <1>4, <1>5, <1>6
-----------------------------------------------------------------------------
\* The connection between two calls.
LEMMA IdleConnection ==
    ASSUME IInv, TInv, NEW s \in Stmts
    PROVE  /\ db \in DbType /\ Pending(db) /\ OthersHold(s, db) /\ Owned(db)
           /\ ~Busy(vm[s]) => db.nStatement <= Cardinality(OtherHolders(s))
<1>1. db \in DbType /\ Pending(db) /\ OthersHold(s, db) /\ Owned(db)
  BY DEF IInv, TypeOK, TInv, PendingOnlyInTransaction, Pending, TransactionIsOwned,
         Owned, ReadersHoldTransaction, OthersHold, UsesTable
<1>2. ASSUME ~Busy(vm[s])
      PROVE  db.nStatement <= Cardinality(OtherHolders(s))
  <2>1. OtherHolders(s) \subseteq Stmts
    BY DEF OtherHolders
  <2>2. Cardinality(OtherHolders(s)) \in Nat
    BY <2>1, VdbeAssumption, FS_Subset, FS_CardinalityType
  <2>3. One(Holds(vm[s])) = 0
    BY <1>2 DEF Holds, One
  <2> QED
    BY <2>2, <2>3, HoldersSplit
<1> QED
  BY <1>1, <1>2

\* A call that halts s and leaves it idle.
LEMMA HaltedKeepsTInv ==
    ASSUME IInv, TInv, NEW s \in Stmts, NEW full \in BOOLEAN, NEW w, ~Busy(w),
           w.magic = "run" => w.iStatement = 0, vm[s].magic # "dead",
           Apply(s, Halt(db, vm[s], full).db, w)
    PROVE  TInv'
<1> DEFINE d == Halt(db, vm[s], full).db
<1>1. /\ d \in DbType /\ Pending(d) /\ OthersHold(s, d) /\ Owned(d)
      /\ d.nStatement <= Cardinality(OtherHolders(s))
  <2>1. CASE Busy(vm[s])
    <3>1. Middle(s, db, vm[s]) /\ Owned(db)
      BY <2>1, EnteredMiddle
    <3> QED
      BY <3>1, HaltEnds DEF IInv
  <2>2. CASE ~Busy(vm[s])
    <3>1. d = db
      BY <2>2 DEF Halt, Busy
    <3> HIDE DEF d
    <3> QED
      BY <2>2, <3>1, IdleConnection
  <2> QED
    BY <2>1, <2>2
<1>2. Apply(s, d, w)
  OBVIOUS
<1> HIDE DEF d
<1> QED
  BY <1>1, <1>2, IdleKeepsTInv

\* sqlite3_reset.
LEMMA ResetKeepsTInv ==
    ASSUME IInv, TInv, NEW s \in Stmts, Reset(s)
    PROVE  TInv'
<1>1. PICK full \in BOOLEAN :
         LET h == Halt(db, vm[s], full) IN Apply(s, h.db, Rewind(h.vm))
  BY VdbeAssumption DEF Reset
<1> DEFINE v == Halt(db, vm[s], full).vm
<1>2. v \in VmType
  BY HaltAny
<1>3. Apply(s, Halt(db, vm[s], full).db, Rewind(v)) /\ vm[s].magic # "dead"
  BY <1>1 DEF Reset
<1> HIDE DEF v
<1>4. ~Busy(Rewind(v)) /\ Rewind(v).iStatement = 0
  BY <1>2 DEF Rewind, Busy, VmType
<1> QED
  BY <1>3, <1>4, HaltedKeepsTInv

\* sqlite3_finalize.
LEMMA FinalizeKeepsTInv ==
    ASSUME IInv, TInv, NEW s \in Stmts, Finalize(s)
    PROVE  TInv'
<1>1. PICK full \in BOOLEAN : Apply(s, Halt(db, vm[s], full).db, Dead)
  BY VdbeAssumption DEF Finalize
<1>2. ~Busy(Dead) /\ Dead.magic = "dead" /\ vm[s].magic # "dead"
  BY DeadType DEF Dead, Fresh, Finalize
<1> QED
  BY <1>1, <1>2, HaltedKeepsTInv

\* sqlite3_prepare_v2.
LEMMA PrepareKeepsTInv ==
    ASSUME IInv, TInv, NEW s \in Stmts, NEW q \in Sqls, Prepare(s, q)
    PROVE  TInv'
<1>1. ~Busy(Fresh(q)) /\ Fresh(q).iStatement = 0
  BY DEF Fresh, Busy
<1>2. ~Busy(vm[s]) /\ Apply(s, db, Fresh(q))
  BY DEF Prepare, Busy, Apply
<1> QED
  BY <1>1, <1>2, IdleConnection, IdleKeepsTInv

\* A call that changes only the parameters of s.
LEMMA QuietKeepsTInv ==
    ASSUME IInv, TInv, NEW s \in Stmts, NEW w, Apply(s, db, w),
           w.sql = vm[s].sql, w.magic = vm[s].magic, w.started = vm[s].started,
           w.iStatement = vm[s].iStatement
    PROVE  TInv'
<1>1. (Busy(w) <=> Busy(vm[s])) /\ (Holds(w) <=> Holds(vm[s]))
  BY DEF Busy, Holds
<1>2. Pending(db) /\ OthersHold(s, db) /\ Owned(db)
  BY IdleConnection
<1>3. db.nStatement <= Cardinality(OtherHolders(s)) + One(Holds(w))
  BY <1>1, HoldersSplit DEF One
<1>4. Busy(w) /\ UsesTable(w.sql) => db.inTrans # "none"
  BY <1>1 DEF TInv, ReadersHoldTransaction, UsesTable
<1>5. /\ Holds(w) => IsWriter(w.sql)
      /\ w.magic = "run" /\ ~w.started => w.iStatement = 0
  BY <1>1 DEF TInv, StatementsHeld
<1> QED
  BY <1>2, <1>3, <1>4, <1>5, MoveKeepsTInv

\* sqlite3_bind_*.
LEMMA BindKeepsTInv ==
    ASSUME IInv, TInv, NEW s \in Stmts, NEW p \in Params, NEW value,
           Bind(s, p, value)
    PROVE  TInv'
<1> DEFINE w == [vm[s] EXCEPT !.aVar[p] = value]
<1>1. vm[s] \in VmType /\ Apply(s, db, w)
  BY DEF Bind, IInv, TypeOK, Apply
<1>2. w.sql = vm[s].sql /\ w.magic = vm[s].magic /\ w.started = vm[s].started
      /\ w.iStatement = vm[s].iStatement
  BY <1>1 DEF VmType
<1> HIDE DEF w
<1> QED
  BY <1>1, <1>2, QuietKeepsTInv

\* sqlite3_clear_bindings.
LEMMA ClearBindingsKeepsTInv ==
    ASSUME IInv, TInv, NEW s \in Stmts, ClearBindings(s)
    PROVE  TInv'
<1> DEFINE w == [vm[s] EXCEPT !.aVar = Unbound]
<1>1. vm[s] \in VmType /\ Apply(s, db, w)
  BY DEF ClearBindings, IInv, TypeOK, Apply
<1>2. w.sql = vm[s].sql /\ w.magic = vm[s].magic /\ w.started = vm[s].started
      /\ w.iStatement = vm[s].iStatement
  BY <1>1 DEF VmType
<1> HIDE DEF w
<1> QED
  BY <1>1, <1>2, QuietKeepsTInv
-----------------------------------------------------------------------------
\* A connection that was just opened has no transaction.
LEMMA InitTInv == Init => TInv
<1> SUFFICES ASSUME Init PROVE TInv
  OBVIOUS
<1>1. \A s \in Stmts : ~Busy(vm[s]) /\ vm[s].magic = "dead"
  BY DeadType DEF Init, Dead, Fresh
<1>2. {t \in Stmts : Holds(vm[t])} = {}
  BY <1>1 DEF Holds
<1>3. StatementsHeld
  <2>1. db.nStatement <= Cardinality({t \in Stmts : Holds(vm[t])})
    BY <1>2, FS_EmptySet DEF Init
  <2>2. \A t \in Stmts : ~Holds(vm[t]) /\ vm[t].magic # "run"
    BY <1>1 DEF Holds
  <2> QED
    BY <2>1, <2>2 DEF StatementsHeld
<1> QED
  BY <1>1, <1>3
     DEF Init, TInv, PendingOnlyInTransaction, TransactionIsOwned,
         ReadersHoldTransaction

\* Every call keeps the invariants.
LEMMA StepTInv == IInv /\ TInv /\ [Next]_vars => TInv'
<1> SUFFICES ASSUME IInv, TInv, [Next]_vars PROVE TInv'
  OBVIOUS
<1>1. CASE UNCHANGED vars
  BY <1>1 DEF TInv, PendingOnlyInTransaction, TransactionIsOwned,
              ReadersHoldTransaction, StatementsHeld, Holds, Busy, vars
<1>2. ASSUME NEW s \in Stmts, Step(s)
      PROVE  TInv'
  BY <1>2, StepSelectKeepsTInv, StepValueKeepsTInv, StartInsertKeepsTInv,
     StartDeleteKeepsTInv, StepReturningKeepsTInv, StepBeginKeepsTInv,
     StepCommitKeepsTInv, StepRollbackKeepsTInv, StepSavepointKeepsTInv,
     StepReleaseKeepsTInv, StepRollbackToKeepsTInv DEF Step
<1>3. CASE Next
  BY <1>2, <1>3, PrepareKeepsTInv, BindKeepsTInv, ClearBindingsKeepsTInv,
     ResetKeepsTInv, FinalizeKeepsTInv DEF Next
<1> QED
  BY <1>1, <1>3

\* The invariants of the transaction hold for any number of statements.
LEMMA TransactionInvariant == Spec => [](IInv /\ TInv)
<1>1. Init => IInv /\ TInv
  BY InitIInv, InitTInv
<1>2. (IInv /\ TInv) /\ [Next]_vars => (IInv /\ TInv)'
  BY StepIInv, StepTInv
<1> QED
  BY <1>1, <1>2, PTL DEF Spec

\* Outside BEGIN no transaction outlives the statements that need it, in
\* whatever order they end, fail, are reset or roll each other back.
THEOREM TransactionOwned == Spec => []TransactionIsOwned
<1>1. TInv => TransactionIsOwned
  BY DEF TInv
<1> QED
  BY <1>1, TransactionInvariant, PTL

\* No statement loses the transaction under which it reads.
THEOREM ReadersKeepTransaction == Spec => []ReadersHoldTransaction
<1>1. TInv => ReadersHoldTransaction
  BY DEF TInv
<1> QED
  BY <1>1, TransactionInvariant, PTL

\* Outside a write transaction there is nothing that a commit would make
\* durable, and no savepoint to roll back to.
THEOREM NothingPendingOutside == Spec => []PendingOnlyInTransaction
<1>1. TInv => PendingOnlyInTransaction
  BY DEF TInv
<1> QED
  BY <1>1, TransactionInvariant, PTL

\* When the last writer ends, every statement transaction has been closed:
\* none is left over whose number the next statement would take again.
THEOREM StatementTransactionsClosed == Spec => []StatementsClosed
<1>1. IInv /\ TInv => StatementsClosed
  <2> SUFFICES ASSUME IInv, TInv, db.nVdbeWrite = 0 PROVE db.nStatement = 0
    BY DEF StatementsClosed
  <2> DEFINE W == {s \in Stmts : Busy(vm[s]) /\ IsWriter(vm[s].sql)}
  <2>1. Cardinality(W) = 0
    BY DEF IInv, CountersAgree
  <2>2. W \subseteq Stmts
    OBVIOUS
  <2>3. {t \in Stmts : Holds(vm[t])} \subseteq W
    BY DEF TInv, StatementsHeld, Holds
  <2> HIDE DEF W
  <2>4. W = {}
    BY <2>1, <2>2, VdbeAssumption, FS_Subset, FS_EmptySet
  <2>5. Cardinality({t \in Stmts : Holds(vm[t])}) = 0
    BY <2>3, <2>4, FS_EmptySet
  <2>6. db.nStatement \in Nat
    BY DEF IInv, TypeOK, DbType
  <2> QED
    BY <2>5, <2>6 DEF TInv, StatementsHeld
<1> QED
  BY <1>1, TransactionInvariant, PTL
-----------------------------------------------------------------------------
\* Only a commit changes the committed content.
LEMMA DiskKept ==
    ASSUME NEW d \in DbType
    PROVE  /\ EndTransaction(d).disk = d.disk
           /\ RollbackAll(d).disk = d.disk
           /\ CloseSavepoints(d).disk = d.disk
           /\ AbandonTransaction(d).disk = d.disk
           /\ BeginRead(d).disk = d.disk
           /\ BeginWrite(d).disk = d.disk
           /\ \A n : OpenSavepoint(d, n).disk = d.disk
           /\ \A i : SavepointRollback(d, i).disk = d.disk
           /\ \A i : SavepointRelease(d, i).disk = d.disk
           /\ \A i : Popped(d, i).disk = d.disk
<1>1. EndTransaction(d).disk = d.disk /\ CloseSavepoints(d).disk = d.disk
      /\ BeginRead(d).disk = d.disk
  BY DEF EndTransaction, CloseSavepoints, BeginRead, DbType
<1>2. RollbackAll(d).disk = d.disk
  BY DEF RollbackAll, EndTransaction, DbType
<1>3. AbandonTransaction(d).disk = d.disk
  BY <1>2, RollbackAllStep DEF AbandonTransaction, CloseSavepoints, PagerStep, DbType
<1>4. \A n : OpenSavepoint(d, n).disk = d.disk
  BY DEF OpenSavepoint, DbType
<1>5. BeginWrite(d).disk = d.disk
  BY DEF BeginWrite, OpenSavepoint, DbType
<1>6. \A i : /\ SavepointRollback(d, i).disk = d.disk
             /\ SavepointRelease(d, i).disk = d.disk
             /\ Popped(d, i).disk = d.disk
  BY DEF SavepointRollback, SavepointRelease, Popped, DbType
<1> QED
  BY <1>1, <1>2, <1>3, <1>4, <1>5, <1>6

\* The end of a statement commits only when the statement is the only writer
\* in autocommit mode, and then keeps its result code.
LEMMA EndOfStatementCommits ==
    ASSUME NEW d \in DbType, NEW v \in VmType, NEW full \in BOOLEAN
    PROVE  LET h == EndOfStatement(d, v, full)
           IN  /\ h.vm.aVar = v.aVar
               /\ h.vm.rc \in {v.rc, "full"}
               /\ h.db.disk # d.disk =>
                     /\ h.db.disk = h.db.work
                     /\ h.db.autoCommit
                     /\ d.nVdbeWrite = One(IsWriter(v.sql))
                     /\ h.vm.rc = v.rc
<1> DEFINE special  == v.rc = "nomem"
           stmtUndo == special /\ UsesStmtJournal(v.sql)
           d1       == IF special /\ ~stmtUndo THEN AbandonTransaction(d) ELSE d
           keep     == v.rc = "ok" \/ (v.errorAction = "fail" /\ ~special)
           c        == BtreeCommit(d1)
           hc       == [db |-> [c EXCEPT !.nStatement = 0], vm |-> v]
           hr       == [db |-> [RollbackAll(d1) EXCEPT !.nStatement = 0],
                        vm |-> IF keep THEN [v EXCEPT !.rc = "full"] ELSE v]
           ha       == [db |-> AbandonTransaction(d1), vm |-> v]
           h        == EndOfStatement(d, v, full)
           Fits     == /\ h.vm.aVar = v.aVar
                       /\ h.vm.rc \in {v.rc, "full"}
                       /\ h.db.disk = d.disk
<1>1. d1 \in DbType /\ d1.disk = d.disk /\ d1.nVdbeWrite = d.nVdbeWrite
  BY AbandonTransactionStep, DiskKept DEF Halting
<1>2. \/ h = hc /\ OnlyWriter(d1, v)
      \/ h = hr \/ h = ha
      \/ \E undo \in BOOLEAN : h = CloseStatement(d1, v, undo)
  BY DEF EndOfStatement
<1> HIDE DEF d1, h, keep
<1>3. CASE h = hc /\ OnlyWriter(d1, v)
  <2>1. PagerStep(d1, c) /\ (c.disk = d1.disk \/ c.disk = c.work)
    <3>1. PagerStep(d1, c)
      BY <1>1, BtreeCommitStep
    <3>2. d1.inTrans = "write" => c.disk = c.work
      BY <1>1 DEF BtreeCommit, EndTransaction, DbType
    <3>3. d1.inTrans # "write" => c.disk = d1.disk
      BY <1>1, DiskKept DEF BtreeCommit
    <3> QED
      BY <3>1, <3>2, <3>3
  <2>2. h.db = [c EXCEPT !.nStatement = 0] /\ h.vm = v
    BY <1>3
  <2> HIDE DEF c
  <2>3. h.db.disk = c.disk /\ h.db.work = c.work /\ h.db.autoCommit = d1.autoCommit
    BY <2>1, <2>2 DEF PagerStep, DbType
  <2> QED
    BY <1>1, <1>3, <2>1, <2>2, <2>3 DEF OnlyWriter, One, h
<1>4. CASE h = hr
  <2>1. RollbackAll(d1).disk = d.disk /\ RollbackAll(d1) \in DbType
    BY <1>1, DiskKept, RollbackAllStep DEF PagerStep
  <2>2. h.db.disk = d.disk
    <3> HIDE DEF hc
    <3> DEFINE r == RollbackAll(d1)
    <3>1. h.db = [r EXCEPT !.nStatement = 0] /\ r \in DbType /\ r.disk = d.disk
      BY <1>4, <2>1
    <3> HIDE DEF r
    <3> QED
      BY <3>1 DEF DbType
  <2>3. h.vm = v \/ h.vm = [v EXCEPT !.rc = "full"]
    BY <1>4
  <2>4. h.vm.aVar = v.aVar /\ h.vm.rc \in {v.rc, "full"}
    BY <2>3 DEF VmType
  <2> QED
    BY <2>2, <2>4 DEF h
<1>5. CASE h = ha
  BY <1>1, <1>5, DiskKept DEF h
<1>6. CASE \E undo \in BOOLEAN : h = CloseStatement(d1, v, undo)
  <2>1. PICK undo \in BOOLEAN : h = CloseStatement(d1, v, undo)
    BY <1>6
  <2>2. h.db.disk = d.disk
    <3> DEFINE i == v.iStatement - 1
               e == IF undo THEN SavepointRollback(d1, i) ELSE d1
               f == SavepointRelease(e, i)
    <3>1. CASE d1.nStatement > 0 /\ v.iStatement # 0
      <4>1. i \in Nat /\ i \in Int /\ i >= -1
        BY <3>1 DEF VmType
      <4>2. e \in DbType /\ e.disk = d1.disk
        BY <1>1, <4>1, SavepointRollbackStep, DiskKept, ZenonT(40) DEF PagerStep
      <4> HIDE DEF e, i
      <4>3. f \in DbType /\ f.disk = d1.disk
        BY <4>1, <4>2, SavepointReleaseStep, DiskKept DEF PagerStep
      <4>4. h.db = [f EXCEPT !.nStatement = @ - 1]
        BY <2>1, <3>1 DEF CloseStatement, e, i
      <4> HIDE DEF f
      <4> QED
        BY <1>1, <4>3, <4>4 DEF DbType
    <3>2. CASE ~(d1.nStatement > 0 /\ v.iStatement # 0)
      BY <1>1, <2>1, <3>2 DEF CloseStatement
    <3> QED
      BY <3>1, <3>2
  <2>3. h.vm = v \/ h.vm = [v EXCEPT !.iStatement = 0]
    BY <2>1 DEF CloseStatement
  <2>4. h.vm.aVar = v.aVar /\ h.vm.rc = v.rc
    BY <2>3 DEF VmType
  <2> QED
    BY <2>2, <2>4 DEF h
<1> QED
  BY <1>2, <1>3, <1>4, <1>5, <1>6

\* sqlite3VdbeHalt of an active program: when it commits, no writer is left.
LEMMA HaltCommits ==
    ASSUME NEW d \in DbType, NEW v \in VmType, NEW full \in BOOLEAN, Busy(v)
    PROVE  LET h == Halt(d, v, full)
           IN  /\ h.vm.magic = "halt" /\ h.vm.aVar = v.aVar
               /\ h.vm.sql = v.sql /\ h.vm.rc \in {v.rc, "full"}
               /\ h.db.disk # d.disk =>
                     /\ h.db.disk = h.db.work
                     /\ h.db.autoCommit
                     /\ h.db.nVdbeWrite = 0
                     /\ h.vm.rc = v.rc
               /\ \A c \in {CloseSavepoints(h.db)} :
                     /\ c.disk = h.db.disk /\ c.work = h.db.work
                     /\ c.autoCommit = h.db.autoCommit
                     /\ c.nVdbeWrite = h.db.nVdbeWrite
               /\ [h.db EXCEPT !.autoCommit = FALSE].disk = h.db.disk
<1> DEFINE g == IF IsReader(v.sql) THEN EndOfStatement(d, v, full)
                                   ELSE [db |-> d, vm |-> v]
           e == g.db
           w == g.vm
           a == e.nVdbeActive - 1
           b == e.nVdbeWrite - One(IsWriter(v.sql))
           c == e.nVdbeRead - One(IsReader(v.sql))
           f == [e EXCEPT !.nVdbeActive = a, !.nVdbeWrite = b, !.nVdbeRead = c]
           x == [w EXCEPT !.magic = "halt", !.left = 0, !.at = 0]
<1>1. /\ e \in DbType /\ w \in VmType /\ e.nVdbeWrite = d.nVdbeWrite
      /\ w.sql = v.sql /\ w.aVar = v.aVar /\ w.rc \in {v.rc, "full"}
      /\ e.disk # d.disk => /\ e.disk = e.work /\ e.autoCommit
                            /\ d.nVdbeWrite = One(IsWriter(v.sql))
                            /\ w.rc = v.rc
  BY EndOfStatementStep, EndOfStatementCommits DEF Halting
<1>2. Halt(d, v, full) = [db |-> f, vm |-> x]
  BY DEF Halt, Busy, One
<1> HIDE DEF g
<1>3. /\ f.disk = e.disk /\ f.work = e.work /\ f.autoCommit = e.autoCommit
      /\ f.nVdbeWrite = b
      /\ CloseSavepoints(f).disk = f.disk /\ CloseSavepoints(f).work = f.work
      /\ CloseSavepoints(f).autoCommit = f.autoCommit
      /\ CloseSavepoints(f).nVdbeWrite = f.nVdbeWrite
      /\ [f EXCEPT !.autoCommit = FALSE].disk = f.disk
  <2> HIDE DEF a, b, c
  <2> QED
    BY <1>1 DEF DbType, CloseSavepoints
<1>4. x.sql = w.sql /\ x.aVar = w.aVar /\ x.rc = w.rc /\ x.magic = "halt"
  BY <1>1 DEF VmType
<1>5. d.nVdbeWrite = One(IsWriter(v.sql)) => b = 0
  BY <1>1 DEF One
<1> HIDE DEF f, x, b
<1> QED
  BY <1>1, <1>2, <1>3, <1>4, <1>5
-----------------------------------------------------------------------------
\* Only a program that has halted has a result code.
RunningIsOk == \A s \in Stmts : vm[s].magic = "run" => vm[s].rc = "ok"

\* In the middle of a step, before its end: the program has its parameters and
\* no result code yet, and nothing was committed.
Midway(s, d, v) ==
    /\ d \in DbType /\ d.disk = db.disk
    /\ v \in VmType /\ v.sql = vm[s].sql /\ Busy(v)
    /\ v.aVar = vm[s].aVar /\ v.rc = "ok"

Codes == {"ok", "error", "busy", "constraint", "nomem", "full"}

\* A step after which s is active.
Stays(s) == \E d, v : Midway(s, d, v) /\ Apply(s, d, v)

\* From d to e: after the halt a statement that ended the transaction drops
\* the savepoints, or goes back into the transaction it failed to commit.
AfterHalt(d, rc, e) ==
    \/ e = d
    \/ e = CloseSavepoints(d)
    \/ rc # "ok" /\ e = [d EXCEPT !.autoCommit = FALSE]

\* A step that ends s with the result code rc, or because the commit fails.
Ends(s) ==
    \E d, v, e : \E rc \in Codes : \E full \in BOOLEAN :
        LET h == Halt(d, [v EXCEPT !.rc = rc], full)
        IN  /\ Midway(s, d, v)
            /\ AfterHalt(h.db, IF rc = "ok" THEN h.vm.rc ELSE "ok", e)
            /\ Apply(s, e, h.vm)

\* The entry of sqlite3_step.
LEMMA EnterMidway ==
    ASSUME IInv, RunningIsOk, NEW s \in Stmts, vm[s].magic # "dead"
    PROVE  LET e == Enter(s) IN Midway(s, e.db, e.vm)
<1> DEFINE v == IF vm[s].magic = "halt" THEN Rewind(vm[s]) ELSE vm[s]
           e == Enter(s)
<1>1. e.db \in DbType /\ e.vm \in VmType /\ e.vm.sql = vm[s].sql /\ Busy(e.vm)
  BY Entered DEF Running
<1>2. db \in DbType /\ vm[s] \in VmType
  BY DEF IInv, TypeOK
<1>3. v \in VmType /\ v.aVar = vm[s].aVar /\ v.rc = "ok"
  <2>1. CASE vm[s].magic = "halt"
    BY <1>2, <2>1, RewindType DEF Rewind, VmType
  <2>2. CASE vm[s].magic = "run"
    BY <1>2, <2>2 DEF RunningIsOk
  <2> QED
    BY <1>2, <2>1, <2>2 DEF VmType
<1>4. e.vm = v \/ e.vm = [v EXCEPT !.started = TRUE]
  BY DEF Enter
<1>5. e.db.disk = db.disk
  BY <1>2 DEF Enter, DbType
<1> HIDE DEF e, v
<1>6. e.vm.aVar = vm[s].aVar /\ e.vm.rc = "ok"
  BY <1>3, <1>4 DEF VmType
<1> QED
  BY <1>1, <1>5, <1>6 DEF Midway, e

\* A step that finishes its program ends it.
LEMMA FinishEnds ==
    ASSUME NEW s \in Stmts, NEW d, NEW v, Midway(s, d, v), NEW rc \in Codes,
           Finish(s, d, v, rc)
    PROVE  Ends(s)
<1>1. PICK full \in BOOLEAN :
         LET h == Halt(d, [v EXCEPT !.rc = rc], full) IN Apply(s, h.db, h.vm)
  BY VdbeAssumption DEF Finish
<1> DEFINE h == Halt(d, [v EXCEPT !.rc = rc], full)
<1>2. Apply(s, h.db, h.vm)
  BY <1>1
<1> HIDE DEF Halt
<1> QED
  BY <1>2 DEF Ends, AfterHalt

\* A step that halts its program itself, with no result code set.
LEMMA HaltItselfEnds ==
    ASSUME NEW s \in Stmts, NEW d, NEW v, Midway(s, d, v), NEW full \in BOOLEAN,
           NEW e, LET h == Halt(d, v, full)
                  IN  AfterHalt(h.db, h.vm.rc, e) /\ Apply(s, e, h.vm)
    PROVE  Ends(s)
<1>1. [v EXCEPT !.rc = "ok"] = v
  BY DEF Midway, VmType
<1> DEFINE h == Halt(d, v, full)
<1>2. Halt(d, [v EXCEPT !.rc = "ok"], full) = h
  BY <1>1
<1>3. AfterHalt(h.db, h.vm.rc, e) /\ Apply(s, e, h.vm)
  OBVIOUS
<1> HIDE DEF h
<1>4. "ok" \in Codes
  BY DEF Codes
<1> QED
  BY <1>2, <1>3, <1>4 DEF Ends

\* A write.
LEMMA WriteMidway ==
    ASSUME NEW s \in Stmts, NEW d, NEW v, Midway(s, d, v), NEW K \in SUBSET Keys
    PROVE  Midway(s, [d EXCEPT !.work = K], v)
BY DEF Midway, DbType

\* The program of s moves on.
LEMMA ProgramMidway ==
    ASSUME NEW s \in Stmts, NEW d, NEW v, Midway(s, d, v), NEW w \in VmType,
           w.sql = v.sql, Busy(w), w.aVar = v.aVar, w.rc = v.rc
    PROVE  Midway(s, d, w)
BY DEF Midway

\* A pager operation that commits nothing.
LEMMA PagerMidway ==
    ASSUME NEW s \in Stmts, NEW d, NEW v, Midway(s, d, v), NEW e \in DbType,
           e.disk = d.disk
    PROVE  Midway(s, e, v)
BY DEF Midway

\* One step of a SELECT.
LEMMA StepSelectShape ==
    ASSUME IInv, RunningIsOk, NEW s \in Stmts, StepSelect(s)
    PROVE  Stays(s) \/ Ends(s)
<1> DEFINE e == Enter(s)
           d == IF Starting(s) THEN BeginRead(e.db) ELSE e.db
           ahead == {k \in d.work : k > e.vm.at}
<1>1. Midway(s, e.db, e.vm)
  BY EnterMidway DEF StepSelect, CanStep
<1>2. \/ \E k \in ahead : Apply(s, d, [e.vm EXCEPT !.at = k])
      \/ \E rc \in {"ok", "nomem"} : Finish(s, d, e.vm, rc)
  BY DEF StepSelect
<1> HIDE DEF e
<1>3. Midway(s, d, e.vm)
  <2>1. e.db \in DbType
    BY <1>1 DEF Midway
  <2> QED
    BY <1>1, <2>1, BeginReadStep, DiskKept, PagerMidway DEF PagerStep
<1>4. ASSUME NEW k \in ahead, Apply(s, d, [e.vm EXCEPT !.at = k])
      PROVE  Stays(s)
  <2> DEFINE w == [e.vm EXCEPT !.at = k]
  <2> HIDE DEF d
  <2>1. k \in Keys
    BY <1>3, <1>4 DEF Midway, DbType
  <2>2. w \in VmType /\ w.sql = e.vm.sql /\ Busy(w) /\ w.aVar = e.vm.aVar
        /\ w.rc = e.vm.rc
    BY <1>3, <2>1 DEF Midway, VmType, Busy
  <2>3. Apply(s, d, w)
    BY <1>4
  <2> HIDE DEF w
  <2> QED
    BY <1>3, <2>2, <2>3, ProgramMidway DEF Stays
<1>5. ASSUME NEW rc \in {"ok", "nomem"}, Finish(s, d, e.vm, rc)
      PROVE  Ends(s)
  <2> HIDE DEF d
  <2> QED
    BY <1>3, <1>5, FinishEnds DEF Codes
<1> QED
  BY <1>2, <1>4, <1>5

\* One step of a program that reads no table.
LEMMA StepValueShape ==
    ASSUME IInv, RunningIsOk, NEW s \in Stmts, StepValue(s)
    PROVE  Stays(s) \/ Ends(s)
<1> DEFINE e == Enter(s)
<1>1. Midway(s, e.db, e.vm)
  BY EnterMidway DEF StepValue, CanStep
<1>2. Apply(s, e.db, e.vm) \/ Finish(s, e.db, e.vm, "ok")
  BY DEF StepValue
<1> HIDE DEF e
<1> QED
  BY <1>1, <1>2, FinishEnds DEF Stays, Codes

\* OP_Transaction of a writer.
LEMMA OpenStatementMidway ==
    ASSUME NEW s \in Stmts, NEW d, NEW v, Midway(s, d, v)
    PROVE  LET o == OpenStatement(d, v) IN Midway(s, o.db, o.vm)
<1> DEFINE b == BeginWrite(d)
           n == d.nSavepoint + d.nStatement + 1
           c == [b EXCEPT !.nStatement = @ + 1]
           e == OpenSavepoint(c, n)
           w == [v EXCEPT !.iStatement = n]
<1>1. OpenStatement(d, v) \in {[db |-> e, vm |-> w], [db |-> b, vm |-> v]}
  BY DEF OpenStatement
<1>2. n \in Nat /\ d \in DbType /\ v \in VmType
  BY DEF Midway, DbType
<1>3. b \in DbType /\ b.disk = d.disk
  BY <1>2, BeginWriteStep, DiskKept DEF PagerStep
<1> HIDE DEF b, n
<1>4. c \in DbType /\ c.disk = d.disk
  <2>1. b.nStatement + 1 \in Nat
    BY <1>3 DEF DbType
  <2> QED
    BY <1>3, <2>1 DEF DbType
<1> HIDE DEF c
<1>5. e \in DbType /\ e.disk = d.disk
  BY <1>2, <1>4, OpenSavepointStep, DiskKept DEF PagerStep
<1>6. w \in VmType /\ w.sql = v.sql /\ Busy(w) /\ w.aVar = v.aVar /\ w.rc = v.rc
  BY <1>2 DEF Midway, VmType, Busy
<1> HIDE DEF e, w
<1>7. Midway(s, b, v)
  BY <1>3, PagerMidway
<1>8. Midway(s, e, w)
  <2>1. Midway(s, e, v)
    BY <1>5, PagerMidway
  <2> QED
    BY <1>6, <2>1, ProgramMidway
<1> QED
  BY <1>1, <1>7, <1>8

\* A writer whose rows are written.
LEMMA WrittenShape ==
    ASSUME NEW s \in Stmts, NEW d, NEW v, Midway(s, d, v), NEW n \in Nat,
           Written(s, d, v, n)
    PROVE  Stays(s) \/ Ends(s)
<1>1. CASE v.sql.returning /\ n > 0
  <2> DEFINE w == [v EXCEPT !.left = n - 1]
  <2>1. n - 1 \in Nat
    BY <1>1
  <2>2. w \in VmType /\ w.sql = v.sql /\ Busy(w) /\ w.aVar = v.aVar /\ w.rc = v.rc
    BY <2>1 DEF Midway, VmType, Busy
  <2>3. Apply(s, d, w)
    BY <1>1 DEF Written
  <2> HIDE DEF w
  <2> QED
    BY <2>2, <2>3, ProgramMidway DEF Stays
<1>2. CASE ~(v.sql.returning /\ n > 0)
  BY <1>2, FinishEnds DEF Written, Codes
<1> QED
  BY <1>1, <1>2

\* The step in which an INSERT writes, whether it completes or fails.
LEMMA StartInsertShape ==
    ASSUME IInv, RunningIsOk, NEW s \in Stmts, StartInsert(s)
    PROVE  Stays(s) \/ Ends(s)
<1> DEFINE e == Enter(s)
           o == OpenStatement(e.db, e.vm)
           rows == Rows(o.vm)
           clashes == {i \in 1..Len(rows) : Clash(o.db.work, rows, i)}
           With(n) == [o.db EXCEPT !.work = @ \cup Prefix(rows, n)]
           failed == [o.vm EXCEPT !.errorAction = o.vm.sql.onConflict]
<1>1. Midway(s, o.db, o.vm)
  <2>1. Midway(s, e.db, e.vm)
    BY EnterMidway DEF StartInsert, CanStep
  <2> HIDE DEF e
  <2> QED
    BY <2>1, OpenStatementMidway
<1>2. \/ clashes = {} /\ Written(s, With(Len(rows)), o.vm, Len(rows))
      \/ \E i \in clashes :
            /\ \A j \in clashes : i <= j
            /\ Finish(s, With(i - 1), failed, "constraint")
      \/ \E n \in 0..Len(rows) :
            /\ \A i \in clashes : n < i
            /\ Finish(s, With(n), o.vm, "nomem")
  BY DEF StartInsert
<1> HIDE DEF o
<1>3. o.vm \in VmType /\ o.db \in DbType /\ Len(rows) \in Nat
  BY <1>1, RowsType, LenProperties DEF Midway
<1>4. ASSUME NEW n \in 0..Len(rows), \A i \in clashes : n < i
      PROVE  Midway(s, With(n), o.vm)
  <2>1. \A i \in 1..n : ~Clash(o.db.work, rows, i)
    <3> TAKE i \in 1..n
    <3>1. i \in 1..Len(rows) /\ ~(n < i)
      BY <1>3
    <3> QED
      BY <1>4, <3>1
  <2>2. Prefix(rows, n) \subseteq Keys
    BY <1>3, <2>1, PrefixIsKeys
  <2>3. o.db.work \cup Prefix(rows, n) \in SUBSET Keys
    BY <1>3, <2>2 DEF DbType
  <2> QED
    BY <1>1, <2>3, WriteMidway
<1> HIDE DEF With, rows
<1>5. CASE clashes = {} /\ Written(s, With(Len(rows)), o.vm, Len(rows))
  <2>1. Len(rows) \in 0..Len(rows)
    BY <1>3
  <2> QED
    BY <1>3, <1>4, <1>5, <2>1, WrittenShape
<1>6. ASSUME NEW i \in clashes, \A j \in clashes : i <= j,
             Finish(s, With(i - 1), failed, "constraint")
      PROVE  Ends(s)
  <2>1. i - 1 \in 0..Len(rows) /\ \A j \in clashes : i - 1 < j
    BY <1>3, <1>6
  <2>2. Midway(s, With(i - 1), o.vm)
    BY <1>4, <2>1
  <2>3. failed \in VmType /\ failed.sql = o.vm.sql /\ Busy(failed)
        /\ failed.aVar = o.vm.aVar /\ failed.rc = o.vm.rc
    <3>1. o.vm.sql.onConflict \in {"abort", "fail", "rollback"}
      BY <1>3, SqlFields
    <3> QED
      BY <1>1, <1>3, <3>1 DEF Midway, VmType, Busy
  <2> HIDE DEF failed
  <2> QED
    BY <1>6, <2>2, <2>3, ProgramMidway, FinishEnds DEF Codes
<1>7. ASSUME NEW n \in 0..Len(rows), \A i \in clashes : n < i,
             Finish(s, With(n), o.vm, "nomem")
      PROVE  Ends(s)
  BY <1>4, <1>7, FinishEnds DEF Codes
<1> QED
  BY <1>2, <1>5, <1>6, <1>7

\* The step in which a DELETE writes.
LEMMA StartDeleteShape ==
    ASSUME IInv, RunningIsOk, NEW s \in Stmts, StartDelete(s)
    PROVE  Stays(s) \/ Ends(s)
<1> DEFINE e == Enter(s)
           o == OpenStatement(e.db, e.vm)
           victims == o.db.work \cap Prefix(Rows(o.vm), Len(o.vm.sql.rows))
           Without(K) == [o.db EXCEPT !.work = @ \ K]
<1>1. Midway(s, o.db, o.vm)
  <2>1. Midway(s, e.db, e.vm)
    BY EnterMidway DEF StartDelete, CanStep
  <2> HIDE DEF e
  <2> QED
    BY <2>1, OpenStatementMidway
<1>2. \/ Written(s, Without(victims), o.vm, Cardinality(victims))
      \/ \E K \in SUBSET victims : Finish(s, Without(K), o.vm, "nomem")
  BY DEF StartDelete
<1> HIDE DEF o
<1>3. o.db \in DbType /\ o.vm \in VmType
  BY <1>1 DEF Midway
<1>4. Cardinality(victims) \in Nat
  <2>1. IsFiniteSet(Prefix(Rows(o.vm), Len(o.vm.sql.rows)))
    BY <1>3, RowsType, PrefixIsFinite
  <2>2. IsFiniteSet(victims)
    BY <2>1, FS_Subset
  <2> QED
    BY <2>2, FS_CardinalityType
<1>5. ASSUME NEW K
      PROVE  Midway(s, Without(K), o.vm)
  <2>1. o.db.work \ K \in SUBSET Keys
    BY <1>3 DEF DbType
  <2> QED
    BY <1>1, <2>1, WriteMidway
<1> HIDE DEF victims, Without
<1> QED
  BY <1>2, <1>4, <1>5, WrittenShape, FinishEnds DEF Codes

\* A later step of a writer with a RETURNING clause.
LEMMA StepReturningShape ==
    ASSUME IInv, RunningIsOk, NEW s \in Stmts, StepReturning(s)
    PROVE  Stays(s) \/ Ends(s)
<1>1. Busy(vm[s]) /\ vm[s] \in VmType /\ db \in DbType
  BY DEF StepReturning, Starting, IInv, TypeOK
<1>2. Midway(s, db, vm[s])
  BY <1>1 DEF Midway, RunningIsOk, Busy
<1>3. CASE vm[s].left > 0 /\ Apply(s, db, [vm[s] EXCEPT !.left = @ - 1])
  <2> DEFINE w == [vm[s] EXCEPT !.left = @ - 1]
  <2>1. vm[s].left - 1 \in Nat
    BY <1>1, <1>3 DEF VmType
  <2>2. w \in VmType /\ w.sql = vm[s].sql /\ Busy(w) /\ w.aVar = vm[s].aVar
        /\ w.rc = vm[s].rc
    BY <1>1, <2>1 DEF VmType, Busy
  <2>3. Apply(s, db, w)
    BY <1>3
  <2> HIDE DEF w
  <2> QED
    BY <1>2, <2>2, <2>3, ProgramMidway DEF Stays
<1>4. CASE \E rc \in {"ok", "nomem"} : Finish(s, db, vm[s], rc)
  BY <1>2, <1>4, FinishEnds DEF Codes
<1> QED
  BY <1>3, <1>4 DEF StepReturning

\* Changing autoCommit commits nothing by itself.
LEMMA AutoCommitMidway ==
    ASSUME NEW s \in Stmts, NEW d, NEW v, Midway(s, d, v), NEW b \in BOOLEAN
    PROVE  Midway(s, [d EXCEPT !.autoCommit = b], v)
BY DEF Midway, DbType

\* BEGIN.
LEMMA StepBeginShape ==
    ASSUME IInv, RunningIsOk, NEW s \in Stmts, StepBegin(s)
    PROVE  Stays(s) \/ Ends(s)
<1> DEFINE e == Enter(s)
           d == [e.db EXCEPT !.autoCommit = FALSE]
           h == Halt(d, e.vm, FALSE)
<1>1. Midway(s, e.db, e.vm)
  BY EnterMidway DEF StepBegin, CanStep
<1>2. Apply(s, CloseSavepoints(h.db), h.vm) \/ Finish(s, e.db, e.vm, "error")
  BY DEF StepBegin
<1> HIDE DEF e
<1>3. Midway(s, d, e.vm)
  BY <1>1, AutoCommitMidway
<1> HIDE DEF d
<1> QED
  BY <1>1, <1>2, <1>3, FinishEnds, HaltItselfEnds DEF Codes, AfterHalt

\* COMMIT, refused, failed or done.
LEMMA StepCommitShape ==
    ASSUME IInv, RunningIsOk, NEW s \in Stmts, StepCommit(s)
    PROVE  Stays(s) \/ Ends(s)
<1> DEFINE e == Enter(s)
           d == [e.db EXCEPT !.autoCommit = TRUE]
<1>1. Midway(s, e.db, e.vm)
  BY EnterMidway DEF StepCommit, CanStep
<1>2. \/ \E rc \in {"error", "busy"} : Finish(s, e.db, e.vm, rc)
      \/ \E full \in BOOLEAN :
            LET h == Halt(d, e.vm, full) IN Apply(s, CloseSavepoints(h.db), h.vm)
  BY VdbeAssumption DEF StepCommit
<1> HIDE DEF e
<1>3. Midway(s, d, e.vm)
  BY <1>1, AutoCommitMidway
<1> HIDE DEF d
<1>4. ASSUME NEW full \in BOOLEAN,
             LET h == Halt(d, e.vm, full) IN Apply(s, CloseSavepoints(h.db), h.vm)
      PROVE  Ends(s)
  BY <1>3, <1>4, HaltItselfEnds DEF AfterHalt
<1> QED
  BY <1>1, <1>2, <1>4, FinishEnds DEF Codes

\* ROLLBACK.
LEMMA StepRollbackShape ==
    ASSUME IInv, RunningIsOk, NEW s \in Stmts, StepRollback(s)
    PROVE  Stays(s) \/ Ends(s)
<1> DEFINE e == Enter(s)
           r == RollbackAll(e.db)
           d == [r EXCEPT !.autoCommit = TRUE]
           h == Halt(d, e.vm, FALSE)
<1>1. Midway(s, e.db, e.vm)
  BY EnterMidway DEF StepRollback, CanStep
<1>2. Apply(s, CloseSavepoints(h.db), h.vm) \/ Finish(s, e.db, e.vm, "error")
  BY DEF StepRollback
<1> HIDE DEF e
<1>3. Midway(s, r, e.vm)
  <2>1. e.db \in DbType
    BY <1>1 DEF Midway
  <2> QED
    BY <1>1, <2>1, RollbackAllStep, DiskKept, PagerMidway DEF PagerStep
<1> HIDE DEF r
<1>4. Midway(s, d, e.vm)
  BY <1>3, AutoCommitMidway
<1> HIDE DEF d
<1> QED
  BY <1>1, <1>2, <1>4, FinishEnds, HaltItselfEnds DEF Codes, AfterHalt

\* A step that changes only the list of savepoints.
LEMMA ListMidway ==
    ASSUME NEW s \in Stmts, NEW d, NEW v, Midway(s, d, v),
           NEW a \in Seq(Names), NEW n \in Nat, NEW b \in BOOLEAN, NEW t \in BOOLEAN
    PROVE  /\ Midway(s, [d EXCEPT !.pSavepoint = a], v)
           /\ Midway(s, [d EXCEPT !.pSavepoint = a, !.nSavepoint = n], v)
           /\ Midway(s, [d EXCEPT !.nSavepoint = n], v)
           /\ Midway(s, [d EXCEPT !.autoCommit = b, !.isTransactionSavepoint = t], v)
BY DEF Midway, DbType

\* SAVEPOINT, as the start of a transaction or inside one.
LEMMA StepSavepointShape ==
    ASSUME IInv, RunningIsOk, NEW s \in Stmts, StepSavepoint(s)
    PROVE  Stays(s) \/ Ends(s)
<1> DEFINE e == Enter(s)
           a == Append(e.db.pSavepoint, e.vm.sql.name)
           p == [e.db EXCEPT !.pSavepoint = a]
           t == [p EXCEPT !.autoCommit = FALSE, !.isTransactionSavepoint = TRUE]
           n == p.nSavepoint + 1
           u == [p EXCEPT !.nSavepoint = n]
<1>1. Midway(s, e.db, e.vm)
  BY EnterMidway DEF StepSavepoint, CanStep
<1>2. \/ \E rc \in {"busy", "nomem"} : Finish(s, e.db, e.vm, rc)
      \/ Finish(s, t, e.vm, "ok")
      \/ Finish(s, u, e.vm, "ok")
  BY DEF StepSavepoint
<1> HIDE DEF e
<1>3. a \in Seq(Names)
  <2>1. e.db.pSavepoint \in Seq(Names) /\ e.vm.sql.name \in Names
    BY <1>1, SqlFields DEF Midway, DbType
  <2> QED
    BY <2>1, AppendProperties
<1> HIDE DEF a
<1>4. Midway(s, p, e.vm)
  BY <1>1, <1>3, ListMidway
<1> HIDE DEF p
<1>5. n \in Nat
  BY <1>4 DEF Midway, DbType
<1> HIDE DEF n
<1>6. Midway(s, t, e.vm) /\ Midway(s, u, e.vm)
  <2>1. <<>> \in Seq(Names)
    BY EmptySeq
  <2> QED
    BY <1>4, <1>5, <2>1, ListMidway
<1> HIDE DEF t, u
<1> QED
  BY <1>1, <1>2, <1>6, FinishEnds DEF Codes

\* The savepoints after position i are dropped.
LEMMA PoppedMidway ==
    ASSUME IInv, NEW s \in Stmts, vm[s].magic # "dead", NEW d, d = Enter(s).db,
           NEW v, Midway(s, d, v), NEW i \in DOMAIN db.pSavepoint
    PROVE  LET p == Popped(d, i)
           IN  /\ Midway(s, p, v) /\ i \in Nat \ {0} /\ Len(p.pSavepoint) = i
               /\ p.nSavepoint = i - One(db.isTransactionSavepoint)
<1>1. Running(s, d) /\ SavepointsAgreeIn(d) /\ SameSavepoints(db, d)
  BY Entered
<1>2. i \in DOMAIN d.pSavepoint
  BY <1>1 DEF SameSavepoints
<1> DEFINE p == Popped(d, i)
<1>3. /\ Running(s, p) /\ i \in Nat \ {0} /\ Len(p.pSavepoint) = i
      /\ p.nSavepoint = i - One(d.isTransactionSavepoint)
  BY <1>1, <1>2, PoppedKeepsRunning
<1>4. p \in DbType /\ p.disk = d.disk
  BY <1>3, DiskKept DEF Midway, Running
<1> HIDE DEF p
<1>5. Midway(s, p, v)
  BY <1>4, PagerMidway
<1> QED
  BY <1>1, <1>3, <1>5 DEF SameSavepoints, p

\* ROLLBACK TO.
LEMMA StepRollbackToShape ==
    ASSUME IInv, RunningIsOk, NEW s \in Stmts, StepRollbackTo(s)
    PROVE  Stays(s) \/ Ends(s)
<1> DEFINE e == Enter(s)
<1>1. Midway(s, e.db, e.vm) /\ vm[s].magic # "dead"
  BY EnterMidway DEF StepRollbackTo, CanStep
<1>2. \/ \E rc \in {"error", "nomem"} : Finish(s, e.db, e.vm, rc)
      \/ \E i \in DOMAIN db.pSavepoint :
            Finish(s, SavepointRollback(Popped(e.db, i), BtreeIndex(i)), e.vm, "ok")
  BY DEF StepRollbackTo
<1>3. ASSUME NEW i \in DOMAIN db.pSavepoint,
             Finish(s, SavepointRollback(Popped(e.db, i), BtreeIndex(i)), e.vm, "ok")
      PROVE  Ends(s)
  <2> DEFINE p == Popped(e.db, i)
             r == SavepointRollback(p, BtreeIndex(i))
  <2>1. Midway(s, p, e.vm) /\ i \in Nat \ {0}
    BY <1>1, PoppedMidway
  <2>2. BtreeIndex(i) \in Int /\ BtreeIndex(i) >= -1
    BY <2>1, BtreeIndexValue DEF One
  <2>3. Finish(s, r, e.vm, "ok")
    BY <1>3
  <2> HIDE DEF p, e
  <2>4. r \in DbType /\ r.disk = p.disk
    BY <2>1, <2>2, SavepointRollbackStep, DiskKept DEF Midway, PagerStep
  <2> HIDE DEF r
  <2> QED
    BY <2>1, <2>3, <2>4, PagerMidway, FinishEnds DEF Codes
<1> HIDE DEF e
<1> QED
  BY <1>1, <1>2, <1>3, FinishEnds DEF Codes

\* RELEASE of a nested savepoint, or of the transaction savepoint, whose
\* commit may fail.
LEMMA StepReleaseShape ==
    ASSUME IInv, RunningIsOk, NEW s \in Stmts, StepRelease(s)
    PROVE  Stays(s) \/ Ends(s)
<1> DEFINE e == Enter(s)
           Inner(i) == [SavepointRelease(Popped(e.db, i), BtreeIndex(i)) EXCEPT
                           !.pSavepoint = SubSeq(@, 1, i - 1), !.nSavepoint = @ - 1]
           d == [e.db EXCEPT !.autoCommit = TRUE]
<1>1. Midway(s, e.db, e.vm) /\ vm[s].magic # "dead"
  BY EnterMidway DEF StepRelease, CanStep
<1>2. \/ \E rc \in {"error", "busy"} : Finish(s, e.db, e.vm, rc)
      \/ \E i \in DOMAIN db.pSavepoint :
            ~(i = 1 /\ db.isTransactionSavepoint) /\ Finish(s, Inner(i), e.vm, "ok")
      \/ \E full \in BOOLEAN :
            LET h == Halt(d, e.vm, full)
            IN  \/ Apply(s, CloseSavepoints(h.db), h.vm)
                \/ h.vm.rc # "ok" /\ Apply(s, [h.db EXCEPT !.autoCommit = FALSE], h.vm)
  BY VdbeAssumption DEF StepRelease
<1>3. ASSUME NEW i \in DOMAIN db.pSavepoint, ~(i = 1 /\ db.isTransactionSavepoint),
             Finish(s, Inner(i), e.vm, "ok")
      PROVE  Ends(s)
  <2> DEFINE p == Popped(e.db, i)
             r == SavepointRelease(p, BtreeIndex(i))
             a == SubSeq(r.pSavepoint, 1, i - 1)
             n == r.nSavepoint - 1
             f == [r EXCEPT !.pSavepoint = a, !.nSavepoint = n]
  <2>1. /\ Midway(s, p, e.vm) /\ i \in Nat \ {0} /\ Len(p.pSavepoint) = i
        /\ p.nSavepoint = i - One(db.isTransactionSavepoint)
    BY <1>1, PoppedMidway
  <2>2. BtreeIndex(i) \in Nat
    BY <1>3, <2>1, BtreeIndexValue DEF One
  <2>3. Finish(s, f, e.vm, "ok")
    BY <1>3
  <2> HIDE DEF p, e
  <2>4. PagerStep(p, r) /\ r.disk = p.disk
    BY <2>1, <2>2, SavepointReleaseStep, DiskKept DEF Midway
  <2>5. Midway(s, r, e.vm)
    BY <2>1, <2>4, PagerMidway DEF PagerStep
  <2> HIDE DEF r
  <2>6. n \in Nat
    BY <1>3, <2>1, <2>4 DEF PagerStep, One
  <2>7. a \in Seq(Names)
    <3>1. r.pSavepoint \in Seq(Names) /\ Len(r.pSavepoint) = i
      BY <2>1, <2>4 DEF PagerStep, DbType
    <3>2. \A j \in 1..(i - 1) : r.pSavepoint[j] \in Names
      BY <2>1, <3>1, ElementOfSeq
    <3> QED
      BY <2>1, <3>1, <3>2, SubSeqProperties
  <2> HIDE DEF a, n
  <2>8. Midway(s, f, e.vm)
    BY <2>5, <2>6, <2>7, ListMidway
  <2> HIDE DEF f
  <2> QED
    BY <2>3, <2>8, FinishEnds DEF Codes
<1> HIDE DEF Inner, e
<1>4. Midway(s, d, e.vm)
  BY <1>1, AutoCommitMidway
<1> HIDE DEF d
<1>5. ASSUME NEW full \in BOOLEAN,
             LET h == Halt(d, e.vm, full)
             IN  \/ Apply(s, CloseSavepoints(h.db), h.vm)
                 \/ h.vm.rc # "ok" /\ Apply(s, [h.db EXCEPT !.autoCommit = FALSE], h.vm)
      PROVE  Ends(s)
  BY <1>4, <1>5, HaltItselfEnds DEF AfterHalt
<1> QED
  BY <1>1, <1>2, <1>3, <1>5, FinishEnds DEF Codes

\* Every step of s either leaves it active or ends it.
LEMMA StepShape ==
    ASSUME IInv, RunningIsOk, NEW s \in Stmts, Step(s)
    PROVE  Stays(s) \/ Ends(s)
BY StepSelectShape, StepValueShape, StartInsertShape, StartDeleteShape,
   StepReturningShape, StepBeginShape, StepCommitShape, StepRollbackShape,
   StepSavepointShape, StepReleaseShape, StepRollbackToShape DEF Step
-----------------------------------------------------------------------------
\* The committed content, when it changed, is now the whole content, outside
\* a transaction and with no writer active.
CommittedWhole ==
    db'.disk # db.disk => db'.disk = db'.work /\ db'.autoCommit /\ db'.nVdbeWrite = 0

\* What every step keeps of its own program and of the others.
LEMMA StepKeeps ==
    ASSUME IInv, RunningIsOk, NEW s \in Stmts, Step(s)
    PROVE  /\ CommittedWhole
           /\ vm'[s].sql = vm[s].sql /\ vm'[s].aVar = vm[s].aVar
           /\ vm'[s].magic \in {"run", "halt"}
           /\ vm'[s].magic = "run" => vm'[s].rc = "ok"
           /\ \A t \in Stmts \ {s} : vm'[t] = vm[t]
<1>1. vm \in [Stmts -> VmType]
  BY DEF IInv, TypeOK
<1>2. CASE Stays(s)
  <2>1. PICK d, v : Midway(s, d, v) /\ Apply(s, d, v)
    BY <1>2 DEF Stays
  <2> QED
    BY <1>1, <2>1 DEF Midway, Apply, CommittedWhole, Busy
<1>3. CASE Ends(s)
  <2>1. PICK d, v, e : \E rc \in Codes : \E full \in BOOLEAN :
           LET h == Halt(d, [v EXCEPT !.rc = rc], full)
           IN  /\ Midway(s, d, v)
               /\ AfterHalt(h.db, IF rc = "ok" THEN h.vm.rc ELSE "ok", e)
               /\ Apply(s, e, h.vm)
    BY <1>3 DEF Ends
  <2>2. PICK rc \in Codes : \E full \in BOOLEAN :
           LET h == Halt(d, [v EXCEPT !.rc = rc], full)
           IN  /\ Midway(s, d, v)
               /\ AfterHalt(h.db, IF rc = "ok" THEN h.vm.rc ELSE "ok", e)
               /\ Apply(s, e, h.vm)
    BY <2>1
  <2>3. PICK full \in BOOLEAN :
           LET h == Halt(d, [v EXCEPT !.rc = rc], full)
           IN  /\ Midway(s, d, v)
               /\ AfterHalt(h.db, IF rc = "ok" THEN h.vm.rc ELSE "ok", e)
               /\ Apply(s, e, h.vm)
    BY <2>2
  <2> DEFINE w == [v EXCEPT !.rc = rc]
             h == Halt(d, w, full)
  <2>4. /\ w \in VmType /\ Busy(w) /\ w.aVar = vm[s].aVar /\ w.rc = rc
        /\ w.sql = vm[s].sql /\ d \in DbType /\ d.disk = db.disk
    BY <2>3 DEF Midway, VmType, Codes, Busy
  <2>5. /\ AfterHalt(h.db, IF rc = "ok" THEN h.vm.rc ELSE "ok", e)
        /\ Apply(s, e, h.vm)
    BY <2>3
  <2> HIDE DEF w
  <2>6. /\ h.vm.magic = "halt" /\ h.vm.aVar = w.aVar /\ h.vm.sql = w.sql
        /\ h.db.disk # d.disk => /\ h.db.disk = h.db.work
                                 /\ h.db.autoCommit
                                 /\ h.db.nVdbeWrite = 0
                                 /\ h.vm.rc = rc
        /\ \A c \in {CloseSavepoints(h.db)} :
              /\ c.disk = h.db.disk /\ c.work = h.db.work
              /\ c.autoCommit = h.db.autoCommit
              /\ c.nVdbeWrite = h.db.nVdbeWrite
        /\ [h.db EXCEPT !.autoCommit = FALSE].disk = h.db.disk
    BY <2>4, HaltCommits
  <2> HIDE DEF h
  <2>7. e.disk # d.disk => e.disk = e.work /\ e.autoCommit /\ e.nVdbeWrite = 0
    <3>1. CASE e \in {h.db, CloseSavepoints(h.db)}
      BY <2>6, <3>1
    <3>2. CASE /\ rc = "ok" /\ h.vm.rc # "ok"
               /\ e = [h.db EXCEPT !.autoCommit = FALSE]
      BY <2>6, <3>2
    <3> QED
      BY <2>5, <3>1, <3>2 DEF AfterHalt
  <2> QED
    BY <1>1, <2>4, <2>5, <2>6, <2>7 DEF Apply, CommittedWhole
<1> QED
  BY <1>2, <1>3, StepShape

\* sqlite3_reset and sqlite3_finalize commit only what is whole.
LEMMA HaltKeeps ==
    ASSUME IInv, NEW s \in Stmts, NEW full \in BOOLEAN, NEW w,
           Apply(s, Halt(db, vm[s], full).db, w)
    PROVE  CommittedWhole /\ vm'[s] = w /\ \A t \in Stmts \ {s} : vm'[t] = vm[t]
<1>1. db \in DbType /\ vm[s] \in VmType /\ vm \in [Stmts -> VmType]
  BY DEF IInv, TypeOK
<1>2. CASE Busy(vm[s])
  <2> DEFINE h == Halt(db, vm[s], full)
  <2>1. h.db.disk # db.disk => /\ h.db.disk = h.db.work
                               /\ h.db.autoCommit
                               /\ h.db.nVdbeWrite = 0
    BY <1>1, <1>2, HaltCommits
  <2>2. Apply(s, h.db, w)
    OBVIOUS
  <2> HIDE DEF h
  <2> QED
    BY <1>1, <2>1, <2>2 DEF Apply, CommittedWhole
<1>3. CASE ~Busy(vm[s])
  <2>1. Halt(db, vm[s], full).db = db
    BY <1>3 DEF Halt, Busy
  <2> QED
    BY <1>1, <2>1 DEF Apply, CommittedWhole
<1> QED
  BY <1>2, <1>3

\* No call makes half of a statement's or a transaction's work durable.
LEMMA NextCommitsWhole ==
    ASSUME IInv, RunningIsOk, [Next]_vars
    PROVE  CommittedWhole /\ RunningIsOk'
<1>1. CASE UNCHANGED vars
  BY <1>1 DEF vars, CommittedWhole, RunningIsOk
<1>2. vm \in [Stmts -> VmType] /\ \A s \in Stmts : vm[s] \in VmType
  BY DEF IInv, TypeOK
<1>3. ASSUME NEW s \in Stmts, Step(s)
      PROVE  CommittedWhole /\ RunningIsOk'
  BY <1>3, StepKeeps DEF RunningIsOk
<1>4. ASSUME NEW s \in Stmts, NEW q \in Sqls, Prepare(s, q)
      PROVE  CommittedWhole /\ RunningIsOk'
  <2>1. Fresh(q).rc = "ok"
    BY DEF Fresh
  <2> QED
    BY <1>2, <1>4, <2>1 DEF Prepare, CommittedWhole, RunningIsOk
<1>5. ASSUME NEW s \in Stmts, NEW p \in Params, NEW value, Bind(s, p, value)
      PROVE  CommittedWhole /\ RunningIsOk'
  BY <1>2, <1>5 DEF Bind, CommittedWhole, RunningIsOk, VmType
<1>6. ASSUME NEW s \in Stmts, ClearBindings(s)
      PROVE  CommittedWhole /\ RunningIsOk'
  BY <1>2, <1>6 DEF ClearBindings, CommittedWhole, RunningIsOk, VmType
<1>7. ASSUME NEW s \in Stmts, Reset(s)
      PROVE  CommittedWhole /\ RunningIsOk'
  <2>1. PICK full \in BOOLEAN :
           LET h == Halt(db, vm[s], full) IN Apply(s, h.db, Rewind(h.vm))
    BY <1>7, VdbeAssumption DEF Reset
  <2> DEFINE v == Halt(db, vm[s], full).vm
  <2>2. v \in VmType
    BY HaltAny
  <2>3. Apply(s, Halt(db, vm[s], full).db, Rewind(v))
    BY <2>1
  <2> HIDE DEF v
  <2>4. Rewind(v).rc = "ok"
    BY <2>2 DEF Rewind, VmType
  <2> QED
    BY <2>3, <2>4, HaltKeeps DEF RunningIsOk
<1>8. ASSUME NEW s \in Stmts, Finalize(s)
      PROVE  CommittedWhole /\ RunningIsOk'
  <2>1. PICK full \in BOOLEAN : Apply(s, Halt(db, vm[s], full).db, Dead)
    BY <1>8, VdbeAssumption DEF Finalize
  <2>2. Dead.magic = "dead"
    BY DEF Dead, Fresh
  <2> QED
    BY <2>1, <2>2, HaltKeeps DEF RunningIsOk
<1> QED
  BY <1>1, <1>3, <1>4, <1>5, <1>6, <1>7, <1>8 DEF Next

\* A commit is never about half of somebody's work: whenever the committed
\* content changes, it becomes the whole content, outside a transaction and
\* with no writer still active.
THEOREM CommitsAreWhole == Spec => CommitIsWhole
<1>1. Init => RunningIsOk
  BY DeadType DEF Init, RunningIsOk, Dead, Fresh
<1>2. IInv /\ RunningIsOk /\ [Next]_vars => RunningIsOk'
  BY NextCommitsWhole
<1>3. IInv /\ RunningIsOk /\ [Next]_vars
         => [db'.disk # db.disk => /\ db'.disk = db'.work
                                   /\ db'.autoCommit
                                   /\ db'.nVdbeWrite = 0]_vars
  BY NextCommitsWhole DEF CommittedWhole
<1> QED
  BY <1>1, <1>2, <1>3, Invariant, PTL DEF Spec, CommitIsWhole
=============================================================================
