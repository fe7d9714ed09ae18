-------------------------- MODULE Savepoints_proofs --------------------------
(***************************************************************************)
(* Proofs about module Savepoints, for every set of statements, texts and  *)
(* keys and any number of nested savepoints, where no text is an INSERT    *)
(* that keeps its statement transaction open between two calls (NoneHeld). *)
(* With such a text BEGIN and two of them in the wrong order break the     *)
(* properties, as run undo shows; any other writer with a RETURNING clause *)
(* may be active and interleave.                                           *)
(*                                                                         *)
(* SavepointsHoldMarks is not inductive alone.  The lists must be as long  *)
(* as the counts say (IInv), the transaction must be owned (TInv), because *)
(* the transaction savepoint stands for the committed content, the pager   *)
(* may not have more savepoints than the connection, and no statement      *)
(* transaction is left between two calls.  MInv is all that.               *)
(*                                                                         *)
(* Promised(i) is what position i of the list will stand for after the     *)
(* step that is taken: the content it was created with, or the content of  *)
(* now if this step creates it.  Kept says that the pager's records agree  *)
(* with it in the middle of a step; each operation of the b-tree keeps it, *)
(* and Halt turns it into the invariant of the next state (Result).        *)
(*                                                                         *)
(* That ROLLBACK TO and a failing INSERT restore exactly what they promise *)
(* is read off the same lemmas, in the step that does it.                  *)
(***************************************************************************)
EXTENDS Savepoints, Vdbe_proofs

\* No statement holds a statement transaction between two calls.
NoneHeld == \A q \in Sqls : q.returning => ~UsesStmtJournal(q)

\* What the savepoint at position i of the list stands for.
Promised(i) == IF i \in DOMAIN db.pSavepoint THEN marks[i] ELSE db.work

\* The b-tree counts savepoints from 1; 0 is the whole transaction.
Place(d, i) == i - One(d.isTransactionSavepoint)

\* The pager finds the content c at place j: recorded, or not yet changed.
RecordIs(d, j, c) ==
    /\ j = 0 => c = d.disk
    /\ j \in 1..Len(d.aSavepoint) => c = d.aSavepoint[j]
    /\ j > Len(d.aSavepoint) => c = d.work

Marked(d) ==
    \A i \in 1..Len(d.pSavepoint) : RecordIs(d, Place(d, i), Promised(i))

\* In the middle of a step.
Kept(d) ==
    /\ d \in DbType
    /\ SavepointsAgreeIn(d)
    /\ Pending(d)
    /\ Len(d.pSavepoint) <= Len(db.pSavepoint) + 1
    /\ db.inTrans = "write" => d.inTrans = "write"
    /\ Marked(d)

\* No statement transaction is open, or the one of v on top of all the
\* savepoints.
NoneOpen(d) == d.nStatement = 0 /\ Len(d.aSavepoint) <= d.nSavepoint

OnTop(d, v) ==
    /\ d.nStatement = 1 /\ v.iStatement = d.nSavepoint + 1
    /\ Len(d.aSavepoint) = d.nSavepoint + 1
    /\ d.inTrans = "write"

\* The connection after a step: the promises are kept, or a RELEASE of the
\* transaction savepoint failed to commit and everything was rolled back.
Result(d) ==
    /\ NoneOpen(d)
    /\ Len(d.pSavepoint) <= Len(db.pSavepoint) + 1
    /\ \/ /\ db.inTrans = "write" => d.inTrans = "write" \/ d.pSavepoint = <<>>
          /\ Marked(d)
       \/ /\ db.inTrans = "write" /\ d.inTrans # "write"
          /\ d.pSavepoint # <<>> /\ Len(d.pSavepoint) <= Len(db.pSavepoint)
          /\ d.work = d.disk /\ d.aSavepoint = <<>>

\* The inductive invariant.
MInv ==
    /\ IInv /\ TInv
    /\ marks \in Seq(SUBSET Keys)
    /\ Len(marks) = Len(db.pSavepoint)
    /\ NoneOpen(db)
    /\ SavepointsHoldMarks
-----------------------------------------------------------------------------
\* Lengths are natural numbers, and a place is one too.
LEMMA Lengths ==
    ASSUME NEW d \in DbType
    PROVE  /\ Len(d.pSavepoint) \in Nat /\ Len(d.aSavepoint) \in Nat
           /\ DOMAIN d.pSavepoint = 1..Len(d.pSavepoint)
           /\ DOMAIN d.aSavepoint = 1..Len(d.aSavepoint)
           /\ d.nSavepoint \in Nat /\ d.nStatement \in Nat
           /\ \A i \in 1..Len(d.pSavepoint) : Place(d, i) \in Nat
           /\ \A i \in 1..Len(d.aSavepoint) : d.aSavepoint[i] \in SUBSET Keys
<1>1. d.pSavepoint \in Seq(Names) /\ d.aSavepoint \in Seq(SUBSET Keys)
      /\ d.nSavepoint \in Nat /\ d.nStatement \in Nat
  BY DEF DbType
<1>2. \A i \in 1..Len(d.aSavepoint) : d.aSavepoint[i] \in SUBSET Keys
  BY <1>1, ElementOfSeq
<1> QED
  BY <1>1, <1>2, LenProperties DEF Place, One

\* A position of the list has its place among the pager's savepoints.
LEMMA PlaceInCount ==
    ASSUME NEW d \in DbType, SavepointsAgreeIn(d), NEW i \in 1..Len(d.pSavepoint)
    PROVE  Place(d, i) <= d.nSavepoint
BY Lengths DEF SavepointsAgreeIn, Place, One

\* The invariant says of the connection between two steps what Kept says of
\* it in the middle of one.
LEMMA MarksAreKept ==
    ASSUME MInv
    PROVE  Kept(db) /\ NoneOpen(db)
<1>1. db \in DbType /\ SavepointsAgreeIn(db) /\ Pending(db) /\ NoneOpen(db)
  BY DEF MInv, IInv, TypeOK, SavepointsAgree, SavepointsAgreeIn, One, TInv,
         PendingOnlyInTransaction, Pending
<1>2. ASSUME NEW i \in 1..Len(db.pSavepoint)
      PROVE  RecordIs(db, Place(db, i), Promised(i))
  <2>1. i \in DOMAIN db.pSavepoint
    BY <1>1, <1>2, Lengths
  <2>2. BtreeIndex(i) + 1 = Place(db, i)
    BY <1>1, <2>1, BtreeIndexValue DEF MInv, Place, One
  <2>3. Promised(i) = marks[i]
    BY <2>1 DEF Promised
  <2> DEFINE j == BtreeIndex(i) + 1
  <2>4. IF j = 0 THEN marks[i] = db.disk
        ELSE IF j \in DOMAIN db.aSavepoint THEN marks[i] = db.aSavepoint[j]
        ELSE marks[i] = db.work
    <3>1. SavepointsHoldMarks
      BY DEF MInv
    <3> HIDE DEF MInv
    <3>2. CASE j = 0 /\ j \notin DOMAIN db.aSavepoint
      BY <2>1, <3>1, <3>2 DEF SavepointsHoldMarks
    <3>3. CASE j # 0 /\ j \in DOMAIN db.aSavepoint
      BY <2>1, <3>1, <3>3 DEF SavepointsHoldMarks
    <3>4. CASE j # 0 /\ j \notin DOMAIN db.aSavepoint
      BY <2>1, <3>1, <3>4 DEF SavepointsHoldMarks
    <3> QED
      BY <1>1, <3>2, <3>3, <3>4, Lengths
  <2>5. j = Place(db, i) /\ j \in Nat
        /\ DOMAIN db.aSavepoint = 1..Len(db.aSavepoint) /\ Len(db.aSavepoint) \in Nat
    BY <1>1, <2>2, Lengths
  <2> HIDE DEF j
  <2> QED  BY <2>3, <2>4, <2>5 DEF RecordIs
<1>3. Len(db.pSavepoint) <= Len(db.pSavepoint) + 1
  BY <1>1, Lengths
<1> QED
  BY <1>1, <1>2, <1>3 DEF Kept, Marked
-----------------------------------------------------------------------------
(* The operations of the b-tree and the pager.                             *)

\* The lists and the contents they stand for are the same in d and e.
SameRecords(d, e) ==
    /\ e.nSavepoint = d.nSavepoint /\ e.pSavepoint = d.pSavepoint
    /\ e.isTransactionSavepoint = d.isTransactionSavepoint
    /\ e.disk = d.disk /\ e.work = d.work /\ e.aSavepoint = d.aSavepoint

LEMMA SameRecordsMarked ==
    ASSUME NEW d, NEW e, SameRecords(d, e), Marked(d)
    PROVE  Marked(e)
BY DEF SameRecords, Marked, RecordIs, Place

\* The start of a read.
LEMMA BeginReadKept ==
    ASSUME NEW d, Kept(d), NoneOpen(d)
    PROVE  LET e == BeginRead(d) IN Kept(e) /\ NoneOpen(e)
<1> DEFINE e == BeginRead(d)
<1>1. PagerStep(d, e) /\ d \in DbType
  BY BeginReadStep DEF Kept
<1>2. /\ e.disk = d.disk /\ e.work = d.work /\ e.aSavepoint = d.aSavepoint
      /\ e.inTrans = IF d.inTrans = "none" THEN "read" ELSE d.inTrans
  BY <1>1 DEF BeginRead, DbType
<1> HIDE DEF e
<1>3. SameRecords(d, e)
  BY <1>1, <1>2 DEF PagerStep, SameRecords
<1>4. Marked(e)
  BY <1>3, SameRecordsMarked DEF Kept
<1>5. SavepointsAgreeIn(e) /\ e \in DbType /\ NoneOpen(e)
  BY <1>1, <1>2 DEF PagerStep, SavepointsAgreeIn, Kept, NoneOpen
<1>6. Pending(e) /\ (db.inTrans = "write" => e.inTrans = "write")
  BY <1>2 DEF Pending, Kept
<1> QED
  BY <1>1, <1>4, <1>5, <1>6 DEF Kept, PagerStep, e

\* Opening savepoints up to n records the content of now, which is what a
\* savepoint without a record stands for.
LEMMA OpenSavepointMarked ==
    ASSUME NEW d \in DbType, NEW n \in Nat, Marked(d)
    PROVE  LET e == OpenSavepoint(d, n)
           IN  /\ Marked(e)
               /\ e.inTrans = d.inTrans /\ e.work = d.work /\ e.disk = d.disk
               /\ Len(e.aSavepoint) = IF n > Len(d.aSavepoint)
                                      THEN n ELSE Len(d.aSavepoint)
               /\ n > Len(d.aSavepoint) => e.aSavepoint[n] = d.work
<1> DEFINE a == [i \in 1..n |-> IF i <= Len(d.aSavepoint) THEN d.aSavepoint[i]
                                                          ELSE d.work]
           e == [d EXCEPT !.aSavepoint = a]
<1>1. CASE n > Len(d.aSavepoint)
  <2>1. OpenSavepoint(d, n) = e
    BY <1>1 DEF OpenSavepoint, DbType
  <2>2. PagerStep(d, e)
    BY <2>1, OpenSavepointStep
  <2>3. /\ e.inTrans = d.inTrans /\ e.work = d.work /\ e.disk = d.disk
        /\ e.aSavepoint = a
    BY DEF DbType
  <2>4. Len(a) = n
    <3>1. e.aSavepoint \in Seq(SUBSET Keys)
      BY <2>2 DEF PagerStep, DbType
    <3>2. DOMAIN a = 1..n
      OBVIOUS
    <3> HIDE DEF a
    <3> QED
      BY <2>3, <3>1, <3>2, LenProperties
  <2>5. Len(d.aSavepoint) \in Nat
    BY Lengths
  <2>6. \A i \in 1..n : a[i] = IF i <= Len(d.aSavepoint) THEN d.aSavepoint[i]
                                                          ELSE d.work
    OBVIOUS
  <2> HIDE DEF a, e
  <2>7. ASSUME NEW i \in 1..Len(e.pSavepoint)
        PROVE  RecordIs(e, Place(e, i), Promised(i))
    <3> DEFINE j == Place(d, i)
               c == Promised(i)
    <3>1. j \in Nat /\ RecordIs(d, j, c) /\ Place(e, i) = j
      BY <2>2, Lengths DEF Marked, PagerStep, Place
    <3> HIDE DEF j, c
    <3>2. RecordIs(e, j, c)
      BY <1>1, <2>3, <2>4, <2>5, <2>6, <3>1 DEF RecordIs
    <3> QED
      BY <3>1, <3>2 DEF c
  <2>8. Marked(e)
    BY <2>7 DEF Marked
  <2> QED
    BY <1>1, <2>1, <2>3, <2>4, <2>5, <2>6, <2>8
<1>2. CASE ~(n > Len(d.aSavepoint))
  <2>1. OpenSavepoint(d, n) = d
    BY <1>2 DEF OpenSavepoint, DbType
  <2> QED
    BY <1>2, <2>1
<1> QED
  BY <1>1, <1>2

\* The start of a write, at which every savepoint is recorded.
Recorded(d) == d.inTrans = "write" /\ d.nSavepoint <= Len(d.aSavepoint)

LEMMA BeginWriteKept ==
    ASSUME NEW d, Kept(d), NoneOpen(d)
    PROVE  LET e == BeginWrite(d)
           IN  /\ Kept(e) /\ NoneOpen(e) /\ Recorded(e) /\ e.work = d.work
               /\ Len(e.aSavepoint) = d.nSavepoint
<1> DEFINE c == [d EXCEPT !.inTrans = "write"]
           e == OpenSavepoint(c, d.nSavepoint)
<1>1. c \in DbType /\ SameRecords(d, c) /\ c.inTrans = "write"
  BY DEF Kept, DbType, SameRecords
<1>2. BeginWrite(d) = e
  BY DEF BeginWrite
<1> HIDE DEF c
<1>3. Marked(c) /\ d.nSavepoint \in Nat /\ d \in DbType
  BY <1>1, SameRecordsMarked DEF Kept, DbType
<1>4. /\ Marked(e) /\ e.inTrans = "write" /\ e.work = d.work
      /\ Len(e.aSavepoint) = d.nSavepoint
  BY <1>1, <1>3, OpenSavepointMarked, Lengths DEF NoneOpen, SameRecords
<1>5. PagerStep(d, e)
  BY <1>2, <1>3, BeginWriteStep
<1> HIDE DEF e
<1>6. SavepointsAgreeIn(e) /\ e \in DbType /\ NoneOpen(e) /\ Recorded(e)
  BY <1>3, <1>4, <1>5 DEF PagerStep, SavepointsAgreeIn, Kept, NoneOpen, Recorded
<1>7. Pending(e)
  BY <1>4 DEF Pending
<1> QED
  BY <1>2, <1>4, <1>5, <1>6, <1>7 DEF Kept, PagerStep

\* A write after it changes no content a savepoint stands for.
LEMMA WriteKept ==
    ASSUME NEW d, Kept(d), Recorded(d), NEW K \in SUBSET Keys
    PROVE  LET e == [d EXCEPT !.work = K]
           IN  /\ Kept(e) /\ Recorded(e)
               /\ NoneOpen(d) => NoneOpen(e)
               /\ \A v : OnTop(d, v) => OnTop(e, v)
<1> DEFINE e == [d EXCEPT !.work = K]
<1>1. d \in DbType
  BY DEF Kept
<1>2. PagerStep(d, e)
  BY <1>1, WorkStep
<1>3. e.disk = d.disk /\ e.aSavepoint = d.aSavepoint /\ e.inTrans = d.inTrans
  BY <1>1 DEF DbType
<1> HIDE DEF e
<1>4. ASSUME NEW i \in 1..Len(e.pSavepoint)
      PROVE  RecordIs(e, Place(e, i), Promised(i))
  <2> DEFINE j == Place(d, i)
             c == Promised(i)
  <2>1. i \in 1..Len(d.pSavepoint) /\ Place(e, i) = j
    BY <1>2, <1>4 DEF PagerStep, Place
  <2>2. j \in Nat /\ j <= d.nSavepoint /\ RecordIs(d, j, c)
    BY <1>1, <2>1, PlaceInCount, Lengths DEF Kept, Marked
  <2>3. d.nSavepoint \in Nat /\ Len(d.aSavepoint) \in Nat
    BY <1>1, Lengths
  <2> HIDE DEF j, c
  <2>4. RecordIs(e, j, c)
    BY <1>3, <2>2, <2>3 DEF RecordIs, Recorded
  <2> QED
    BY <2>1, <2>4 DEF c
<1>5. SavepointsAgreeIn(e) /\ e \in DbType /\ Pending(e) /\ Recorded(e)
  BY <1>2, <1>3 DEF PagerStep, SavepointsAgreeIn, Kept, Recorded, Pending
<1>6. Kept(e)
  BY <1>2, <1>3, <1>4, <1>5 DEF Kept, Marked, PagerStep
<1>7. NoneOpen(d) => NoneOpen(e)
  BY <1>2, <1>3 DEF NoneOpen, PagerStep
<1>8. \A v : OnTop(d, v) => OnTop(e, v)
  BY <1>2, <1>3 DEF OnTop, PagerStep
<1> QED
  BY <1>5, <1>6, <1>7, <1>8 DEF e

\* OP_Transaction of a writer: its statement transaction, if it needs one, is
\* on top of all the savepoints and records the content of now.  It goes
\* without one only if it needs none or is alone.
LEMMA OpenStatementKept ==
    ASSUME NEW d, Kept(d), NoneOpen(d), NEW v \in VmType
    PROVE  LET o == OpenStatement(d, v)
           IN  /\ Kept(o.db) /\ Recorded(o.db) /\ o.db.work = d.work
               /\ \/ /\ NoneOpen(o.db) /\ o.vm = v
                     /\ ~UsesStmtJournal(v.sql) \/ (d.autoCommit /\ ~(d.nVdbeRead > 1))
                  \/ /\ OnTop(o.db, o.vm) /\ UsesStmtJournal(v.sql)
                     /\ o.db.aSavepoint[o.db.nSavepoint + 1] = d.work
<1> DEFINE b == BeginWrite(d)
           n == d.nSavepoint + d.nStatement + 1
           c == [b EXCEPT !.nStatement = @ + 1]
           e == OpenSavepoint(c, n)
           w == [v EXCEPT !.iStatement = n]
           o == OpenStatement(d, v)
<1>1. /\ Kept(b) /\ NoneOpen(b) /\ Recorded(b) /\ b.work = d.work
      /\ Len(b.aSavepoint) = d.nSavepoint
  BY BeginWriteKept
<1>2. d \in DbType /\ b \in DbType /\ d.nSavepoint \in Nat /\ d.nStatement = 0
      /\ b.nSavepoint = d.nSavepoint /\ b.nStatement = 0
  BY <1>1, BeginWriteStep, Lengths DEF Kept, NoneOpen, PagerStep
<1>3. CASE UsesStmtJournal(v.sql) /\ (~d.autoCommit \/ d.nVdbeRead > 1)
  <2>1. o = [db |-> e, vm |-> w]
    BY <1>3 DEF OpenStatement
  <2>2. n = d.nSavepoint + 1 /\ n \in Nat
    BY <1>2
  <2>3. w.iStatement = n
    BY DEF VmType
  <2> HIDE DEF b, n, w
  <2>4. /\ c \in DbType /\ SameRecords(b, c) /\ c.nStatement = 1
        /\ c.inTrans = b.inTrans /\ c.autoCommit = b.autoCommit
    <3>1. b.nStatement + 1 = 1 /\ 1 \in Nat
      BY <1>2
    <3>2. c = [b EXCEPT !.nStatement = 1]
      BY <3>1
    <3> HIDE DEF c
    <3> QED
      BY <1>2, <3>1, <3>2 DEF DbType, SameRecords
  <2> HIDE DEF c
  <2>5. Marked(c)
    BY <1>1, <2>4, SameRecordsMarked DEF Kept
  <2>6. /\ Marked(e) /\ e.inTrans = "write" /\ e.work = d.work
        /\ Len(e.aSavepoint) = n /\ e.aSavepoint[n] = d.work
    BY <1>1, <1>2, <2>2, <2>4, <2>5, OpenSavepointMarked DEF SameRecords, Recorded
  <2>7. PagerStep(c, e)
    BY <2>2, <2>4, OpenSavepointStep
  <2> HIDE DEF e
  <2>8. SavepointsAgreeIn(e) /\ e \in DbType /\ Pending(e)
    BY <1>1, <2>4, <2>6, <2>7 DEF PagerStep, SavepointsAgreeIn, Kept, Pending,
                                  SameRecords
  <2>9. Kept(e)
    BY <1>1, <2>4, <2>6, <2>7, <2>8 DEF Kept, PagerStep, SameRecords
  <2>10. e.nSavepoint = d.nSavepoint /\ e.nStatement = 1
    BY <1>2, <2>4, <2>7 DEF PagerStep, SameRecords
  <2>11. Recorded(e) /\ OnTop(e, w)
    BY <1>2, <2>2, <2>3, <2>6, <2>10 DEF Recorded, OnTop
  <2> HIDE DEF o
  <2> QED
    BY <1>3, <2>1, <2>2, <2>6, <2>9, <2>10, <2>11 DEF o
<1>4. CASE ~(UsesStmtJournal(v.sql) /\ (~d.autoCommit \/ d.nVdbeRead > 1))
  <2>1. o = [db |-> b, vm |-> v]
    BY <1>4 DEF OpenStatement
  <2> HIDE DEF b, o
  <2> QED
    BY <1>1, <1>4, <2>1 DEF o
<1> QED
  BY <1>3, <1>4

\* Dropping the savepoints after position i.
LEMMA PoppedKept ==
    ASSUME TypeOK, NEW d, Kept(d), NEW i \in 1..Len(d.pSavepoint)
    PROVE  LET p == Popped(d, i)
           IN  /\ Kept(p) /\ ~p.autoCommit /\ Len(p.pSavepoint) = i
               /\ p.nSavepoint = Place(d, i) /\ Place(p, i) = Place(d, i)
               /\ p.aSavepoint = d.aSavepoint /\ p.nStatement = d.nStatement
<1> DEFINE a == SubSeq(d.pSavepoint, 1, i)
           n == d.nSavepoint - (Len(d.pSavepoint) - i)
           p == [d EXCEPT !.pSavepoint = a, !.nSavepoint = n]
<1>1. d \in DbType /\ d.pSavepoint \in Seq(Names) /\ d.nSavepoint \in Nat
      /\ Len(d.pSavepoint) \in Nat
  BY Lengths DEF Kept, DbType
<1>2. \A j \in 1..i : d.pSavepoint[j] \in Names
  BY <1>1, ElementOfSeq
<1>3. a \in Seq(Names) /\ Len(a) = i
  BY <1>1, <1>2, SubSeqProperties
<1>4. n = Place(d, i) /\ n \in Nat
  BY <1>1, Lengths DEF Kept, SavepointsAgreeIn, One, Place
<1>5. ~d.autoCommit
  BY <1>1, EmptySeq DEF Kept, SavepointsAgreeIn
<1>6. Popped(d, i) = p
  BY DEF Popped
<1> HIDE DEF a, n
<1>7. /\ p \in DbType /\ p.pSavepoint = a /\ p.nSavepoint = n
      /\ p.autoCommit = d.autoCommit /\ p.inTrans = d.inTrans
      /\ p.isTransactionSavepoint = d.isTransactionSavepoint
      /\ p.work = d.work /\ p.disk = d.disk /\ p.aSavepoint = d.aSavepoint
      /\ p.nStatement = d.nStatement
  BY <1>1, <1>3, <1>4 DEF DbType
<1> HIDE DEF p
<1>8. SavepointsAgreeIn(p) /\ Pending(p)
  BY <1>1, <1>3, <1>4, <1>5, <1>7 DEF SavepointsAgreeIn, One, Place, Kept, Pending
<1>9. Marked(p)
  <2> SUFFICES ASSUME NEW j \in 1..i
               PROVE  RecordIs(p, Place(p, j), Promised(j))
    BY <1>3, <1>7 DEF Marked
  <2>1. j \in 1..Len(d.pSavepoint)
    BY <1>1
  <2>2. RecordIs(d, Place(d, j), Promised(j))
    BY <2>1 DEF Kept, Marked
  <2> QED
    BY <1>7, <2>2 DEF RecordIs, Place
<1>10. Len(p.pSavepoint) <= Len(db.pSavepoint) + 1
  <2>1. Len(db.pSavepoint) \in Nat
    BY Lengths DEF TypeOK
  <2>2. Len(d.pSavepoint) <= Len(db.pSavepoint) + 1
    BY DEF Kept
  <2>3. Len(p.pSavepoint) = i
    BY <1>3, <1>7
  <2> HIDE DEF Kept
  <2> QED
    BY <1>1, <2>1, <2>2, <2>3
<1> QED
  BY <1>3, <1>4, <1>5, <1>6, <1>7, <1>8, <1>9, <1>10 DEF Kept, Place

\* Rolling back to the savepoint at position i brings its content back, and
\* keeps what the savepoints before it stand for.
LEMMA RollbackToKept ==
    ASSUME TypeOK, NEW d, Kept(d), NoneOpen(d), NEW i \in 1..Len(d.pSavepoint)
    PROVE  LET r == SavepointRollback(Popped(d, i), Place(d, i) - 1)
           IN  /\ Kept(r) /\ NoneOpen(r) /\ ~r.autoCommit
               /\ r.work = Promised(i)
<1> DEFINE p == Popped(d, i)
           k == Place(d, i)
           r == SavepointRollback(p, k - 1)
<1>1. /\ Kept(p) /\ ~p.autoCommit /\ Len(p.pSavepoint) = i
      /\ p.nSavepoint = k /\ Place(p, i) = k
      /\ p.nStatement = 0 /\ i \in 1..Len(p.pSavepoint)
  BY PoppedKept DEF NoneOpen
<1> HIDE DEF p
<1>2. p \in DbType /\ Len(p.aSavepoint) \in Nat /\ i \in Nat \ {0}
  BY <1>1, Lengths DEF Kept
<1>3. k \in Nat
  BY <1>1, <1>2, Lengths
<1>4. RecordIs(p, k, Promised(i))
  BY <1>1, <1>2 DEF Kept, Marked
<1>5. ASSUME NEW j \in 1..i
      PROVE  Place(p, j) \in Nat /\ Place(p, j) <= k
  <2>1. Place(p, j) \in Nat
    BY <1>1, <1>2, Lengths
  <2> QED
    BY <1>1, <1>2, <2>1 DEF Place, One
<1> HIDE DEF k
<1>6. PagerStep(p, r)
  BY <1>2, <1>3, SavepointRollbackStep
<1>7. CASE p.inTrans = "write" /\ k - 1 < Len(p.aSavepoint)
  <2> DEFINE a == SubSeq(p.aSavepoint, 1, k)
             c == IF k = 0 THEN p.disk ELSE p.aSavepoint[k]
  <2>1. r = [p EXCEPT !.work = c, !.aSavepoint = a]
    <3>1. k - 1 < 0 <=> k = 0
      BY <1>3
    <3>2. (k - 1) + 1 = k
      BY <1>3
    <3> QED
      BY <1>7, <3>1, <3>2 DEF SavepointRollback
  <2>2. r.work = c /\ r.aSavepoint = a /\ r.disk = p.disk /\ r.inTrans = p.inTrans
    BY <1>2, <2>1 DEF DbType
  <2>3. Len(a) = k /\ \A j \in 1..k : a[j] = p.aSavepoint[j]
    <3>1. k \in 0..Len(p.aSavepoint)
      BY <1>2, <1>3, <1>7
    <3>2. \A j \in 1..k : p.aSavepoint[j] \in SUBSET Keys
      BY <1>2, <3>1, Lengths
    <3>3. p.aSavepoint \in Seq(SUBSET Keys)
      BY <1>2 DEF DbType
    <3> QED
      BY <1>3, <3>1, <3>2, <3>3, SubSeqProperties
  <2>4. c = Promised(i)
    BY <1>2, <1>3, <1>4, <1>7 DEF RecordIs
  <2> HIDE DEF a, c, r
  <2>5. ASSUME NEW j \in 1..i
        PROVE  RecordIs(r, Place(p, j), Promised(j))
    <3> DEFINE m == Place(p, j)
               x == Promised(j)
    <3>1. m \in Nat /\ m <= k
      BY <1>5
    <3>2. RecordIs(p, m, x)
      BY <1>1, <2>5 DEF Kept, Marked
    <3> HIDE DEF m, x
    <3>3. m = 0 => x = r.disk
      BY <2>2, <3>2 DEF RecordIs
    <3>4. m \in 1..k => m \in 1..Len(p.aSavepoint)
      BY <1>2, <1>3, <1>7
    <3>5. m \in 1..k => x = r.aSavepoint[m]
      BY <2>2, <2>3, <3>2, <3>4 DEF RecordIs
    <3> QED
      BY <1>3, <2>2, <2>3, <3>1, <3>3, <3>5 DEF RecordIs, m, x
  <2>6. Marked(r)
    <3> SUFFICES ASSUME NEW j \in 1..Len(r.pSavepoint)
                 PROVE  RecordIs(r, Place(r, j), Promised(j))
      BY DEF Marked
    <3>1. j \in 1..i /\ Place(r, j) = Place(p, j)
      BY <1>1, <1>6 DEF PagerStep, Place
    <3> QED
      BY <2>5, <3>1
  <2>7. SavepointsAgreeIn(r) /\ r \in DbType /\ NoneOpen(r) /\ Pending(r)
    <3>1. SavepointsAgreeIn(r) /\ r \in DbType
      BY <1>1, <1>6 DEF PagerStep, SavepointsAgreeIn, Kept
    <3>2. NoneOpen(r)
      BY <1>1, <1>3, <1>6, <2>2, <2>3 DEF PagerStep, NoneOpen
    <3>3. Pending(r)
      BY <1>7, <2>2 DEF Pending
    <3> QED  BY <3>1, <3>2, <3>3
  <2>8. Kept(r)
    BY <1>1, <1>6, <2>2, <2>6, <2>7 DEF Kept, PagerStep
  <2> QED
    BY <1>1, <1>6, <2>2, <2>4, <2>7, <2>8 DEF PagerStep, r, k, p
<1>8. CASE ~(p.inTrans = "write" /\ k - 1 < Len(p.aSavepoint))
  <2>1. r = p
    BY <1>8 DEF SavepointRollback
  <2>2. p.work = Promised(i)
    <3>1. CASE p.inTrans # "write"
      <4>1. p.work = p.disk /\ Len(p.aSavepoint) = 0
        BY <1>1, <3>1, EmptySeq DEF Kept, Pending
      <4> QED
        BY <1>3, <1>4, <4>1 DEF RecordIs
    <3>2. CASE p.inTrans = "write"
      BY <1>2, <1>3, <1>4, <1>8, <3>2 DEF RecordIs
    <3> QED  BY <3>1, <3>2
  <2>3. NoneOpen(p)
    <3>1. CASE p.inTrans # "write"
      BY <1>1, <1>3, <3>1, EmptySeq DEF Kept, Pending, NoneOpen
    <3>2. CASE p.inTrans = "write"
      BY <1>1, <1>2, <1>3, <1>8, <3>2 DEF NoneOpen
    <3> QED  BY <3>1, <3>2
  <2> HIDE DEF r
  <2> QED
    BY <1>1, <2>1, <2>2, <2>3 DEF r, k, p
<1> QED
  BY <1>7, <1>8

\* RELEASE of the savepoint at position i, which is not the transaction's.
Released(d, i) ==
    [SavepointRelease(Popped(d, i), Place(d, i) - 1) EXCEPT
        !.pSavepoint = SubSeq(@, 1, i - 1), !.nSavepoint = @ - 1]

LEMMA ReleaseKept ==
    ASSUME TypeOK, NEW d, Kept(d), NoneOpen(d), NEW i \in 1..Len(d.pSavepoint),
           Place(d, i) # 0
    PROVE  Kept(Released(d, i)) /\ NoneOpen(Released(d, i))
<1> DEFINE p == Popped(d, i)
           k == Place(d, i)
           r == SavepointRelease(p, k - 1)
           l == SubSeq(r.pSavepoint, 1, i - 1)
           n == r.nSavepoint - 1
           e == [r EXCEPT !.pSavepoint = l, !.nSavepoint = n]
<1>1. /\ Kept(p) /\ ~p.autoCommit /\ Len(p.pSavepoint) = i
      /\ p.nSavepoint = k /\ Place(p, i) = k
      /\ p.nStatement = 0 /\ i \in 1..Len(p.pSavepoint)
  BY PoppedKept DEF NoneOpen
<1>2. Released(d, i) = e
  BY DEF Released
<1>3. k # 0
  OBVIOUS
<1> HIDE DEF p
<1>4. p \in DbType /\ Len(p.aSavepoint) \in Nat /\ i \in Nat \ {0}
  BY <1>1, Lengths DEF Kept
<1>5. k \in Nat \ {0}
  BY <1>1, <1>3, <1>4, Lengths
<1>6. k = i - One(p.isTransactionSavepoint)
  BY <1>1 DEF Place
<1> HIDE DEF k
<1>7. PagerStep(p, r)
  BY <1>4, <1>5, SavepointReleaseStep
<1>8. /\ r.disk = p.disk /\ r.work = p.work /\ r.inTrans = p.inTrans
      /\ \A j \in 1..Len(r.aSavepoint) : /\ j \in 1..Len(p.aSavepoint)
                                         /\ r.aSavepoint[j] = p.aSavepoint[j]
      /\ Len(r.aSavepoint) \in Nat
      /\ \/ Len(r.aSavepoint) = Len(p.aSavepoint)
         \/ Len(r.aSavepoint) = k - 1 /\ p.inTrans = "write"
      /\ Len(r.aSavepoint) <= k - 1
  <2>1. CASE p.inTrans = "write" /\ k - 1 < Len(p.aSavepoint)
    <3> DEFINE a == SubSeq(p.aSavepoint, 1, k - 1)
    <3>1. r = [p EXCEPT !.aSavepoint = a]
      BY <2>1 DEF SavepointRelease
    <3>2. k - 1 \in Nat /\ k - 1 \in 0..Len(p.aSavepoint)
      BY <1>4, <1>5, <2>1
    <3>3. \A j \in 1..(k - 1) : j \in 1..Len(p.aSavepoint)
                                /\ p.aSavepoint[j] \in SUBSET Keys
      BY <1>4, <1>5, <3>2, Lengths
    <3>4. p.aSavepoint \in Seq(SUBSET Keys)
      BY <1>4 DEF DbType
    <3>5. Len(a) = k - 1 /\ \A j \in 1..(k - 1) : a[j] = p.aSavepoint[j]
      BY <3>2, <3>3, <3>4, SubSeqProperties
    <3> HIDE DEF a
    <3>6. r.disk = p.disk /\ r.work = p.work /\ r.inTrans = p.inTrans
          /\ r.aSavepoint = a
      BY <1>4, <3>1 DEF DbType
    <3> HIDE DEF r
    <3> QED
      BY <1>5, <2>1, <3>2, <3>3, <3>5, <3>6
  <2>2. CASE ~(p.inTrans = "write" /\ k - 1 < Len(p.aSavepoint))
    <3>1. r = p
      BY <2>2 DEF SavepointRelease
    <3>2. Len(p.aSavepoint) <= k - 1
      <4>1. CASE p.inTrans # "write"
        BY <1>1, <1>5, <4>1, EmptySeq DEF Kept, Pending
      <4>2. CASE p.inTrans = "write"
        BY <1>4, <1>5, <2>2, <4>2
      <4> QED  BY <4>1, <4>2
    <3> HIDE DEF r
    <3> QED
      BY <1>4, <3>1, <3>2
  <2> QED  BY <2>1, <2>2
<1> HIDE DEF r
<1>9. n = k - 1 /\ n \in Nat /\ r \in DbType
  BY <1>1, <1>5, <1>7 DEF PagerStep
<1>10. l \in Seq(Names) /\ Len(l) = i - 1
  <2>1. r.pSavepoint \in Seq(Names) /\ Len(r.pSavepoint) = i
    BY <1>1, <1>7, <1>9 DEF PagerStep, DbType
  <2>2. \A j \in 1..(i - 1) : r.pSavepoint[j] \in Names
    BY <1>4, <2>1, ElementOfSeq
  <2> QED
    BY <1>4, <2>1, <2>2, SubSeqProperties
<1> HIDE DEF l, n
<1>11. /\ e \in DbType /\ e.pSavepoint = l /\ e.nSavepoint = n
       /\ e.autoCommit = r.autoCommit /\ e.inTrans = r.inTrans
       /\ e.isTransactionSavepoint = r.isTransactionSavepoint
       /\ e.work = r.work /\ e.disk = r.disk /\ e.aSavepoint = r.aSavepoint
       /\ e.nStatement = r.nStatement
  BY <1>9, <1>10 DEF DbType
<1> HIDE DEF e
<1>12. SavepointsAgreeIn(e)
  BY <1>1, <1>4, <1>6, <1>7, <1>9, <1>10, <1>11 DEF SavepointsAgreeIn, PagerStep, One
<1>13. NoneOpen(e)
  BY <1>1, <1>7, <1>8, <1>9, <1>11 DEF NoneOpen, PagerStep
<1>14. Pending(e)
  <2> SUFFICES ASSUME e.inTrans # "write"
               PROVE  e.work = e.disk /\ e.aSavepoint = <<>>
    BY DEF Pending
  <2>1. p.inTrans # "write" /\ p.work = p.disk /\ p.aSavepoint = <<>>
    BY <1>1, <1>8, <1>11 DEF Kept, Pending
  <2>2. Len(r.aSavepoint) = 0 /\ r.aSavepoint \in Seq(SUBSET Keys)
    BY <1>8, <1>9, <2>1, EmptySeq DEF DbType
  <2> QED
    BY <1>8, <1>11, <2>1, <2>2, EmptySeq
<1>15. Marked(e)
  <2> SUFFICES ASSUME NEW j \in 1..(i - 1)
               PROVE  RecordIs(e, Place(e, j), Promised(j))
    BY <1>10, <1>11 DEF Marked
  <2> DEFINE m == Place(p, j)
             x == Promised(j)
  <2>1. j \in 1..Len(p.pSavepoint) /\ Place(e, j) = m
    BY <1>1, <1>4, <1>7, <1>11 DEF PagerStep, Place
  <2>2. m \in Nat /\ RecordIs(p, m, x)
    BY <1>1, <1>4, <2>1, Lengths DEF Kept, Marked
  <2>3. m <= k - 1
    BY <1>4, <1>6, <2>1 DEF Place, One
  <2> HIDE DEF m, x
  <2>4. RecordIs(e, m, x)
    <3>1. m = 0 => x = e.disk
      BY <1>8, <1>11, <2>2 DEF RecordIs
    <3>2. m \in 1..Len(e.aSavepoint) => x = e.aSavepoint[m]
      BY <1>8, <1>11, <2>2 DEF RecordIs
    <3>3. m > Len(e.aSavepoint) => x = e.work
      <4> SUFFICES ASSUME m > Len(e.aSavepoint) PROVE x = e.work
        OBVIOUS
      <4>1. Len(r.aSavepoint) = Len(p.aSavepoint)
        BY <1>5, <1>8, <1>11, <2>2, <2>3
      <4> QED
        BY <1>8, <1>11, <2>2, <4>1 DEF RecordIs
    <3> QED
      BY <3>1, <3>2, <3>3 DEF RecordIs
  <2> QED
    BY <2>1, <2>4 DEF x
<1>16. Len(e.pSavepoint) <= Len(db.pSavepoint) + 1
  <2>1. Len(db.pSavepoint) \in Nat
    BY Lengths DEF TypeOK
  <2>2. i <= Len(db.pSavepoint) + 1
    BY <1>1 DEF Kept
  <2> QED
    BY <1>4, <1>10, <1>11, <2>1, <2>2
<1> QED
  BY <1>1, <1>2, <1>8, <1>11, <1>12, <1>13, <1>14, <1>15, <1>16 DEF Kept

\* SAVEPOINT: the new one stands for the content of now.
LEMMA PushKept ==
    ASSUME TypeOK, TInv, NEW d, Kept(d), NoneOpen(d), SameRecords(db, d),
           d.inTrans = db.inTrans, d.autoCommit = db.autoCommit,
           NEW x \in Names, db.nVdbeWrite = 0
    PROVE  LET a == Append(d.pSavepoint, x)
               t == [[d EXCEPT !.pSavepoint = a] EXCEPT
                        !.autoCommit = FALSE, !.isTransactionSavepoint = TRUE]
               u == [[d EXCEPT !.pSavepoint = a] EXCEPT !.nSavepoint = @ + 1]
           IN  /\ db.autoCommit => Kept(t) /\ NoneOpen(t)
               /\ ~db.autoCommit => Kept(u) /\ NoneOpen(u)
<1> DEFINE a == Append(d.pSavepoint, x)
           p == [d EXCEPT !.pSavepoint = a]
           t == [p EXCEPT !.autoCommit = FALSE, !.isTransactionSavepoint = TRUE]
           n == p.nSavepoint + 1
           u == [p EXCEPT !.nSavepoint = n]
           l == Len(d.pSavepoint)
<1>1. d \in DbType /\ l \in Nat /\ Len(d.aSavepoint) \in Nat /\ d.nSavepoint \in Nat
      /\ d.pSavepoint \in Seq(Names) /\ db.pSavepoint = d.pSavepoint
  BY Lengths DEF Kept, SameRecords, DbType
<1>2. a \in Seq(Names) /\ Len(a) = l + 1
  BY <1>1, AppendProperties
<1>3. DOMAIN db.pSavepoint = 1..l
  BY <1>1, Lengths
<1>4. Promised(l + 1) = d.work
  <2>1. l + 1 \notin DOMAIN db.pSavepoint
    BY <1>1, <1>3
  <2> QED
    BY <2>1 DEF Promised, SameRecords
<1>5. Marked(d) /\ Pending(d) /\ SavepointsAgreeIn(d)
  BY DEF Kept
<1> HIDE DEF a
<1>6. p.nSavepoint = d.nSavepoint /\ n = d.nSavepoint + 1 /\ n \in Nat
  BY <1>1 DEF DbType
<1> HIDE DEF n
<1>7. ASSUME db.autoCommit
      PROVE  Kept(t) /\ NoneOpen(t)
  <2>1. d.pSavepoint = <<>> /\ l = 0 /\ d.nSavepoint = 0
        /\ Len(d.aSavepoint) = 0
    <3>1. d.pSavepoint = <<>>
      BY <1>5, <1>7 DEF SavepointsAgreeIn
    <3>2. l = 0
      BY <3>1, EmptySeq
    <3> QED
      BY <1>1, <1>5, <3>1, <3>2 DEF SavepointsAgreeIn, One, NoneOpen
  <2>2. d.work = d.disk /\ d.inTrans # "write"
    <3>1. db.inTrans # "write"
      BY <1>7 DEF TInv, TransactionIsOwned
    <3> QED
      BY <1>5, <3>1 DEF Pending
  <2>3. /\ t \in DbType /\ t.pSavepoint = a /\ t.nSavepoint = d.nSavepoint
        /\ ~t.autoCommit /\ t.inTrans = d.inTrans /\ t.isTransactionSavepoint
        /\ t.work = d.work /\ t.disk = d.disk /\ t.aSavepoint = d.aSavepoint
        /\ t.nStatement = d.nStatement
    BY <1>1, <1>2 DEF DbType
  <2> HIDE DEF t
  <2>4. RecordIs(t, Place(t, 1), Promised(1))
    <3>1. Place(t, 1) = 0
      BY <2>3 DEF Place, One
    <3>2. Promised(1) = t.disk
      BY <1>4, <2>1, <2>2, <2>3
    <3> QED
      BY <1>1, <2>3, <3>1, <3>2, Lengths DEF RecordIs
  <2>5. Marked(t)
    <3>1. Len(t.pSavepoint) = 1
      BY <1>2, <2>1, <2>3
    <3>2. \A i \in 1..1 : i = 1
      OBVIOUS
    <3> QED
      BY <2>4, <3>1, <3>2 DEF Marked
  <2>6. SavepointsAgreeIn(t) /\ Pending(t) /\ NoneOpen(t)
    BY <1>2, <1>5, <2>1, <2>3 DEF SavepointsAgreeIn, One, Pending, NoneOpen
  <2>7. Len(t.pSavepoint) <= Len(db.pSavepoint) + 1
    BY <1>1, <1>2, <2>3
  <2>8. db.inTrans = "write" => t.inTrans = "write"
    BY <2>3
  <2>9. t \in DbType
    BY <2>3
  <2> QED
    BY <2>5, <2>6, <2>7, <2>8, <2>9 DEF Kept
<1>8. ASSUME ~db.autoCommit
      PROVE  Kept(u) /\ NoneOpen(u)
  <2>1. /\ u \in DbType /\ u.pSavepoint = a /\ u.nSavepoint = n
        /\ u.autoCommit = d.autoCommit /\ u.inTrans = d.inTrans
        /\ u.isTransactionSavepoint = d.isTransactionSavepoint
        /\ u.work = d.work /\ u.disk = d.disk /\ u.aSavepoint = d.aSavepoint
        /\ u.nStatement = d.nStatement
    BY <1>1, <1>2, <1>6 DEF DbType
  <2> HIDE DEF u
  <2>3. SavepointsAgreeIn(u) /\ NoneOpen(u) /\ Pending(u)
    BY <1>1, <1>2, <1>5, <1>6, <1>8, <2>1 DEF SavepointsAgreeIn, One, NoneOpen, Pending
  <2>4. Marked(u)
    <3> SUFFICES ASSUME NEW i \in 1..(l + 1)
                 PROVE  RecordIs(u, Place(u, i), Promised(i))
      BY <1>2, <2>1 DEF Marked
    <3>1. CASE i \in 1..l
      <4>1. RecordIs(d, Place(d, i), Promised(i))
        BY <1>5, <3>1 DEF Marked
      <4> QED
        BY <2>1, <4>1 DEF RecordIs, Place
    <3>2. CASE i = l + 1
      <4>1. Place(u, i) = n
        BY <1>1, <1>2, <1>5, <1>6, <2>1, <3>2 DEF SavepointsAgreeIn, Place, One
      <4>2. n > Len(u.aSavepoint) /\ n # 0 /\ ~(n \in 1..Len(u.aSavepoint))
        BY <1>1, <1>6, <2>1 DEF NoneOpen
      <4> QED
        BY <1>4, <2>1, <3>2, <4>1, <4>2 DEF RecordIs
    <3> QED
      BY <1>1, <3>1, <3>2
  <2> QED
    BY <1>1, <1>2, <1>8, <2>1, <2>3, <2>4 DEF Kept, u
<1> QED
  BY <1>7, <1>8 DEF a, n
-----------------------------------------------------------------------------
(* Halting.                                                                *)

\* Every savepoint is gone, of the list and of the pager.
Dropped(d) ==
    /\ d.pSavepoint = <<>> /\ d.nSavepoint = 0
    /\ d.nStatement = 0 /\ d.aSavepoint = <<>>

\* From d to e: the transaction goes on, and the statement transaction of v,
\* if it had one, is undone or kept.
Settled(d, e, undo) ==
    /\ e.nSavepoint = d.nSavepoint /\ e.pSavepoint = d.pSavepoint
    /\ e.isTransactionSavepoint = d.isTransactionSavepoint
    /\ e.disk = d.disk /\ e.inTrans = d.inTrans /\ e.nStatement = 0
    /\ \/ /\ NoneOpen(d)
          /\ e.aSavepoint = d.aSavepoint /\ e.work = d.work
       \/ /\ d.nStatement = 1
          /\ Len(d.aSavepoint) = d.nSavepoint + 1
          /\ Len(e.aSavepoint) = d.nSavepoint
          /\ \A j \in 1..d.nSavepoint : e.aSavepoint[j] = d.aSavepoint[j]
          /\ e.work = IF undo THEN d.aSavepoint[d.nSavepoint + 1] ELSE d.work

\* sqlite3VdbeCloseStatement.
LEMMA CloseStatementSettles ==
    ASSUME NEW d \in DbType, NEW v \in VmType, NoneOpen(d) \/ OnTop(d, v),
           NEW undo \in BOOLEAN
    PROVE  LET h == CloseStatement(d, v, undo)
           IN  Settled(d, h.db, undo) /\ h.vm.errorAction = v.errorAction
<1>1. CASE NoneOpen(d)
  BY <1>1 DEF CloseStatement, NoneOpen, Settled
<1>2. CASE OnTop(d, v)
  <2> DEFINE n == d.nSavepoint
             a == SubSeq(d.aSavepoint, 1, n + 1)
             c == d.aSavepoint[n + 1]
             e == IF undo THEN SavepointRollback(d, n) ELSE d
             b == SubSeq(e.aSavepoint, 1, n)
             f == SavepointRelease(e, n)
             g == [f EXCEPT !.nStatement = 0]
             h == CloseStatement(d, v, undo)
  <2>1. /\ n \in Nat /\ Len(d.aSavepoint) = n + 1 /\ d.aSavepoint \in Seq(SUBSET Keys)
        /\ v.iStatement - 1 = n /\ v.iStatement # 0 /\ d.nStatement = 1
        /\ d.inTrans = "write"
        /\ \A j \in 1..(n + 1) : d.aSavepoint[j] \in SUBSET Keys
    BY <1>2, Lengths DEF OnTop, DbType
  <2>2. Len(a) = n + 1 /\ a \in Seq(SUBSET Keys)
        /\ \A j \in 1..(n + 1) : a[j] = d.aSavepoint[j]
    <3>1. 1 \in Int /\ n + 1 \in Int /\ 1 <= n + 1 /\ (n + 1) - 1 + 1 = n + 1
          /\ \A j \in 1..(n + 1) : 1 + j - 1 = j
      BY <2>1
    <3>2. /\ a \in Seq(SUBSET Keys)
          /\ Len(a) = IF 1 <= n + 1 THEN (n + 1) - 1 + 1 ELSE 0
          /\ \A j \in 1..((n + 1) - 1 + 1) : a[j] = d.aSavepoint[1 + j - 1]
      BY ONLY <2>1, <3>1, SubSeqProperties
    <3> QED
      BY ONLY <3>1, <3>2
  <2>3. PagerStep(d, e)
    <3>1. PagerStep(d, d)
      BY DEF PagerStep
    <3> QED
      BY <2>1, <3>1, SavepointRollbackStep
  <2>4. /\ e.inTrans = "write" /\ e.disk = d.disk
        /\ Len(e.aSavepoint) = n + 1
        /\ \A j \in 1..(n + 1) : e.aSavepoint[j] = d.aSavepoint[j]
        /\ e.work = IF undo THEN c ELSE d.work
    <3>1. CASE undo
      <4>1. e = [d EXCEPT !.work = c, !.aSavepoint = a]
        <5>1. n < Len(d.aSavepoint) /\ ~(n < 0)
          BY <2>1
        <5> QED
          BY <2>1, <3>1, <5>1 DEF SavepointRollback
      <4>2. /\ e.inTrans = d.inTrans /\ e.disk = d.disk /\ e.aSavepoint = a
            /\ e.work = c
        BY <4>1 DEF DbType
      <4> HIDE DEF a, c, e
      <4> QED
        BY <2>1, <2>2, <3>1, <4>2
    <3>2. CASE ~undo
      BY <2>1, <3>2
    <3> QED  BY <3>1, <3>2
  <2>5. h.db = [f EXCEPT !.nStatement = @ - 1] /\ h.vm = [v EXCEPT !.iStatement = 0]
    BY <2>1 DEF CloseStatement
  <2> HIDE DEF e, h, c, n
  <2>6. e \in DbType /\ e.aSavepoint \in Seq(SUBSET Keys)
    BY <2>3 DEF PagerStep, DbType
  <2>7. Len(b) = n /\ \A j \in 1..n : b[j] = d.aSavepoint[j]
    <3>1. \A j \in 1..n : e.aSavepoint[j] \in SUBSET Keys
      <4>1. \A j \in 1..n : j \in 1..(n + 1)
        BY <2>1
      <4> QED
        BY <2>1, <2>4, <4>1
    <3>2. Len(b) = n /\ \A j \in 1..n : b[j] = e.aSavepoint[j]
      BY <2>1, <2>4, <2>6, <3>1, SubSeqProperties
    <3> QED
      BY <2>1, <2>4, <3>2
  <2>8. f = [e EXCEPT !.aSavepoint = b]
    <3>1. n < Len(e.aSavepoint)
      BY <2>1, <2>4
    <3> QED
      BY <2>4, <3>1 DEF SavepointRelease
  <2> HIDE DEF b
  <2>9. /\ f.inTrans = e.inTrans /\ f.disk = e.disk /\ f.aSavepoint = b
        /\ f.work = e.work
    BY <2>6, <2>8 DEF DbType
  <2>10. PagerStep(e, f)
    BY <2>1, <2>6, SavepointReleaseStep
  <2> HIDE DEF f
  <2>11. h.db = g
    <3>1. f.nStatement - 1 = 0
      BY <2>1, <2>3, <2>10 DEF PagerStep
    <3> QED
      BY <2>5, <3>1
  <2>12. /\ g.inTrans = f.inTrans /\ g.disk = f.disk /\ g.aSavepoint = f.aSavepoint
         /\ g.work = f.work /\ g.nStatement = 0 /\ g.nSavepoint = f.nSavepoint
         /\ g.pSavepoint = f.pSavepoint
         /\ g.isTransactionSavepoint = f.isTransactionSavepoint
    BY <2>10 DEF PagerStep, DbType
  <2> HIDE DEF g
  <2>13. Settled(d, g, undo)
    BY <2>1, <2>3, <2>4, <2>7, <2>9, <2>10, <2>12 DEF PagerStep, Settled, n, c
  <2>14. h.vm.errorAction = v.errorAction
    BY <2>5 DEF VmType
  <2> QED
    BY <2>11, <2>13, <2>14 DEF h
<1> QED
  BY <1>1, <1>2

\* A commit or rollback of the b-tree leaves no savepoint of the pager.
LEMMA BtreeClears ==
    ASSUME NEW d \in DbType, Pending(d)
    PROVE  /\ BtreeCommit(d).aSavepoint = <<>>
           /\ RollbackAll(d).aSavepoint = <<>>
           /\ RollbackAll(d).work = d.disk /\ RollbackAll(d).disk = d.disk
           /\ RollbackAll(d).inTrans # "write"
<1>1. CASE d.inTrans = "write"
  BY <1>1 DEF DbType, BtreeCommit, RollbackAll, EndTransaction
<1>2. CASE d.inTrans # "write"
  BY <1>2 DEF DbType, BtreeCommit, RollbackAll, EndTransaction, Pending
<1> QED
  BY <1>1, <1>2

\* Abandoning the transaction leaves none in either list.
LEMMA AbandonDrops ==
    ASSUME NEW d \in DbType, Pending(d)
    PROVE  Dropped(AbandonTransaction(d))
<1> DEFINE r == RollbackAll(d)
<1>1. r \in DbType /\ r.aSavepoint = <<>>
  BY BtreeClears, RollbackAllStep DEF PagerStep
<1>2. AbandonTransaction(d) = [CloseSavepoints(r) EXCEPT !.autoCommit = TRUE]
  BY DEF AbandonTransaction
<1> HIDE DEF r
<1> QED
  BY <1>1, <1>2 DEF CloseSavepoints, DbType, Dropped

\* In autocommit mode there are no savepoints.
LEMMA NoneInAutoCommit ==
    ASSUME NEW d \in DbType, SavepointsAgreeIn(d), d.autoCommit
    PROVE  d.pSavepoint = <<>> /\ d.nSavepoint = 0
<1>1. d.pSavepoint = <<>>
  BY DEF SavepointsAgreeIn
<1>2. Len(d.pSavepoint) = 0
  BY <1>1, EmptySeq
<1> QED
  BY <1>1, <1>2, Lengths DEF SavepointsAgreeIn, One

\* The end of a statement drops every savepoint or settles its own statement
\* transaction.  After a constraint under ON CONFLICT ABORT it rolls back the
\* transaction, when the statement is alone in it, or what it did itself.
LEMMA EndOfStatementSettles ==
    ASSUME NEW d \in DbType, NEW v \in VmType, NEW full \in BOOLEAN,
           Pending(d), SavepointsAgreeIn(d), NoneOpen(d) \/ OnTop(d, v)
    PROVE  LET h == EndOfStatement(d, v, full)
           IN  /\ Dropped(h.db) \/ \E undo \in BOOLEAN : Settled(d, h.db, undo)
               /\ h.vm.errorAction = v.errorAction
               /\ v.rc = "constraint" /\ v.errorAction = "abort"
                     => IF OnlyWriter(d, v) THEN h.db.work = d.disk
                                            ELSE Settled(d, h.db, TRUE)
<1> DEFINE special  == v.rc = "nomem"
           stmtUndo == special /\ UsesStmtJournal(v.sql)
           d1       == IF special /\ ~stmtUndo THEN AbandonTransaction(d) ELSE d
           keep     == v.rc = "ok" \/ (v.errorAction = "fail" /\ ~special)
           c        == BtreeCommit(d1)
           r        == RollbackAll(d1)
           hc       == [db |-> [c EXCEPT !.nStatement = 0], vm |-> v]
           hr       == [db |-> [r EXCEPT !.nStatement = 0],
                        vm |-> IF keep THEN [v EXCEPT !.rc = "full"] ELSE v]
           ha       == [db |-> AbandonTransaction(d1), vm |-> v]
           h        == EndOfStatement(d, v, full)
           failed   == v.rc = "constraint" /\ v.errorAction = "abort"
<1>1. \/ h = hc /\ OnlyWriter(d1, v) /\ ~failed
      \/ h = hr /\ OnlyWriter(d1, v)
      \/ h = ha /\ ~failed
      \/ \E undo \in BOOLEAN : /\ h = CloseStatement(d1, v, undo)
                               /\ ~OnlyWriter(d1, v)
                               /\ failed => undo
  BY DEF EndOfStatement
<1>2. \/ d1 = d
      \/ d1 = AbandonTransaction(d) /\ ~failed
  OBVIOUS
<1>3. /\ d1 \in DbType /\ Pending(d1) /\ SavepointsAgreeIn(d1)
      /\ NoneOpen(d1) \/ (d1 = d /\ OnTop(d1, v))
      /\ d1 = d \/ Dropped(d1)
  <2>1. CASE d1 = d
    <3> HIDE DEF d1
    <3> QED  BY <2>1
  <2>2. CASE d1 = AbandonTransaction(d)
    <3> DEFINE a == AbandonTransaction(d)
    <3>1. Halting(d, a) /\ Dropped(a) /\ Pending(a)
      BY AbandonTransactionStep, AbandonDrops, AbandonEnds DEF Ended
    <3> HIDE DEF a, d1
    <3>2. SavepointsAgreeIn(a) /\ a \in DbType
      BY <3>1, KeptSavepointsAgree DEF Halting
    <3>3. NoneOpen(a)
      BY <3>1, EmptySeq DEF NoneOpen, Dropped
    <3> QED  BY <2>2, <3>1, <3>2, <3>3 DEF a
  <2> QED  BY <1>2, <2>1, <2>2
<1> HIDE DEF d1, h, failed, keep
<1>4. /\ PagerStep(d1, c) /\ c.aSavepoint = <<>>
      /\ PagerStep(d1, r) /\ r.aSavepoint = <<>>
      /\ r.work = d1.disk
  BY <1>3, BtreeCommitStep, RollbackAllStep, BtreeClears
<1> HIDE DEF c, r
<1>5. OnlyWriter(d1, v) => d1.pSavepoint = <<>> /\ d1.nSavepoint = 0
  BY <1>3, NoneInAutoCommit DEF OnlyWriter
<1>6. CASE h = hc /\ OnlyWriter(d1, v) /\ ~failed
  <2>1. Dropped(h.db)
    BY <1>4, <1>5, <1>6 DEF PagerStep, DbType, Dropped
  <2>2. h.vm.errorAction = v.errorAction
    BY <1>6
  <2> QED  BY <1>6, <2>1, <2>2 DEF h, failed
<1>7. CASE h = hr /\ OnlyWriter(d1, v)
  <2>1. Dropped(h.db) /\ h.db.work = d1.disk
    BY <1>4, <1>5, <1>7 DEF PagerStep, DbType, Dropped
  <2>2. h.vm.errorAction = v.errorAction
    <3>1. h.vm = v \/ h.vm = [v EXCEPT !.rc = "full"]
      BY <1>7
    <3> QED
      BY <3>1 DEF VmType
  <2>3. failed => d1 = d
    BY <1>2
  <2> QED  BY <1>7, <2>1, <2>2, <2>3 DEF h, failed
<1>8. CASE h = ha /\ ~failed
  <2>1. Dropped(h.db) /\ h.vm = v
    BY <1>3, <1>8, AbandonDrops
  <2> QED  BY <1>8, <2>1 DEF h, failed
<1>9. CASE \E undo \in BOOLEAN : /\ h = CloseStatement(d1, v, undo)
                                 /\ ~OnlyWriter(d1, v)
                                 /\ failed => undo
  <2>1. PICK undo \in BOOLEAN : /\ h = CloseStatement(d1, v, undo)
                                /\ ~OnlyWriter(d1, v)
                                /\ failed => undo
    BY <1>9
  <2>2. Settled(d1, h.db, undo) /\ h.vm.errorAction = v.errorAction
    BY <1>3, <2>1, CloseStatementSettles
  <2>3. CASE d1 = d
    BY <2>1, <2>2, <2>3 DEF h, failed
  <2>4. CASE d1 # d
    <3>1. Dropped(d1) /\ ~failed
      BY <1>2, <1>3, <2>4
    <3>2. Dropped(h.db)
      BY <2>2, <3>1 DEF Dropped, Settled, NoneOpen
    <3> QED
      BY <2>2, <3>1, <3>2 DEF h, failed
  <2> QED  BY <2>3, <2>4
<1> QED
  BY <1>1, <1>6, <1>7, <1>8, <1>9

\* sqlite3VdbeHalt of an active program.
LEMMA HaltSettles ==
    ASSUME NEW d \in DbType, NEW v \in VmType, NEW full \in BOOLEAN, Busy(v),
           Pending(d), SavepointsAgreeIn(d), NoneOpen(d) \/ OnTop(d, v),
           ~IsReader(v.sql) => NoneOpen(d)
    PROVE  LET h == Halt(d, v, full)
           IN  /\ Dropped(h.db) \/ \E undo \in BOOLEAN : Settled(d, h.db, undo)
               /\ h.vm.errorAction = v.errorAction
               /\ v.rc = "constraint" /\ v.errorAction = "abort" /\ IsReader(v.sql)
                     => IF OnlyWriter(d, v) THEN h.db.work = d.disk
                                            ELSE Settled(d, h.db, TRUE)
<1> DEFINE g == IF IsReader(v.sql) THEN EndOfStatement(d, v, full)
                                   ELSE [db |-> d, vm |-> v]
           e == g.db
           w == g.vm
           a == e.nVdbeActive - 1
           b == e.nVdbeWrite - One(IsWriter(v.sql))
           c == e.nVdbeRead - One(IsReader(v.sql))
           f == [e EXCEPT !.nVdbeActive = a, !.nVdbeWrite = b, !.nVdbeRead = c]
           x == [w EXCEPT !.magic = "halt", !.left = 0, !.at = 0]
           Fine(y) == Dropped(y) \/ \E undo \in BOOLEAN : Settled(d, y, undo)
           failed == v.rc = "constraint" /\ v.errorAction = "abort" /\ IsReader(v.sql)
           Undone(y) == failed => IF OnlyWriter(d, v) THEN y.work = d.disk
                                                      ELSE Settled(d, y, TRUE)
<1>1. e \in DbType /\ w \in VmType
  BY EndOfStatementStep DEF Halting
<1>2. Fine(e) /\ w.errorAction = v.errorAction /\ Undone(e)
  <2>1. CASE IsReader(v.sql)
    BY <2>1, EndOfStatementSettles
  <2>2. CASE ~IsReader(v.sql)
    <3>1. Settled(d, d, FALSE)
      BY <2>2 DEF Settled, NoneOpen
    <3> QED
      BY <2>2, <3>1
  <2> QED  BY <2>1, <2>2
<1>3. Halt(d, v, full) = [db |-> f, vm |-> x]
  BY DEF Halt, Busy, One
<1> HIDE DEF g, a, b, c
<1>4. /\ f.autoCommit = e.autoCommit /\ f.nStatement = e.nStatement
      /\ f.nSavepoint = e.nSavepoint /\ f.pSavepoint = e.pSavepoint
      /\ f.isTransactionSavepoint = e.isTransactionSavepoint
      /\ f.inTrans = e.inTrans /\ f.disk = e.disk /\ f.work = e.work
      /\ f.aSavepoint = e.aSavepoint
  BY <1>1 DEF DbType
<1>5. x.errorAction = w.errorAction
  BY <1>1 DEF VmType
<1> HIDE DEF f, x, e, w
<1>6. Dropped(e) => Dropped(f)
  BY <1>4 DEF Dropped
<1>7. \A undo \in BOOLEAN : Settled(d, e, undo) => Settled(d, f, undo)
  BY <1>4 DEF Settled
<1>8. Fine(f) /\ Undone(f)
  BY <1>2, <1>4, <1>6, <1>7
<1> HIDE DEF Fine, Undone
<1>9. LET h == [db |-> f, vm |-> x]
      IN  Fine(h.db) /\ h.vm.errorAction = v.errorAction /\ Undone(h.db)
  BY <1>2, <1>5, <1>8
<1> QED
  BY <1>3, <1>9 DEF Fine, Undone

\* Nothing is promised when no savepoint is left.
LEMMA DroppedResult ==
    ASSUME TypeOK, NEW e, Dropped(e)
    PROVE  Result(e)
<1>1. Len(e.pSavepoint) = 0 /\ Len(e.aSavepoint) = 0
  BY EmptySeq DEF Dropped
<1>2. Len(db.pSavepoint) \in Nat
  BY Lengths DEF TypeOK
<1>3. NoneOpen(e)
  BY <1>1 DEF Dropped, NoneOpen
<1>4. Marked(e)
  BY <1>1 DEF Marked
<1>5. Len(e.pSavepoint) <= Len(db.pSavepoint) + 1
  BY <1>1, <1>2
<1> QED
  BY <1>3, <1>4, <1>5 DEF Dropped, Result

\* A step after which its statement is active.
LEMMA ActiveResult ==
    ASSUME NEW d, Kept(d), NoneOpen(d)
    PROVE  Result(d)
BY DEF Kept, Result

\* A statement transaction that is closed leaves the savepoints below it.
LEMMA SettledResult ==
    ASSUME NEW d, Kept(d), NEW e, NEW undo \in BOOLEAN, Settled(d, e, undo)
    PROVE  Result(e)
<1>1. d \in DbType /\ Marked(d) /\ SavepointsAgreeIn(d)
  BY DEF Kept
<1>2. CASE NoneOpen(d) /\ e.aSavepoint = d.aSavepoint /\ e.work = d.work
  <2>1. SameRecords(d, e) /\ NoneOpen(e)
    BY <1>2 DEF Settled, SameRecords, NoneOpen
  <2>2. Marked(e)
    BY <1>1, <2>1, SameRecordsMarked
  <2> QED
    BY <2>1, <2>2 DEF Kept, Settled, Result
<1>3. CASE /\ d.nStatement = 1 /\ Len(d.aSavepoint) = d.nSavepoint + 1
           /\ Len(e.aSavepoint) = d.nSavepoint
           /\ \A j \in 1..d.nSavepoint : e.aSavepoint[j] = d.aSavepoint[j]
  <2>1. d.nSavepoint \in Nat
    BY <1>1, Lengths
  <2>2. NoneOpen(e)
    BY <1>3, <2>1 DEF Settled, NoneOpen
  <2>3. Marked(e)
    <3> SUFFICES ASSUME NEW i \in 1..Len(d.pSavepoint)
                 PROVE  RecordIs(e, Place(d, i), Promised(i))
      BY DEF Marked, Settled, Place
    <3> DEFINE k == Place(d, i)
               c == Promised(i)
    <3>1. k \in Nat /\ k <= d.nSavepoint /\ RecordIs(d, k, c)
      BY <1>1, Lengths, PlaceInCount DEF Marked
    <3> HIDE DEF k, c
    <3>2. k \in 1..d.nSavepoint => k \in 1..Len(d.aSavepoint)
      BY <1>3, <2>1
    <3>3. ~(k > Len(e.aSavepoint))
      BY <1>3, <2>1, <3>1
    <3>4. e.disk = d.disk
      BY DEF Settled
    <3>5. k = 0 => c = e.disk
      BY <3>1, <3>4 DEF RecordIs
    <3>6. k \in 1..Len(e.aSavepoint) => c = e.aSavepoint[k]
      BY <1>3, <3>1, <3>2 DEF RecordIs
    <3> QED
      BY <3>3, <3>5, <3>6 DEF RecordIs, k, c
  <2> QED
    BY <2>2, <2>3 DEF Kept, Settled, Result
<1> QED
  BY <1>2, <1>3 DEF Settled

\* A step that ends its program.
LEMMA HaltResult ==
    ASSUME TypeOK, NEW d, Kept(d), NEW v \in VmType, Busy(v),
           NEW full \in BOOLEAN, NoneOpen(d) \/ OnTop(d, v),
           ~IsReader(v.sql) => NoneOpen(d)
    PROVE  Result(Halt(d, v, full).db)
<1> DEFINE e == Halt(d, v, full).db
<1>1. Dropped(e) \/ \E undo \in BOOLEAN : Settled(d, e, undo)
  BY HaltSettles DEF Kept
<1> HIDE DEF e
<1>2. CASE Dropped(e)
  BY <1>2, DroppedResult DEF e
<1>3. CASE \E undo \in BOOLEAN : Settled(d, e, undo)
  BY <1>3, SettledResult DEF e
<1> QED
  BY <1>1, <1>2, <1>3

\* The list and the records agree again after the step.
LEMMA ResultKeepsMInv ==
    ASSUME MInv, IInv', TInv', NEW e, db' = e, Result(e),
           marks' = IF Len(db'.pSavepoint) > Len(db.pSavepoint)
                    THEN Append(marks, db.work)
                    ELSE [i \in DOMAIN db'.pSavepoint |->
                             IF FailedRelease THEN db'.work ELSE marks[i]]
    PROVE  MInv'
<1> DEFINE failed == db.inTrans = "write" /\ e.inTrans # "write" /\ e.pSavepoint # <<>>
           grown == Len(e.pSavepoint) > Len(db.pSavepoint)
           m == IF grown THEN Append(marks, db.work)
                ELSE [i \in DOMAIN e.pSavepoint |-> IF failed THEN e.work ELSE marks[i]]
           l == Len(e.pSavepoint)
<1>1. e \in DbType /\ SavepointsAgreeIn(e)
  BY DEF IInv, TypeOK, SavepointsAgree, SavepointsAgreeIn, One
<1>2. db \in DbType /\ marks \in Seq(SUBSET Keys) /\ Len(marks) = Len(db.pSavepoint)
  BY DEF MInv, IInv, TypeOK
<1>3. marks' = m
  BY DEF FailedRelease
<1>4. /\ l \in Nat /\ Len(db.pSavepoint) \in Nat /\ DOMAIN e.pSavepoint = 1..l
      /\ DOMAIN db.pSavepoint = 1..Len(db.pSavepoint)
      /\ db.work \in SUBSET Keys /\ e.work \in SUBSET Keys
  BY <1>1, <1>2, Lengths DEF DbType
<1>5. l <= Len(db.pSavepoint) + 1
  BY DEF Result
<1>6. failed => e.work = e.disk /\ e.aSavepoint = <<>> /\ ~grown
  <2> SUFFICES ASSUME failed PROVE e.work = e.disk /\ e.aSavepoint = <<>> /\ ~grown
    OBVIOUS
  <2>1. e.work = e.disk /\ e.aSavepoint = <<>> /\ Len(e.pSavepoint) <= Len(db.pSavepoint)
    BY DEF Result
  <2> QED  BY <1>4, <2>1
<1>7. ~failed => Marked(e)
  BY DEF Result
<1>8. ASSUME NEW i \in 1..l, i <= Len(db.pSavepoint)
      PROVE  marks[i] \in SUBSET Keys /\ marks[i] = Promised(i)
  <2>1. i \in 1..Len(marks) /\ i \in DOMAIN db.pSavepoint
    BY <1>2, <1>4, <1>8
  <2> QED
    BY <1>2, <2>1, ElementOfSeq DEF Promised
<1>9. /\ m \in Seq(SUBSET Keys) /\ Len(m) = l
      /\ \A i \in 1..l : m[i] = IF failed THEN e.work ELSE Promised(i)
  <2>1. CASE grown
    <3>1. l = Len(db.pSavepoint) + 1 /\ m = Append(marks, db.work)
      BY <1>4, <1>5, <2>1
    <3>2. /\ m \in Seq(SUBSET Keys) /\ Len(m) = l
          /\ \A i \in 1..Len(marks) : m[i] = marks[i]
          /\ m[Len(marks) + 1] = db.work
      BY <1>2, <1>4, <3>1, AppendProperties
    <3> HIDE DEF m
    <3>3. ASSUME NEW i \in 1..l
          PROVE  m[i] = Promised(i)
      <4>1. CASE i = l
        <5>1. i \notin DOMAIN db.pSavepoint
          BY <1>4, <3>1, <4>1
        <5> QED
          BY <1>2, <3>1, <3>2, <4>1, <5>1 DEF Promised
      <4>2. CASE i # l
        <5>1. i <= Len(db.pSavepoint) /\ i \in 1..Len(marks)
          BY <1>2, <1>4, <3>1, <4>2
        <5> QED
          BY <1>8, <3>2, <5>1
      <4> QED  BY <4>1, <4>2
    <3> HIDE DEF failed
    <3> QED
      BY <1>6, <2>1, <3>2, <3>3
  <2>2. CASE ~grown
    <3>1. m = [i \in 1..l |-> IF failed THEN e.work ELSE marks[i]]
      BY <1>4, <2>2
    <3>2. \A i \in 1..l : i <= Len(db.pSavepoint)
      BY <1>4, <2>2
    <3>3. \A i \in 1..l : (IF failed THEN e.work ELSE marks[i]) \in SUBSET Keys
      BY <1>4, <1>8, <3>2
    <3>4. m \in [1..l -> SUBSET Keys]
      BY <3>1, <3>3
    <3>5. m \in Seq(SUBSET Keys)
      <4>1. l \in Nat
        BY <1>4
      <4> HIDE DEF m, l
      <4> QED
        BY <3>4, <4>1, SeqDef
    <3>6. Len(m) = l
      BY <1>4, <3>4, <3>5, LenProperties
    <3>7. \A i \in 1..l : m[i] = IF failed THEN e.work ELSE Promised(i)
      BY <1>8, <3>1, <3>2
    <3> QED  BY <3>5, <3>6, <3>7
  <2> QED  BY <2>1, <2>2
<1> HIDE DEF m
<1>10. ASSUME NEW i \in 1..l
       PROVE  RecordIs(e, Place(e, i), m[i])
  <2>1. CASE failed
    <3>1. m[i] = e.work /\ e.work = e.disk /\ Len(e.aSavepoint) = 0
      BY <1>6, <1>9, <2>1, EmptySeq
    <3> QED
      BY <3>1 DEF RecordIs
  <2>2. CASE ~failed
    <3>1. m[i] = Promised(i)
      BY <1>9, <2>2
    <3> QED
      BY <1>7, <2>2, <3>1 DEF Marked
  <2> QED  BY <2>1, <2>2
<1>11. ASSUME NEW i \in DOMAIN e.pSavepoint
       PROVE  LET j == e.nSavepoint - (Len(e.pSavepoint) - i) - 1 + 1
              IN  CASE j = 0 -> m[i] = e.disk
                    [] j \in DOMAIN e.aSavepoint -> m[i] = e.aSavepoint[j]
                    [] OTHER -> m[i] = e.work
  <2> DEFINE j == e.nSavepoint - (Len(e.pSavepoint) - i) - 1 + 1
  <2>1. i \in 1..l
    BY <1>4
  <2>2. j = Place(e, i) /\ j \in Nat /\ DOMAIN e.aSavepoint = 1..Len(e.aSavepoint)
        /\ Len(e.aSavepoint) \in Nat
    BY <1>1, <2>1, Lengths, SMTT(20) DEF SavepointsAgreeIn, Place, One
  <2>3. RecordIs(e, j, m[i])
    BY <1>10, <2>1, <2>2
  <2> HIDE DEF j
  <2>4. CASE j = 0
    BY <2>2, <2>3, <2>4 DEF RecordIs, j
  <2>5. CASE j \in DOMAIN e.aSavepoint
    BY <2>2, <2>3, <2>5 DEF RecordIs, j
  <2>6. CASE j # 0 /\ j \notin DOMAIN e.aSavepoint
    BY <2>2, <2>3, <2>6 DEF RecordIs, j
  <2> QED  BY <2>4, <2>5, <2>6
<1>12. SavepointsHoldMarks'
  BY <1>3, <1>11 DEF SavepointsHoldMarks, BtreeIndex
<1>13. NoneOpen(db)'
  BY DEF Result, NoneOpen
<1> QED
  BY <1>3, <1>9, <1>12, <1>13 DEF MInv
-----------------------------------------------------------------------------
(* The steps.  Each ends in a connection that is a Result.                 *)

Lands == \E e : db' = e /\ Result(e)

\* In the middle of a step of s, before its end.
Midstep(s, d, v) ==
    /\ Midway(s, d, v)
    /\ Kept(d)
    /\ NoneOpen(d) \/ (OnTop(d, v) /\ IsReader(v.sql))

\* Steps that end their program, and steps after which it is active.
LEMMA FinishLands ==
    ASSUME TypeOK, NEW s \in Stmts, NEW d, NEW v, Midstep(s, d, v),
           NEW rc \in Codes, Finish(s, d, v, rc)
    PROVE  Lands
<1>1. PICK full \in BOOLEAN :
         LET h == Halt(d, [v EXCEPT !.rc = rc], full) IN Apply(s, h.db, h.vm)
  BY VdbeAssumption DEF Finish
<1> DEFINE w == [v EXCEPT !.rc = rc]
           e == Halt(d, w, full).db
<1>2. w \in VmType /\ Busy(w) /\ w.sql = v.sql /\ w.iStatement = v.iStatement
  BY DEF Midstep, Midway, VmType, Busy, Codes
<1>3. db' = e
  BY <1>1 DEF Apply
<1> HIDE DEF w
<1>4. Kept(d) /\ (NoneOpen(d) \/ OnTop(d, w)) /\ (~IsReader(w.sql) => NoneOpen(d))
  BY <1>2 DEF Midstep, OnTop
<1>5. Result(e)
  BY <1>2, <1>4, HaltResult
<1> QED
  BY <1>3, <1>5 DEF Lands

LEMMA ActiveLands ==
    ASSUME NEW s \in Stmts, NEW d, NEW w, Kept(d), NoneOpen(d), Apply(s, d, w)
    PROVE  Lands
BY ActiveResult DEF Apply, Lands

\* The entry of sqlite3_step changes the counters only.
LEMMA EnterKept ==
    ASSUME MInv, RunningIsOk, NEW s \in Stmts, vm[s].magic # "dead"
    PROVE  LET e == Enter(s)
           IN  /\ Midstep(s, e.db, e.vm) /\ Running(s, e.db)
               /\ Kept(e.db) /\ NoneOpen(e.db) /\ SameRecords(db, e.db)
               /\ e.db.inTrans = db.inTrans /\ e.db.autoCommit = db.autoCommit
<1> DEFINE e == Enter(s)
<1>1. Midway(s, e.db, e.vm) /\ Running(s, e.db) /\ SavepointsAgreeIn(e.db)
  BY EnterMidway, Entered DEF MInv
<1>2. db \in DbType /\ Kept(db) /\ NoneOpen(db)
  BY MarksAreKept DEF Kept
<1>3. /\ SameRecords(db, e.db) /\ e.db.nStatement = db.nStatement
      /\ e.db.inTrans = db.inTrans /\ e.db.autoCommit = db.autoCommit
  BY <1>2 DEF Enter, DbType, SameRecords
<1> HIDE DEF e
<1>4. Marked(e.db)
  BY <1>2, <1>3, SameRecordsMarked DEF Kept
<1>5. Kept(e.db) /\ NoneOpen(e.db)
  BY <1>1, <1>2, <1>3, <1>4 DEF Kept, NoneOpen, SameRecords, Pending, Midway
<1> QED
  BY <1>1, <1>3, <1>5 DEF Midstep, e

\* Halt of a program with no error and no statement transaction: alone in
\* autocommit mode it ends the transaction, otherwise it changes nothing the
\* savepoints depend on.
LEMMA HaltOk ==
    ASSUME NEW d \in DbType, Pending(d), d.nStatement = 0, NEW v \in VmType,
           v.rc = "ok", Busy(v), IsReader(v.sql), NEW full \in BOOLEAN
    PROVE  LET h == Halt(d, v, full)
           IN  /\ h.db.pSavepoint = d.pSavepoint /\ h.db.nStatement = 0
               /\ h.db.nSavepoint = d.nSavepoint
               /\ OnlyWriter(d, v) =>
                     /\ h.db.aSavepoint = <<>> /\ h.db.inTrans # "write"
                     /\ h.vm.rc # "ok" => /\ h.db.work = h.db.disk
                                          /\ d.inTrans = "write"
               /\ ~OnlyWriter(d, v) =>
                     h.db.aSavepoint = d.aSavepoint /\ h.db.work = d.work
<1> DEFINE c == [BtreeCommit(d) EXCEPT !.nStatement = 0]
           r == [RollbackAll(d) EXCEPT !.nStatement = 0]
           g == EndOfStatement(d, v, full)
           Kind(e, w) ==
               /\ e \in DbType /\ w \in VmType
               /\ e.pSavepoint = d.pSavepoint /\ e.nStatement = 0
               /\ e.nSavepoint = d.nSavepoint
               /\ OnlyWriter(d, v) =>
                     /\ e.aSavepoint = <<>> /\ e.inTrans # "write"
                     /\ w.rc # "ok" => e.work = e.disk /\ d.inTrans = "write"
               /\ ~OnlyWriter(d, v) => e.aSavepoint = d.aSavepoint /\ e.work = d.work
<1>1. \/ g = [db |-> c, vm |-> v] /\ OnlyWriter(d, v)
      \/ /\ g = [db |-> r, vm |-> [v EXCEPT !.rc = "full"]]
         /\ OnlyWriter(d, v) /\ d.inTrans = "write"
      \/ g = [db |-> d, vm |-> v] /\ ~OnlyWriter(d, v)
  BY DEF EndOfStatement, CloseStatement
<1>2. PagerStep(d, BtreeCommit(d)) /\ PagerStep(d, RollbackAll(d))
  BY BtreeCommitStep, RollbackAllStep
<1>3. /\ BtreeCommit(d).aSavepoint = <<>> /\ BtreeCommit(d).inTrans # "write"
      /\ RollbackAll(d).aSavepoint = <<>> /\ RollbackAll(d).inTrans # "write"
      /\ RollbackAll(d).work = d.disk /\ RollbackAll(d).disk = d.disk
  <2>1. BtreeCommit(d).inTrans # "write"
    BY DEF BtreeCommit, EndTransaction, DbType
  <2> QED
    BY <2>1, BtreeClears
<1>4. Kind(g.db, g.vm)
  <2>1. CASE g = [db |-> c, vm |-> v] /\ OnlyWriter(d, v)
    <3> DEFINE b == BtreeCommit(d)
    <3>1. c = [b EXCEPT !.nStatement = 0]
      OBVIOUS
    <3> HIDE DEF b, c, g
    <3> QED
      BY <1>2, <1>3, <2>1, <3>1 DEF PagerStep, DbType, b
  <2>2. CASE /\ g = [db |-> r, vm |-> [v EXCEPT !.rc = "full"]]
             /\ OnlyWriter(d, v) /\ d.inTrans = "write"
    <3> DEFINE b == RollbackAll(d)
               w == [v EXCEPT !.rc = "full"]
    <3>1. r = [b EXCEPT !.nStatement = 0] /\ g = [db |-> r, vm |-> w]
      BY <2>2
    <3>2. w \in VmType
      BY DEF VmType
    <3> HIDE DEF b, r, g, w
    <3>3. r \in DbType /\ r.pSavepoint = b.pSavepoint /\ r.nStatement = 0
          /\ r.nSavepoint = b.nSavepoint /\ r.aSavepoint = b.aSavepoint
          /\ r.inTrans = b.inTrans /\ r.work = b.work /\ r.disk = b.disk
      BY <1>2, <3>1 DEF PagerStep, DbType, b
    <3>4. g.db = r /\ g.vm = w /\ OnlyWriter(d, v) /\ d.inTrans = "write"
      BY <2>2, <3>1
    <3>5. Kind(r, w)
      BY <1>2, <1>3, <3>2, <3>3, <3>4 DEF PagerStep, b
    <3> HIDE DEF Kind
    <3> QED
      BY <3>4, <3>5
  <2>3. CASE g = [db |-> d, vm |-> v] /\ ~OnlyWriter(d, v)
    <3> HIDE DEF g
    <3> QED
      BY <2>3
  <2> HIDE DEF Kind, g, c, r
  <2> QED
    BY <1>1, <2>1, <2>2, <2>3
<1> DEFINE e == g.db
           w == g.vm
           x == e.nVdbeActive - 1
           y == e.nVdbeWrite - One(IsWriter(v.sql))
           z == e.nVdbeRead - One(IsReader(v.sql))
           f == [e EXCEPT !.nVdbeActive = x, !.nVdbeWrite = y, !.nVdbeRead = z]
           u == [w EXCEPT !.magic = "halt", !.left = 0, !.at = 0]
<1>5. Halt(d, v, full) = [db |-> f, vm |-> u]
  BY DEF Halt, Busy, One
<1> HIDE DEF g, x, y, z
<1>6. /\ f.pSavepoint = e.pSavepoint /\ f.nStatement = e.nStatement
      /\ f.nSavepoint = e.nSavepoint /\ f.aSavepoint = e.aSavepoint
      /\ f.inTrans = e.inTrans /\ f.work = e.work /\ f.disk = e.disk
      /\ u.rc = w.rc
  BY <1>4 DEF DbType, VmType
<1> HIDE DEF f, u, e, w
<1> QED
  BY <1>4, <1>5, <1>6 DEF e, w

\* The program of s moves on, with the statement transaction it had.
LEMMA ProgramMidstep ==
    ASSUME NEW s \in Stmts, NEW d, NEW v, Midstep(s, d, v), NEW w \in VmType,
           w.sql = v.sql, Busy(w), w.aVar = v.aVar, w.rc = v.rc,
           w.iStatement = v.iStatement
    PROVE  Midstep(s, d, w)
BY ProgramMidway DEF Midstep, OnTop

\* One step of a SELECT.
LEMMA StepSelectLands ==
    ASSUME MInv, RunningIsOk, NEW s \in Stmts, StepSelect(s)
    PROVE  Lands
<1> DEFINE e == Enter(s)
           d == IF Starting(s) THEN BeginRead(e.db) ELSE e.db
           ahead == {k \in d.work : k > e.vm.at}
<1>1. Midstep(s, e.db, e.vm) /\ Kept(e.db) /\ NoneOpen(e.db)
  BY EnterKept DEF StepSelect, CanStep
<1>2. \/ \E k \in ahead : Apply(s, d, [e.vm EXCEPT !.at = k])
      \/ \E rc \in {"ok", "nomem"} : Finish(s, d, e.vm, rc)
  BY DEF StepSelect
<1> HIDE DEF e
<1>3. Midstep(s, d, e.vm) /\ Kept(d) /\ NoneOpen(d)
  <2>1. e.db \in DbType
    BY <1>1 DEF Kept
  <2>2. BeginRead(e.db) \in DbType /\ BeginRead(e.db).disk = e.db.disk
    BY <2>1, BeginReadStep, DiskKept DEF PagerStep
  <2> QED
    BY <1>1, <2>2, BeginReadKept, PagerMidway DEF Midstep
<1> HIDE DEF d
<1> QED
  BY <1>2, <1>3, FinishLands, ActiveLands DEF Codes, MInv, IInv

\* One step of a program that reads no table.
LEMMA StepValueLands ==
    ASSUME MInv, RunningIsOk, NEW s \in Stmts, StepValue(s)
    PROVE  Lands
<1> DEFINE e == Enter(s)
<1>1. Midstep(s, e.db, e.vm) /\ Kept(e.db) /\ NoneOpen(e.db)
  BY EnterKept DEF StepValue, CanStep
<1>2. Apply(s, e.db, e.vm) \/ Finish(s, e.db, e.vm, "ok")
  BY DEF StepValue
<1> HIDE DEF e
<1> QED
  BY <1>1, <1>2, FinishLands, ActiveLands DEF Codes, MInv, IInv

\* The start of a writer: what OP_Transaction makes of the connection, and
\* the writes after it.
LEMMA WriterStartsKept ==
    ASSUME MInv, RunningIsOk, NEW s \in Stmts, vm[s].magic # "dead",
           IsWriter(vm[s].sql)
    PROVE  LET o == OpenStatement(Enter(s).db, Enter(s).vm)
           IN  /\ Midstep(s, o.db, o.vm) /\ Recorded(o.db)
               /\ ~UsesStmtJournal(vm[s].sql) => NoneOpen(o.db)
<1> DEFINE e == Enter(s)
           o == OpenStatement(e.db, e.vm)
<1>1. Midstep(s, e.db, e.vm) /\ Kept(e.db) /\ NoneOpen(e.db)
  BY EnterKept
<1> HIDE DEF e
<1>2. e.vm \in VmType /\ e.vm.sql = vm[s].sql /\ IsReader(e.vm.sql)
  BY <1>1 DEF Midstep, Midway, IsWriter, IsReader
<1>3. Midway(s, o.db, o.vm)
  BY <1>1, OpenStatementMidway DEF Midstep
<1>4. /\ Kept(o.db) /\ Recorded(o.db)
      /\ \/ NoneOpen(o.db)
         \/ OnTop(o.db, o.vm) /\ UsesStmtJournal(e.vm.sql)
  BY <1>1, <1>2, OpenStatementKept
<1> HIDE DEF o
<1> QED
  BY <1>2, <1>3, <1>4 DEF Midstep, Midway, o, e

LEMMA WriteMidstep ==
    ASSUME NEW s \in Stmts, NEW d, NEW v, Midstep(s, d, v), Recorded(d),
           NEW K \in SUBSET Keys
    PROVE  LET e == [d EXCEPT !.work = K]
           IN  Midstep(s, e, v) /\ (NoneOpen(d) => NoneOpen(e))
<1> DEFINE e == [d EXCEPT !.work = K]
<1>1. Kept(e) /\ (NoneOpen(d) => NoneOpen(e)) /\ (OnTop(d, v) => OnTop(e, v))
  BY WriteKept DEF Midstep
<1>2. Midway(s, e, v)
  BY WriteMidway DEF Midstep
<1> HIDE DEF e
<1> QED
  BY <1>1, <1>2 DEF Midstep, e

\* A writer whose rows are written.  It stays active only without a statement
\* transaction.
LEMMA WrittenLands ==
    ASSUME TypeOK, NEW s \in Stmts, NEW d, NEW v, Midstep(s, d, v), NEW n,
           v.sql.returning => NoneOpen(d), Written(s, d, v, n)
    PROVE  Lands
<1>1. CASE v.sql.returning /\ n > 0
  BY <1>1, ActiveLands DEF Written, Midstep
<1>2. CASE ~(v.sql.returning /\ n > 0)
  BY <1>2, FinishLands DEF Written, Codes
<1> QED
  BY <1>1, <1>2

\* The step in which an INSERT writes, whether it completes or fails.
LEMMA StartInsertLands ==
    ASSUME NoneHeld, MInv, RunningIsOk, NEW s \in Stmts, StartInsert(s)
    PROVE  Lands
<1> DEFINE e == Enter(s)
           o == OpenStatement(e.db, e.vm)
           rows == Rows(o.vm)
           clashes == {i \in 1..Len(rows) : Clash(o.db.work, rows, i)}
           With(n) == [o.db EXCEPT !.work = @ \cup Prefix(rows, n)]
           failed == [o.vm EXCEPT !.errorAction = o.vm.sql.onConflict]
<1>1. /\ Midstep(s, o.db, o.vm) /\ Recorded(o.db)
      /\ ~UsesStmtJournal(vm[s].sql) => NoneOpen(o.db)
  BY WriterStartsKept DEF StartInsert, CanStep, IsWriter
<1>2. \/ clashes = {} /\ Written(s, With(Len(rows)), o.vm, Len(rows))
      \/ \E i \in clashes :
            /\ \A j \in clashes : i <= j
            /\ Finish(s, With(i - 1), failed, "constraint")
      \/ \E n \in 0..Len(rows) :
            /\ \A i \in clashes : n < i
            /\ Finish(s, With(n), o.vm, "nomem")
  BY DEF StartInsert
<1> HIDE DEF o
<1>3. o.vm \in VmType /\ o.db \in DbType /\ Len(rows) \in Nat /\ TypeOK
  BY <1>1, RowsType, LenProperties DEF Midstep, Midway, MInv, IInv
<1>4. ASSUME NEW n \in 0..Len(rows), \A i \in clashes : n < i
      PROVE  Midstep(s, With(n), o.vm) /\ (NoneOpen(o.db) => NoneOpen(With(n)))
  <2>1. \A i \in 1..n : ~Clash(o.db.work, rows, i)
    <3> TAKE i \in 1..n
    <3>1. i \in 1..Len(rows) /\ ~(n < i)
      BY <1>3
    <3> QED
      BY <1>4, <3>1
  <2>2. Prefix(rows, n) \subseteq Keys
    BY <1>3, <2>1, PrefixIsKeys
  <2>3. o.db.work \cup Prefix(rows, n) \in SUBSET Keys
    BY <1>3, <2>2 DEF DbType
  <2> QED
    BY <1>1, <2>3, WriteMidstep
<1> HIDE DEF With, rows
<1>5. CASE clashes = {} /\ Written(s, With(Len(rows)), o.vm, Len(rows))
  <2>1. Len(rows) \in 0..Len(rows)
    BY <1>3
  <2>2. o.vm.sql = vm[s].sql /\ o.vm.sql \in Sqls
    BY <1>1, <1>3 DEF Midstep, Midway, VmType
  <2>3. o.vm.sql.returning => NoneOpen(With(Len(rows)))
    BY <1>1, <1>4, <1>5, <2>1, <2>2 DEF NoneHeld
  <2> QED
    BY <1>3, <1>4, <1>5, <2>1, <2>3, WrittenLands
<1>6. ASSUME NEW i \in clashes, \A j \in clashes : i <= j,
             Finish(s, With(i - 1), failed, "constraint")
      PROVE  Lands
  <2>1. i - 1 \in 0..Len(rows) /\ \A j \in clashes : i - 1 < j
    BY <1>3, <1>6
  <2>2. Midstep(s, With(i - 1), o.vm)
    BY <1>4, <2>1
  <2>3. failed \in VmType /\ failed.sql = o.vm.sql /\ Busy(failed)
        /\ failed.aVar = o.vm.aVar /\ failed.rc = o.vm.rc
        /\ failed.iStatement = o.vm.iStatement
    <3>1. o.vm.sql.onConflict \in {"abort", "fail", "rollback"}
      BY <1>3, SqlFields
    <3> QED
      BY <1>1, <1>3, <3>1 DEF Midstep, Midway, VmType, Busy
  <2> HIDE DEF failed
  <2>4. Midstep(s, With(i - 1), failed)
    BY <2>2, <2>3, ProgramMidstep
  <2> QED
    BY <1>3, <1>6, <2>4, FinishLands DEF Codes
<1>7. ASSUME NEW n \in 0..Len(rows), \A i \in clashes : n < i,
             Finish(s, With(n), o.vm, "nomem")
      PROVE  Lands
  BY <1>3, <1>4, <1>7, FinishLands DEF Codes
<1> QED
  BY <1>2, <1>5, <1>6, <1>7

\* The step in which a DELETE writes.
LEMMA StartDeleteLands ==
    ASSUME MInv, RunningIsOk, NEW s \in Stmts, StartDelete(s)
    PROVE  Lands
<1> DEFINE e == Enter(s)
           o == OpenStatement(e.db, e.vm)
           victims == o.db.work \cap Prefix(Rows(o.vm), Len(o.vm.sql.rows))
           Without(K) == [o.db EXCEPT !.work = @ \ K]
<1>1. Midstep(s, o.db, o.vm) /\ Recorded(o.db) /\ NoneOpen(o.db)
  BY WriterStartsKept DEF StartDelete, CanStep, IsWriter, UsesStmtJournal
<1>2. \/ Written(s, Without(victims), o.vm, Cardinality(victims))
      \/ \E K \in SUBSET victims : Finish(s, Without(K), o.vm, "nomem")
  BY DEF StartDelete
<1> HIDE DEF o, victims
<1>3. ASSUME NEW K
      PROVE  Midstep(s, Without(K), o.vm) /\ NoneOpen(Without(K))
  <2>1. o.db.work \ K \in SUBSET Keys
    BY <1>1 DEF Midstep, Midway, DbType
  <2> QED
    BY <1>1, <2>1, WriteMidstep
<1> HIDE DEF Without
<1> QED
  BY <1>2, <1>3, WrittenLands, FinishLands DEF Codes, MInv, IInv

\* A later step of a writer with a RETURNING clause.
LEMMA StepReturningLands ==
    ASSUME MInv, RunningIsOk, NEW s \in Stmts, StepReturning(s)
    PROVE  Lands
<1>1. Busy(vm[s]) /\ vm[s] \in VmType /\ TypeOK /\ db \in DbType
  BY DEF StepReturning, Starting, MInv, IInv, TypeOK
<1>2. Kept(db) /\ NoneOpen(db)
  BY MarksAreKept
<1>3. Midstep(s, db, vm[s])
  BY <1>1, <1>2 DEF Midstep, Midway, RunningIsOk, Busy
<1>4. \/ \E w : Apply(s, db, w)
      \/ \E rc \in {"ok", "nomem"} : Finish(s, db, vm[s], rc)
  BY DEF StepReturning
<1> QED
  BY <1>1, <1>2, <1>3, <1>4, FinishLands, ActiveLands DEF Codes
-----------------------------------------------------------------------------
\* A step of OP_AutoCommit that closes every savepoint.
LEMMA ClosedLands ==
    ASSUME TypeOK, CountersAgree, NEW s \in Stmts, NEW d, Running(s, d),
           NEW v \in VmType, v.sql = vm[s].sql, Busy(v), NEW full \in BOOLEAN,
           Halt(d, v, full).db.aSavepoint = <<>>, NEW w,
           Apply(s, CloseSavepoints(Halt(d, v, full).db), w)
    PROVE  Lands
<1> DEFINE h == Halt(d, v, full).db
           e == CloseSavepoints(h)
<1>1. h \in DbType /\ h.aSavepoint = <<>> /\ db' = e
  BY HaltRunning DEF Apply
<1> HIDE DEF h
<1>2. Dropped(e)
  BY <1>1 DEF Dropped, CloseSavepoints, DbType
<1> HIDE DEF e
<1> QED
  BY <1>1, <1>2, DroppedResult DEF Lands

\* BEGIN.
LEMMA StepBeginLands ==
    ASSUME MInv, RunningIsOk, NEW s \in Stmts, StepBegin(s)
    PROVE  Lands
<1> DEFINE e == Enter(s)
           d == [e.db EXCEPT !.autoCommit = FALSE]
           h == Halt(d, e.vm, FALSE)
<1>1. /\ Midstep(s, e.db, e.vm) /\ Running(s, e.db) /\ Kept(e.db) /\ NoneOpen(e.db)
      /\ e.db.autoCommit = db.autoCommit
  BY EnterKept DEF StepBegin, CanStep
<1>2. \/ db.autoCommit /\ Apply(s, CloseSavepoints(h.db), h.vm)
      \/ Finish(s, e.db, e.vm, "error")
  BY DEF StepBegin
<1>3. TypeOK /\ CountersAgree /\ IsReader(vm[s].sql)
  BY DEF MInv, IInv, StepBegin, CanStep, IsReader
<1> HIDE DEF e
<1>4. CASE db.autoCommit /\ Apply(s, CloseSavepoints(h.db), h.vm)
  <2>1. e.db \in DbType /\ e.vm \in VmType /\ Busy(e.vm) /\ e.vm.sql = vm[s].sql
        /\ e.vm.rc = "ok" /\ Pending(e.db) /\ e.db.nStatement = 0
    BY <1>1 DEF Midstep, Midway, Kept, NoneOpen
  <2>2. Len(e.db.aSavepoint) = 0
    <3>1. e.db.nSavepoint = 0
      BY <1>1, <1>4, NoneInAutoCommit DEF Kept
    <3> QED
      BY <1>1, <2>1, <3>1, Lengths DEF NoneOpen
  <2>3. e.db.aSavepoint = <<>>
    BY <2>1, <2>2, EmptySeq DEF DbType
  <2>4. Running(s, d)
    BY <1>1, AutoCommitKeepsRunning
  <2>5. d.aSavepoint = <<>> /\ Pending(d) /\ d.nStatement = 0 /\ d \in DbType
    BY <2>1, <2>3 DEF Pending, DbType
  <2> HIDE DEF d
  <2>6. h.db.aSavepoint = <<>>
    BY <1>3, <2>1, <2>5, HaltOk
  <2> QED
    BY <1>3, <1>4, <2>1, <2>4, <2>6, ClosedLands
<1>5. CASE Finish(s, e.db, e.vm, "error")
  BY <1>1, <1>3, <1>5, FinishLands DEF Codes
<1> QED
  BY <1>2, <1>4, <1>5

\* What COMMIT and RELEASE of the transaction savepoint give to Halt.
LEMMA CommittingHalts ==
    ASSUME MInv, RunningIsOk, NEW s \in Stmts, vm[s].magic # "dead",
           vm[s].sql.kind \in {"commit", "release"}, db.nVdbeWrite = 0,
           NEW full \in BOOLEAN
    PROVE  LET e == Enter(s)
               d == [e.db EXCEPT !.autoCommit = TRUE]
               h == Halt(d, e.vm, full)
           IN  /\ Running(s, d) /\ e.vm \in VmType /\ e.vm.sql = vm[s].sql /\ Busy(e.vm)
               /\ h.db \in DbType
               /\ h.db.aSavepoint = <<>> /\ h.db.inTrans # "write"
               /\ h.db.pSavepoint = db.pSavepoint /\ h.db.nStatement = 0
               /\ h.db.nSavepoint = db.nSavepoint
               /\ h.vm.rc # "ok" => h.db.work = h.db.disk /\ db.inTrans = "write"
<1> DEFINE e == Enter(s)
           d == [e.db EXCEPT !.autoCommit = TRUE]
           h == Halt(d, e.vm, full)
<1>1. /\ Midstep(s, e.db, e.vm) /\ Running(s, e.db) /\ Kept(e.db) /\ NoneOpen(e.db)
      /\ SameRecords(db, e.db) /\ e.db.inTrans = db.inTrans
  BY EnterKept
<1>2. TypeOK /\ CountersAgree /\ IsReader(vm[s].sql) /\ ~IsWriter(vm[s].sql)
  BY DEF MInv, IInv, IsReader, IsWriter
<1> HIDE DEF e
<1>3. e.db \in DbType /\ e.vm \in VmType /\ Busy(e.vm) /\ e.vm.sql = vm[s].sql
      /\ e.vm.rc = "ok" /\ Pending(e.db) /\ e.db.nStatement = 0
  BY <1>1 DEF Midstep, Midway, Kept, NoneOpen
<1>4. Running(s, d)
  BY <1>1, AutoCommitKeepsRunning
<1>5. /\ d \in DbType /\ d.autoCommit /\ Pending(d) /\ d.nStatement = 0
      /\ d.inTrans = db.inTrans /\ d.pSavepoint = db.pSavepoint
      /\ d.nSavepoint = db.nSavepoint
  BY <1>1, <1>3 DEF Pending, DbType, SameRecords
<1> HIDE DEF d
<1>6. d.nVdbeWrite = 0
  BY <1>2, <1>4 DEF Running, One
<1>7. OnlyWriter(d, e.vm)
  BY <1>2, <1>3, <1>5, <1>6 DEF OnlyWriter
<1>8. h.db \in DbType
  BY <1>2, <1>3, <1>4, HaltRunning
<1>9. /\ h.db.aSavepoint = <<>> /\ h.db.inTrans # "write"
      /\ h.db.pSavepoint = d.pSavepoint /\ h.db.nStatement = 0
      /\ h.db.nSavepoint = d.nSavepoint
      /\ h.vm.rc # "ok" => h.db.work = h.db.disk /\ d.inTrans = "write"
  BY <1>2, <1>3, <1>5, <1>7, HaltOk
<1> HIDE DEF h
<1>10. /\ Running(s, d) /\ e.vm \in VmType /\ e.vm.sql = vm[s].sql /\ Busy(e.vm)
       /\ h.db \in DbType
       /\ h.db.aSavepoint = <<>> /\ h.db.inTrans # "write"
       /\ h.db.pSavepoint = db.pSavepoint /\ h.db.nStatement = 0
       /\ h.db.nSavepoint = db.nSavepoint
       /\ h.vm.rc # "ok" => h.db.work = h.db.disk /\ db.inTrans = "write"
  BY <1>3, <1>4, <1>5, <1>8, <1>9
<1> QED
  BY <1>10 DEF h, d, e

\* COMMIT, refused, failed or done.
LEMMA StepCommitLands ==
    ASSUME MInv, RunningIsOk, NEW s \in Stmts, StepCommit(s)
    PROVE  Lands
<1> DEFINE e == Enter(s)
           d == [e.db EXCEPT !.autoCommit = TRUE]
<1>1. Midstep(s, e.db, e.vm) /\ vm[s].magic # "dead" /\ vm[s].sql.kind = "commit"
  BY EnterKept DEF StepCommit, CanStep
<1>2. \/ \E rc \in {"error", "busy"} : Finish(s, e.db, e.vm, rc)
      \/ /\ db.nVdbeWrite = 0
         /\ \E full \in BOOLEAN :
               LET h == Halt(d, e.vm, full) IN Apply(s, CloseSavepoints(h.db), h.vm)
  BY VdbeAssumption DEF StepCommit
<1>3. TypeOK /\ CountersAgree
  BY DEF MInv, IInv
<1>4. ASSUME NEW full \in BOOLEAN, db.nVdbeWrite = 0,
             LET h == Halt(d, e.vm, full) IN Apply(s, CloseSavepoints(h.db), h.vm)
      PROVE  Lands
  <2>1. /\ Running(s, d) /\ e.vm \in VmType /\ e.vm.sql = vm[s].sql /\ Busy(e.vm)
        /\ Halt(d, e.vm, full).db.aSavepoint = <<>>
    BY <1>1, <1>4, CommittingHalts
  <2> HIDE DEF d, e
  <2> QED
    BY <1>3, <1>4, <2>1, ClosedLands
<1> HIDE DEF d, e
<1>5. CASE \E rc \in {"error", "busy"} : Finish(s, e.db, e.vm, rc)
  BY <1>1, <1>3, <1>5, FinishLands DEF Codes
<1> QED
  BY <1>2, <1>4, <1>5

\* ROLLBACK.
LEMMA StepRollbackLands ==
    ASSUME MInv, RunningIsOk, NEW s \in Stmts, StepRollback(s)
    PROVE  Lands
<1> DEFINE e == Enter(s)
           r == RollbackAll(e.db)
           d == [r EXCEPT !.autoCommit = TRUE]
           h == Halt(d, e.vm, FALSE)
<1>1. Midstep(s, e.db, e.vm) /\ Running(s, e.db) /\ Kept(e.db) /\ NoneOpen(e.db)
  BY EnterKept DEF StepRollback, CanStep
<1>2. Apply(s, CloseSavepoints(h.db), h.vm) \/ Finish(s, e.db, e.vm, "error")
  BY DEF StepRollback
<1>3. TypeOK /\ CountersAgree /\ IsReader(vm[s].sql)
  BY DEF MInv, IInv, StepRollback, CanStep, IsReader
<1> HIDE DEF e
<1>4. e.db \in DbType /\ e.vm \in VmType /\ Busy(e.vm) /\ e.vm.sql = vm[s].sql
      /\ e.vm.rc = "ok" /\ Pending(e.db) /\ e.db.nStatement = 0
      /\ SavepointsAgreeIn(e.db)
  BY <1>1 DEF Midstep, Midway, Kept, NoneOpen
<1>5. /\ PagerStep(e.db, r) /\ r.aSavepoint = <<>> /\ r.inTrans # "write"
      /\ r.work = r.disk
  BY <1>4, RollbackAllStep, BtreeClears
<1>6. Running(s, r) /\ r \in DbType /\ r.nStatement = 0
  BY <1>1, <1>4, <1>5, PagerKeepsRunning DEF PagerStep
<1> HIDE DEF r
<1>7. Running(s, d)
  BY <1>6, AutoCommitKeepsRunning
<1>8. d \in DbType /\ d.aSavepoint = <<>> /\ Pending(d) /\ d.nStatement = 0
  BY <1>5, <1>6 DEF Pending, DbType
<1> HIDE DEF d
<1>9. h.db.aSavepoint = <<>>
  BY <1>3, <1>4, <1>8, HaltOk
<1>10. CASE Apply(s, CloseSavepoints(h.db), h.vm)
  BY <1>3, <1>4, <1>7, <1>9, <1>10, ClosedLands
<1>11. CASE Finish(s, e.db, e.vm, "error")
  BY <1>1, <1>3, <1>11, FinishLands DEF Codes
<1> QED
  BY <1>2, <1>10, <1>11
-----------------------------------------------------------------------------
\* A step that ends a program that has no statement transaction.
LEMMA PlainLands ==
    ASSUME TypeOK, NEW s \in Stmts, NEW d, Kept(d), NoneOpen(d),
           NEW v \in VmType, Busy(v), NEW rc \in Codes, Finish(s, d, v, rc)
    PROVE  Lands
<1>1. PICK full \in BOOLEAN :
         LET h == Halt(d, [v EXCEPT !.rc = rc], full) IN Apply(s, h.db, h.vm)
  BY VdbeAssumption DEF Finish
<1> DEFINE w == [v EXCEPT !.rc = rc]
           e == Halt(d, w, full).db
<1>2. w \in VmType /\ Busy(w)
  BY DEF VmType, Busy, Codes
<1>3. db' = e
  BY <1>1 DEF Apply
<1> HIDE DEF w
<1>4. Result(e)
  BY <1>2, HaltResult
<1> QED
  BY <1>3, <1>4 DEF Lands

\* SAVEPOINT, as the start of a transaction or inside one.
LEMMA StepSavepointLands ==
    ASSUME MInv, RunningIsOk, NEW s \in Stmts, StepSavepoint(s)
    PROVE  Lands
<1> DEFINE e == Enter(s)
           a == Append(e.db.pSavepoint, e.vm.sql.name)
           t == [[e.db EXCEPT !.pSavepoint = a] EXCEPT
                    !.autoCommit = FALSE, !.isTransactionSavepoint = TRUE]
           u == [[e.db EXCEPT !.pSavepoint = a] EXCEPT !.nSavepoint = @ + 1]
<1>1. /\ Midstep(s, e.db, e.vm) /\ Kept(e.db) /\ NoneOpen(e.db)
      /\ SameRecords(db, e.db)
      /\ e.db.inTrans = db.inTrans /\ e.db.autoCommit = db.autoCommit
  BY EnterKept DEF StepSavepoint, CanStep
<1>2. \/ \E rc \in {"busy", "nomem"} : Finish(s, e.db, e.vm, rc)
      \/ db.nVdbeWrite = 0 /\ db.autoCommit /\ Finish(s, t, e.vm, "ok")
      \/ db.nVdbeWrite = 0 /\ ~db.autoCommit /\ Finish(s, u, e.vm, "ok")
  BY DEF StepSavepoint
<1>3. TypeOK /\ TInv
  BY DEF MInv, IInv
<1> HIDE DEF e
<1>4. e.vm \in VmType /\ Busy(e.vm) /\ e.vm.sql.name \in Names
  BY <1>1, SqlFields DEF Midstep, Midway
<1>5. ASSUME db.nVdbeWrite = 0
      PROVE  /\ db.autoCommit => Kept(t) /\ NoneOpen(t)
             /\ ~db.autoCommit => Kept(u) /\ NoneOpen(u)
  BY <1>1, <1>3, <1>4, <1>5, PushKept
<1> HIDE DEF t, u
<1> QED
  BY <1>1, <1>2, <1>3, <1>4, <1>5, PlainLands DEF Codes

\* The b-tree's index of a savepoint, after the entry of the step.
LEMMA IndexIsPlace ==
    ASSUME MInv, NEW d, SameRecords(db, d), NEW i \in DOMAIN db.pSavepoint
    PROVE  /\ BtreeIndex(i) = Place(d, i) - 1
           /\ i \in 1..Len(d.pSavepoint)
<1>1. IInv /\ DOMAIN db.pSavepoint = 1..Len(db.pSavepoint)
  BY Lengths DEF MInv, IInv, TypeOK
<1> QED
  BY <1>1, BtreeIndexValue DEF SameRecords, Place, One

\* ROLLBACK TO.
LEMMA StepRollbackToLands ==
    ASSUME MInv, RunningIsOk, NEW s \in Stmts, StepRollbackTo(s)
    PROVE  Lands
<1> DEFINE e == Enter(s)
<1>1. /\ Midstep(s, e.db, e.vm) /\ Kept(e.db) /\ NoneOpen(e.db)
      /\ SameRecords(db, e.db)
  BY EnterKept DEF StepRollbackTo, CanStep
<1>2. \/ \E rc \in {"error", "nomem"} : Finish(s, e.db, e.vm, rc)
      \/ \E i \in DOMAIN db.pSavepoint :
            Finish(s, SavepointRollback(Popped(e.db, i), BtreeIndex(i)), e.vm, "ok")
  BY DEF StepRollbackTo
<1>3. TypeOK
  BY DEF MInv, IInv
<1> HIDE DEF e
<1>4. e.vm \in VmType /\ Busy(e.vm)
  BY <1>1 DEF Midstep, Midway
<1>5. ASSUME NEW i \in DOMAIN db.pSavepoint,
             Finish(s, SavepointRollback(Popped(e.db, i), BtreeIndex(i)), e.vm, "ok")
      PROVE  Lands
  <2> DEFINE r == SavepointRollback(Popped(e.db, i), BtreeIndex(i))
  <2>1. BtreeIndex(i) = Place(e.db, i) - 1 /\ i \in 1..Len(e.db.pSavepoint)
    BY <1>1, IndexIsPlace
  <2>2. Kept(r) /\ NoneOpen(r)
    BY <1>1, <1>3, <2>1, RollbackToKept
  <2>3. Finish(s, r, e.vm, "ok")
    BY <1>5
  <2> HIDE DEF r
  <2> QED
    BY <1>3, <1>4, <2>2, <2>3, PlainLands DEF Codes
<1> QED
  BY <1>1, <1>2, <1>3, <1>4, <1>5, PlainLands DEF Codes

\* RELEASE of a nested savepoint, or of the transaction savepoint, whose
\* commit may fail: then every savepoint stays, on the committed content.
LEMMA StepReleaseLands ==
    ASSUME MInv, RunningIsOk, NEW s \in Stmts, StepRelease(s)
    PROVE  Lands
<1> DEFINE e == Enter(s)
           Inner(i) == [SavepointRelease(Popped(e.db, i), BtreeIndex(i)) EXCEPT
                           !.pSavepoint = SubSeq(@, 1, i - 1), !.nSavepoint = @ - 1]
           d == [e.db EXCEPT !.autoCommit = TRUE]
<1>1. /\ Midstep(s, e.db, e.vm) /\ Kept(e.db) /\ NoneOpen(e.db)
      /\ SameRecords(db, e.db)
      /\ vm[s].magic # "dead" /\ vm[s].sql.kind = "release"
  BY EnterKept DEF StepRelease, CanStep
<1>2. \/ \E rc \in {"error", "busy"} : Finish(s, e.db, e.vm, rc)
      \/ \E i \in DOMAIN db.pSavepoint :
            ~(i = 1 /\ db.isTransactionSavepoint) /\ Finish(s, Inner(i), e.vm, "ok")
      \/ /\ db.nVdbeWrite = 0 /\ 1 \in DOMAIN db.pSavepoint
         /\ \E full \in BOOLEAN :
               LET h == Halt(d, e.vm, full)
               IN  \/ Apply(s, CloseSavepoints(h.db), h.vm)
                   \/ h.vm.rc # "ok" /\ Apply(s, [h.db EXCEPT !.autoCommit = FALSE], h.vm)
  BY VdbeAssumption DEF StepRelease, IsLatest, Named
<1>3. TypeOK /\ CountersAgree /\ db \in DbType
  BY DEF MInv, IInv, TypeOK
<1>4. e.vm \in VmType /\ Busy(e.vm)
  BY <1>1 DEF Midstep, Midway
<1>5. ASSUME NEW i \in DOMAIN db.pSavepoint, ~(i = 1 /\ db.isTransactionSavepoint),
             Finish(s, Inner(i), e.vm, "ok")
      PROVE  Lands
  <2> HIDE DEF e
  <2>1. BtreeIndex(i) = Place(e.db, i) - 1 /\ i \in 1..Len(e.db.pSavepoint)
    BY <1>1, IndexIsPlace
  <2>2. Place(e.db, i) # 0
    BY <1>1, <1>5, <2>1 DEF SameRecords, Place, One
  <2>3. Inner(i) = Released(e.db, i)
    BY <2>1 DEF Released
  <2>4. Kept(Released(e.db, i)) /\ NoneOpen(Released(e.db, i))
    BY <1>1, <1>3, <2>1, <2>2, ReleaseKept
  <2> HIDE DEF Inner
  <2> QED
    BY <1>3, <1>4, <1>5, <2>3, <2>4, PlainLands DEF Codes
<1>6. ASSUME db.nVdbeWrite = 0, 1 \in DOMAIN db.pSavepoint, NEW full \in BOOLEAN,
             LET h == Halt(d, e.vm, full)
             IN  \/ Apply(s, CloseSavepoints(h.db), h.vm)
                 \/ h.vm.rc # "ok" /\ Apply(s, [h.db EXCEPT !.autoCommit = FALSE], h.vm)
      PROVE  Lands
  <2> DEFINE h == Halt(d, e.vm, full)
             f == [h.db EXCEPT !.autoCommit = FALSE]
  <2>1. /\ Running(s, d) /\ e.vm \in VmType /\ e.vm.sql = vm[s].sql /\ Busy(e.vm)
        /\ h.db \in DbType
        /\ h.db.aSavepoint = <<>> /\ h.db.inTrans # "write"
        /\ h.db.pSavepoint = db.pSavepoint /\ h.db.nStatement = 0
        /\ h.db.nSavepoint = db.nSavepoint
        /\ h.vm.rc # "ok" => h.db.work = h.db.disk /\ db.inTrans = "write"
    BY <1>1, <1>6, CommittingHalts
  <2>2. Apply(s, CloseSavepoints(h.db), h.vm) \/ (h.vm.rc # "ok" /\ Apply(s, f, h.vm))
    BY <1>6
  <2> HIDE DEF d, e
  <2>3. CASE Apply(s, CloseSavepoints(h.db), h.vm)
    BY <1>3, <2>1, <2>3, ClosedLands
  <2> HIDE DEF h
  <2>4. CASE h.vm.rc # "ok" /\ Apply(s, f, h.vm)
    <3>1. /\ f.aSavepoint = <<>> /\ f.inTrans # "write" /\ f.pSavepoint = db.pSavepoint
          /\ f.nStatement = 0 /\ f.nSavepoint = db.nSavepoint /\ f.work = f.disk
      BY <2>1, <2>4 DEF DbType
    <3> HIDE DEF f
    <3>2. f.pSavepoint # <<>> /\ Len(f.pSavepoint) \in Nat
      BY <1>3, <1>6, <3>1, Lengths, EmptySeq
    <3>3. NoneOpen(f)
      <4>1. Len(f.aSavepoint) = 0
        BY <3>1, EmptySeq
      <4> QED
        BY <1>3, <3>1, <4>1, Lengths DEF NoneOpen
    <3>4. Result(f)
      BY <2>1, <2>4, <3>1, <3>2, <3>3 DEF Result
    <3> QED
      BY <2>4, <3>4 DEF Lands, Apply
  <2> QED
    BY <2>2, <2>3, <2>4
<1> HIDE DEF Inner, d, e
<1>7. CASE \E rc \in {"error", "busy"} : Finish(s, e.db, e.vm, rc)
  BY <1>1, <1>3, <1>7, FinishLands DEF Codes
<1> QED
  BY <1>2, <1>5, <1>6, <1>7

\* sqlite3_reset and sqlite3_finalize.
LEMMA HaltedLands ==
    ASSUME MInv, NEW s \in Stmts, NEW full \in BOOLEAN, NEW w,
           Apply(s, Halt(db, vm[s], full).db, w)
    PROVE  Lands
<1>1. TypeOK /\ vm[s] \in VmType /\ Kept(db) /\ NoneOpen(db)
  BY MarksAreKept DEF MInv, IInv, TypeOK
<1>2. CASE Busy(vm[s])
  <2>1. Result(Halt(db, vm[s], full).db)
    BY <1>1, <1>2, HaltResult
  <2> QED
    BY <2>1 DEF Apply, Lands
<1>3. CASE ~Busy(vm[s])
  <2>1. Halt(db, vm[s], full).db = db
    BY <1>3 DEF Halt, Busy
  <2> QED
    BY <1>1, <2>1, ActiveLands
<1> QED
  BY <1>2, <1>3

\* Every call ends in a Result.
LEMMA NextLands ==
    ASSUME NoneHeld, MInv, RunningIsOk, Next
    PROVE  Lands
<1>1. ASSUME NEW s \in Stmts, Step(s)
      PROVE  Lands
  BY <1>1, StepSelectLands, StepValueLands, StartInsertLands, StartDeleteLands,
     StepReturningLands, StepBeginLands, StepCommitLands, StepRollbackLands,
     StepSavepointLands, StepReleaseLands, StepRollbackToLands DEF Step
<1>2. ASSUME NEW s \in Stmts, Reset(s) \/ Finalize(s)
      PROVE  Lands
  <2>1. PICK full \in BOOLEAN : \E w : Apply(s, Halt(db, vm[s], full).db, w)
    BY <1>2, VdbeAssumption DEF Reset, Finalize
  <2> QED
    BY <2>1, HaltedLands
<1>3. ASSUME UNCHANGED db
      PROVE  Lands
  BY <1>3, MarksAreKept, ActiveResult DEF Lands
<1> QED
  BY <1>1, <1>2, <1>3 DEF Next, Prepare, Bind, ClearBindings
-----------------------------------------------------------------------------
(* The theorems.                                                           *)

LEMMA MarksInductive ==
    ASSUME NoneHeld, MInv, RunningIsOk, [MarkNext]_markVars
    PROVE  MInv' /\ RunningIsOk'
<1>1. CASE MarkNext
  <2>1. Next
    BY <1>1 DEF MarkNext
  <2>2. IInv' /\ TInv' /\ RunningIsOk'
    BY <2>1, StepIInv, StepTInv, NextCommitsWhole DEF MInv
  <2>3. PICK e : db' = e /\ Result(e)
    BY <2>1, NextLands DEF Lands
  <2> QED
    BY <1>1, <2>2, <2>3, ResultKeepsMInv DEF MarkNext
<1>2. CASE UNCHANGED markVars
  <2>1. db' = db /\ vm' = vm /\ marks' = marks
    BY <1>2 DEF markVars
  <2>2. IInv' /\ TInv' /\ RunningIsOk'
    BY <2>1, StepIInv, StepTInv, NextCommitsWhole DEF MInv, vars
  <2>3. NoneOpen(db)' /\ SavepointsHoldMarks'
    BY <2>1 DEF MInv, NoneOpen, SavepointsHoldMarks, BtreeIndex
  <2> QED
    BY <2>1, <2>2, <2>3 DEF MInv
<1> QED
  BY <1>1, <1>2

LEMMA InitMarks == MarkInit => MInv /\ RunningIsOk
<1> SUFFICES ASSUME MarkInit PROVE MInv /\ RunningIsOk
  OBVIOUS
<1>1. Init /\ marks = <<>>
  BY DEF MarkInit
<1>2. IInv /\ TInv
  BY <1>1, InitIInv, InitTInv
<1>3. RunningIsOk
  BY <1>1, DeadType DEF Init, RunningIsOk, Dead, Fresh
<1>4. db.pSavepoint = <<>> /\ db.aSavepoint = <<>> /\ db.nStatement = 0 /\ db.nSavepoint = 0
  BY <1>1 DEF Init
<1>5. Len(db.pSavepoint) = 0 /\ Len(db.aSavepoint) = 0 /\ DOMAIN db.pSavepoint = {}
      /\ marks \in Seq(SUBSET Keys) /\ Len(marks) = 0
  BY <1>1, <1>4, EmptySeq
<1>6. NoneOpen(db)
  BY <1>4, <1>5 DEF NoneOpen
<1>7. SavepointsHoldMarks
  BY <1>5 DEF SavepointsHoldMarks
<1> QED
  BY <1>2, <1>3, <1>5, <1>6, <1>7 DEF MInv

LEMMA MarksInvariant == NoneHeld => (MarkSpec => [](MInv /\ RunningIsOk))
<1> SUFFICES ASSUME NoneHeld PROVE MarkSpec => [](MInv /\ RunningIsOk)
  OBVIOUS
<1>1. (MInv /\ RunningIsOk) /\ [MarkNext]_markVars => (MInv /\ RunningIsOk)'
  BY MarksInductive
<1> QED
  BY <1>1, InitMarks, PTL DEF MarkSpec

\* A savepoint the pager has a record of is recorded with the content it was
\* created with, and one without a record has seen no write.
THEOREM SavepointsHoldTheirContent == NoneHeld => (MarkSpec => []SavepointsHoldMarks)
<1> SUFFICES ASSUME NoneHeld PROVE MarkSpec => []SavepointsHoldMarks
  OBVIOUS
<1>1. MInv => SavepointsHoldMarks
  BY DEF MInv
<1> QED
  BY <1>1, MarksInvariant, PTL

LEMMA RollbackToRestoresStep ==
    ASSUME MInv, RunningIsOk, NEW s \in Stmts, NEW i \in DOMAIN db.pSavepoint,
           StepRollbackTo(s), IsLatest(i, Named(s)), vm'[s].rc = "ok"
    PROVE  db'.work = marks[i]
<1> DEFINE e == Enter(s)
<1>1. /\ Midstep(s, e.db, e.vm) /\ Kept(e.db) /\ NoneOpen(e.db)
      /\ SameRecords(db, e.db)
  BY EnterKept DEF StepRollbackTo, CanStep
<1>2. TypeOK /\ DOMAIN db.pSavepoint = 1..Len(db.pSavepoint)
  BY Lengths DEF MInv, IInv, TypeOK
<1>3. PICK j \in DOMAIN db.pSavepoint :
         /\ IsLatest(j, Named(s))
         /\ Finish(s, SavepointRollback(Popped(e.db, j), BtreeIndex(j)), e.vm, "ok")
  <2>1. Named(s) # {}
    BY DEF IsLatest
  <2>2. ~Finish(s, e.db, e.vm, "nomem")
    <3> SUFFICES ASSUME Finish(s, e.db, e.vm, "nomem") PROVE FALSE
      OBVIOUS
    <3> HIDE DEF e
    <3>1. PICK full \in BOOLEAN :
             LET h == Halt(e.db, [e.vm EXCEPT !.rc = "nomem"], full)
             IN  Apply(s, h.db, h.vm)
      BY VdbeAssumption DEF Finish
    <3> DEFINE w == [e.vm EXCEPT !.rc = "nomem"]
               h == Halt(e.db, w, full)
    <3>2. e.db \in DbType /\ w \in VmType /\ Busy(w) /\ w.rc = "nomem"
      BY <1>1 DEF Midstep, Midway, VmType, Busy
    <3>3. vm'[s] = h.vm
      BY <1>2, <3>1 DEF Apply, TypeOK
    <3> HIDE DEF w
    <3>4. h.vm.rc # "ok"
      BY <3>2, HaltCommits
    <3> QED
      BY <3>3, <3>4
  <2> QED
    BY <2>1, <2>2 DEF StepRollbackTo
<1>4. j = i
  <2>1. i <= j /\ j <= i
    BY <1>3 DEF IsLatest
  <2> QED
    BY <1>2, <2>1
<1> DEFINE r == SavepointRollback(Popped(e.db, i), BtreeIndex(i))
<1>5. Finish(s, r, e.vm, "ok")
  BY <1>3, <1>4
<1>6. IsReader(e.vm.sql) /\ e.vm \in VmType /\ Busy(e.vm)
  BY <1>1 DEF StepRollbackTo, CanStep, IsReader, Midstep, Midway
<1> HIDE DEF e
<1>7. BtreeIndex(i) = Place(e.db, i) - 1 /\ i \in 1..Len(e.db.pSavepoint)
  BY <1>1, IndexIsPlace
<1>8. Kept(r) /\ NoneOpen(r) /\ ~r.autoCommit /\ r.work = Promised(i)
  BY <1>1, <1>2, <1>7, RollbackToKept
<1> HIDE DEF r
<1>9. PICK full \in BOOLEAN :
         LET h == Halt(r, [e.vm EXCEPT !.rc = "ok"], full) IN Apply(s, h.db, h.vm)
  BY <1>5, VdbeAssumption DEF Finish
<1> DEFINE w == [e.vm EXCEPT !.rc = "ok"]
           h == Halt(r, w, full)
<1>10. w \in VmType /\ Busy(w) /\ w.rc = "ok" /\ IsReader(w.sql)
  BY <1>6 DEF VmType, Busy
<1>11. db' = h.db
  BY <1>9 DEF Apply
<1> HIDE DEF w
<1>12. ~OnlyWriter(r, w)
  BY <1>8 DEF OnlyWriter
<1>13. h.db.work = r.work
  BY <1>8, <1>10, <1>12, HaltOk DEF Kept, NoneOpen
<1> QED
  BY <1>8, <1>11, <1>13 DEF Promised

\* ROLLBACK TO restores the content its savepoint was created with.
THEOREM RollbackToIsExact == NoneHeld => (MarkSpec => RollbackToRestores)
<1> SUFFICES ASSUME NoneHeld PROVE MarkSpec => RollbackToRestores
  OBVIOUS
<1>1. MInv /\ RunningIsOk
         => [\A s \in Stmts : \A i \in DOMAIN db.pSavepoint :
                StepRollbackTo(s) /\ IsLatest(i, Named(s)) /\ vm'[s].rc = "ok"
                   => db'.work = marks[i]]_markVars
  BY RollbackToRestoresStep
<1> QED
  BY <1>1, MarksInvariant, PTL DEF RollbackToRestores

\* The halt of an INSERT that failed under ON CONFLICT ABORT: d is what its
\* rows before the clash made of o, the connection with the transaction open.
LEMMA FailedInsertUndone ==
    ASSUME MInv, RunningIsOk, NEW s \in Stmts, vm[s].magic # "dead",
           ~Busy(vm[s]), vm[s].sql.kind = "insert", vm[s].sql.onConflict = "abort",
           NEW i \in 1..Len(vm[s].sql.rows), NEW K \in SUBSET Keys,
           NEW v \in VmType, NEW full \in BOOLEAN,
           LET o == OpenStatement(Enter(s).db, Enter(s).vm)
           IN  /\ v.sql = vm[s].sql /\ Busy(v) /\ v.iStatement = o.vm.iStatement
               /\ v.rc = "constraint" /\ v.errorAction = "abort"
               /\ i = 1 => K = o.db.work
    PROVE  Halt([OpenStatement(Enter(s).db, Enter(s).vm).db EXCEPT !.work = K],
                v, full).db.work = db.work
<1> DEFINE e == Enter(s)
           q == vm[s].sql
           o == OpenStatement(e.db, e.vm)
           d == [o.db EXCEPT !.work = K]
           h == Halt(d, v, full)
<1>1. /\ Midstep(s, e.db, e.vm) /\ Kept(e.db) /\ NoneOpen(e.db) /\ Running(s, e.db)
      /\ SameRecords(db, e.db) /\ e.db.autoCommit = db.autoCommit
  BY EnterKept
<1>2. IInv /\ TInv /\ TypeOK /\ CountersAgree /\ db \in DbType
  BY DEF MInv, IInv, TypeOK
<1>3. IsWriter(q) /\ IsReader(q) /\ One(IsWriter(q)) = 1 /\ One(IsReader(q)) = 1
  BY DEF IsWriter, IsReader, One
<1>4. /\ v.sql = q /\ Busy(v) /\ v.iStatement = o.vm.iStatement
      /\ v.rc = "constraint" /\ v.errorAction = "abort"
      /\ i = 1 => K = o.db.work
  OBVIOUS
<1> HIDE DEF e, q
<1>5. /\ e.vm \in VmType /\ e.vm.sql = q /\ Busy(e.vm) /\ e.db \in DbType
      /\ e.db.disk = db.disk /\ e.db.work = db.work
  BY <1>1 DEF Midstep, Midway, SameRecords, q
<1>6. Running(s, o.db) /\ SavepointsAgreeIn(o.db)
  BY <1>1, <1>5, OpenStatementKeepsRunning DEF Kept, q
<1>7. /\ Kept(o.db) /\ Recorded(o.db) /\ o.db.work = e.db.work
      /\ \/ /\ NoneOpen(o.db)
            /\ ~UsesStmtJournal(q) \/ (e.db.autoCommit /\ ~(e.db.nVdbeRead > 1))
         \/ /\ OnTop(o.db, o.vm)
            /\ o.db.aSavepoint[o.db.nSavepoint + 1] = e.db.work
  BY <1>1, <1>5, OpenStatementKept
<1>8. o.db.disk = db.disk /\ o.db \in DbType
  <2>1. Midway(s, e.db, e.vm)
    BY <1>1 DEF Midstep
  <2>2. Midway(s, o.db, o.vm)
    BY <2>1, OpenStatementMidway
  <2> HIDE DEF o
  <2> QED
    BY <2>2 DEF Midway
<1>9. o.db.autoCommit = e.db.autoCommit
  <2> DEFINE b == BeginWrite(e.db)
             n == e.db.nSavepoint + e.db.nStatement + 1
             c == [b EXCEPT !.nStatement = @ + 1]
             f == OpenSavepoint(c, n)
  <2>1. o.db \in {b, f}
    BY DEF OpenStatement
  <2>2. b \in DbType /\ b.autoCommit = e.db.autoCommit
    BY <1>5, BeginWriteStep DEF PagerStep
  <2> HIDE DEF b
  <2>3. f.autoCommit = b.autoCommit
    BY <2>2 DEF OpenSavepoint, DbType
  <2> QED
    BY <2>1, <2>2, <2>3
<1> HIDE DEF o
<1>10. /\ PagerStep(o.db, d) /\ d.disk = o.db.disk /\ d.work = K
       /\ d.aSavepoint = o.db.aSavepoint
  <2>1. d.disk = o.db.disk /\ d.work = K /\ d.aSavepoint = o.db.aSavepoint
    BY <1>8 DEF DbType
  <2> QED
    BY <1>8, <2>1, WorkStep
<1>11. /\ Kept(d) /\ (NoneOpen(o.db) => NoneOpen(d))
       /\ \A x : OnTop(o.db, x) => OnTop(d, x)
  BY <1>7, WriteKept
<1> HIDE DEF d
<1>12. OnTop(o.db, o.vm) => OnTop(d, v)
  BY <1>4, <1>11 DEF OnTop
<1>13. Running(s, d) /\ d \in DbType /\ Pending(d) /\ SavepointsAgreeIn(d)
  BY <1>6, <1>10, <1>11, PagerKeepsRunning DEF Kept
<1>14. IF OnlyWriter(d, v) THEN h.db.work = d.disk ELSE Settled(d, h.db, TRUE)
  BY <1>3, <1>4, <1>7, <1>11, <1>12, <1>13, HaltSettles
<1> HIDE DEF h
<1>15. /\ d.nVdbeWrite = db.nVdbeWrite + 1 /\ db.nVdbeWrite \in Nat
       /\ d.nVdbeRead = e.db.nVdbeRead /\ e.db.nVdbeRead \in Nat
       /\ d.nVdbeWrite - 1 <= d.nVdbeRead - 1
  <2>1. d.nVdbeWrite = db.nVdbeWrite + 1
    BY <1>2, <1>3, <1>13 DEF Running, One, q, DbType
  <2>2. d.nVdbeRead = e.db.nVdbeRead
    BY <1>1, <1>13 DEF Running
  <2>3. d.nVdbeWrite - 1 <= d.nVdbeRead - 1
    BY <1>2, <1>3, <1>13, OthersCounted DEF q
  <2> QED
    BY <1>2, <1>5, <2>1, <2>2, <2>3 DEF DbType
<1>16. d.autoCommit = db.autoCommit
  BY <1>1, <1>9, <1>10 DEF PagerStep
<1>17. CASE OnlyWriter(d, v)
  <2>1. db.autoCommit /\ db.nVdbeWrite = 0
    BY <1>3, <1>4, <1>15, <1>16, <1>17 DEF OnlyWriter
  <2>2. db.work = db.disk
    BY <1>2, <2>1 DEF TInv, TransactionIsOwned, PendingOnlyInTransaction
  <2> QED
    BY <1>8, <1>10, <1>14, <1>17, <2>2 DEF h, d, o, e
<1>18. CASE ~OnlyWriter(d, v)
  <2>1. Settled(d, h.db, TRUE)
    BY <1>14, <1>18
  <2>2. CASE OnTop(o.db, o.vm) /\ o.db.aSavepoint[o.db.nSavepoint + 1] = e.db.work
    <3>1. d.nStatement = 1 /\ d.nSavepoint = o.db.nSavepoint
      BY <1>10, <2>2 DEF OnTop, PagerStep
    <3>2. h.db.work = d.aSavepoint[d.nSavepoint + 1]
      BY <2>1, <3>1 DEF Settled, NoneOpen
    <3> QED
      BY <1>5, <1>10, <2>2, <3>1, <3>2 DEF h, d, o, e
  <2>3. CASE /\ NoneOpen(o.db)
             /\ ~UsesStmtJournal(q) \/ (e.db.autoCommit /\ ~(e.db.nVdbeRead > 1))
    <3>1. ~(e.db.autoCommit /\ ~(e.db.nVdbeRead > 1))
      BY <1>1, <1>3, <1>4, <1>15, <1>16, <1>18 DEF OnlyWriter
    <3>2. ~UsesStmtJournal(q)
      BY <2>3, <3>1
    <3>3. Len(q.rows) \in Nat
      BY <1>4, RowsType
    <3>4. i = 1
      BY <3>2, <3>3 DEF UsesStmtJournal, q
    <3>5. h.db.work = d.work
      BY <1>11, <2>1, <2>3 DEF Settled, NoneOpen
    <3> QED
      BY <1>4, <1>5, <1>7, <1>10, <3>4, <3>5 DEF h, d, o, e
  <2> QED
    BY <1>7, <2>2, <2>3
<1> QED
  BY <1>17, <1>18

\* Halt does not change what the statement does about an error.
LEMMA HaltKeepsAction ==
    ASSUME NEW d, NEW v \in VmType, Busy(v), NEW full
    PROVE  Halt(d, v, full).vm.errorAction = v.errorAction
<1> DEFINE g == IF IsReader(v.sql) THEN EndOfStatement(d, v, full)
                                   ELSE [db |-> d, vm |-> v]
           w == g.vm
           f == [v EXCEPT !.rc = "full"]
           k == [v EXCEPT !.iStatement = 0]
<1>1. \A a : /\ CloseStatement(a, v, TRUE).vm \in {v, k}
             /\ CloseStatement(a, v, FALSE).vm \in {v, k}
  BY DEF CloseStatement
<1>2. w \in {v, f, k}
  <2>1. CASE IsReader(v.sql)
    <3> DEFINE special  == v.rc = "nomem"
               stmtUndo == special /\ UsesStmtJournal(v.sql)
               d1       == IF special /\ ~stmtUndo THEN AbandonTransaction(d) ELSE d
               keep     == v.rc = "ok" \/ (v.errorAction = "fail" /\ ~special)
               c        == [BtreeCommit(d1) EXCEPT !.nStatement = 0]
               r        == [RollbackAll(d1) EXCEPT !.nStatement = 0]
    <3>1. \/ g = [db |-> c, vm |-> v]
          \/ g = [db |-> r, vm |-> IF keep THEN f ELSE v]
          \/ g = [db |-> AbandonTransaction(d1), vm |-> v]
          \/ g = CloseStatement(d1, v, TRUE)
          \/ g = CloseStatement(d1, v, FALSE)
      BY <2>1 DEF EndOfStatement
    <3> HIDE DEF g, special, stmtUndo, d1, keep, c, r, f, k
    <3>2. /\ CloseStatement(d1, v, TRUE).vm \in {v, k}
          /\ CloseStatement(d1, v, FALSE).vm \in {v, k}
      BY <1>1
    <3>3. CASE g = [db |-> r, vm |-> IF keep THEN f ELSE v]
      BY <3>3
    <3>4. CASE g = CloseStatement(d1, v, TRUE) \/ g = CloseStatement(d1, v, FALSE)
      BY <3>2, <3>4
    <3>5. CASE g = [db |-> c, vm |-> v]
      BY <3>5
    <3>6. CASE g = [db |-> AbandonTransaction(d1), vm |-> v]
      BY <3>6
    <3> HIDE DEF w
    <3> QED
      BY <3>1, <3>3, <3>4, <3>5, <3>6, Zenon
  <2>2. CASE ~IsReader(v.sql)
    BY <2>2
  <2> QED  BY <2>1, <2>2
<1>3. Halt(d, v, full).vm = [w EXCEPT !.magic = "halt", !.left = 0, !.at = 0]
  BY DEF Halt, Busy
<1> HIDE DEF w
<1>4. w.errorAction = v.errorAction /\ DOMAIN w = DOMAIN v
  BY <1>2 DEF VmType
<1> QED
  BY <1>3, <1>4 DEF VmType

LEMMA FailedStatementUndoneStep ==
    ASSUME MInv, RunningIsOk, NEW s \in Stmts, StartInsert(s),
           vm'[s].rc = "constraint", vm'[s].errorAction = "abort"
    PROVE  db'.work = db.work
<1> DEFINE e == Enter(s)
           o == OpenStatement(e.db, e.vm)
           rows == Rows(o.vm)
           clashes == {i \in 1..Len(rows) : Clash(o.db.work, rows, i)}
           With(n) == [o.db EXCEPT !.work = @ \cup Prefix(rows, n)]
           failed == [o.vm EXCEPT !.errorAction = o.vm.sql.onConflict]
<1>1. Midstep(s, o.db, o.vm) /\ vm[s].magic # "dead" /\ ~Busy(vm[s])
      /\ vm[s].sql.kind = "insert"
  BY WriterStartsKept DEF StartInsert, CanStep, IsWriter, Starting
<1>2. \/ Written(s, With(Len(rows)), o.vm, Len(rows)) /\ clashes = {}
      \/ \E i \in clashes :
            /\ \A j \in clashes : i <= j
            /\ Finish(s, With(i - 1), failed, "constraint")
      \/ \E n \in 0..Len(rows) :
            (\A i \in clashes : n < i) /\ Finish(s, With(n), o.vm, "nomem")
  BY DEF StartInsert
<1>3. vm \in [Stmts -> VmType]
  BY DEF MInv, IInv, TypeOK
<1> HIDE DEF o
<1>4. /\ o.vm \in VmType /\ o.db \in DbType /\ Busy(o.vm) /\ o.vm.rc = "ok"
      /\ o.vm.sql = vm[s].sql
      /\ Len(rows) = Len(o.vm.sql.rows) /\ Len(rows) \in Nat
  BY <1>1, RowsType DEF Midstep, Midway
<1>5. ASSUME NEW n \in 0..Len(rows), \A i \in clashes : n < i
      PROVE  o.db.work \cup Prefix(rows, n) \in SUBSET Keys
  <2>1. \A i \in 1..n : ~Clash(o.db.work, rows, i)
    <3> TAKE i \in 1..n
    <3>1. i \in 1..Len(rows) /\ ~(n < i)
      BY <1>4
    <3> QED
      BY <1>5, <3>1
  <2>2. Prefix(rows, n) \subseteq Keys
    BY <1>4, <2>1, PrefixIsKeys
  <2> QED
    BY <1>4, <2>2 DEF DbType
<1>6. ASSUME NEW n \in 0..Len(rows), \A i \in clashes : n < i,
             NEW rc \in {"ok", "nomem"}, Finish(s, With(n), o.vm, rc)
      PROVE  FALSE
  <2>1. With(n) \in DbType
    BY <1>4, <1>5, <1>6 DEF DbType
  <2>2. PICK full \in BOOLEAN :
           LET h == Halt(With(n), [o.vm EXCEPT !.rc = rc], full) IN Apply(s, h.db, h.vm)
    BY <1>6, VdbeAssumption DEF Finish
  <2> DEFINE w == [o.vm EXCEPT !.rc = rc]
             h == Halt(With(n), w, full)
  <2>3. w \in VmType /\ Busy(w) /\ w.rc = rc
    BY <1>4 DEF VmType, Busy
  <2>4. vm'[s] = h.vm
    BY <1>3, <2>2 DEF Apply
  <2> HIDE DEF w, With
  <2>5. h.vm.rc \in {rc, "full"}
    BY <2>1, <2>3, HaltCommits
  <2> HIDE DEF h
  <2> QED
    BY <2>4, <2>5
<1>7. CASE Written(s, With(Len(rows)), o.vm, Len(rows)) /\ clashes = {}
  <2>1. CASE \E n : Apply(s, With(Len(rows)), [o.vm EXCEPT !.left = n])
    <3>1. PICK n : Apply(s, With(Len(rows)), [o.vm EXCEPT !.left = n])
      BY <2>1
    <3>2. vm'[s] = [o.vm EXCEPT !.left = n]
      BY <1>3, <3>1 DEF Apply
    <3>3. vm'[s].rc = "ok"
      BY <1>4, <3>2 DEF VmType
    <3> QED
      BY <3>3
  <2>2. CASE Finish(s, With(Len(rows)), o.vm, "ok")
    <3>1. Len(rows) \in 0..Len(rows) /\ \A i \in clashes : Len(rows) < i
      BY <1>4, <1>7
    <3> QED
      BY <1>6, <2>2, <3>1
  <2> QED
    BY <1>7, <2>1, <2>2 DEF Written
<1>8. ASSUME NEW i \in clashes, \A j \in clashes : i <= j,
             Finish(s, With(i - 1), failed, "constraint")
      PROVE  db'.work = db.work
  <2>1. i \in 1..Len(vm[s].sql.rows) /\ i - 1 \in 0..Len(rows)
        /\ \A j \in clashes : i - 1 < j
    BY <1>4, <1>8
  <2> DEFINE K == o.db.work \cup Prefix(rows, i - 1)
             v == [failed EXCEPT !.rc = "constraint"]
  <2>2. K \in SUBSET Keys /\ (i = 1 => K = o.db.work)
    <3>1. K \in SUBSET Keys
      BY <1>5, <2>1
    <3>2. i = 1 => Prefix(rows, i - 1) = {}
      BY DEF Prefix
    <3> QED
      BY <3>1, <3>2
  <2>3. PICK full \in BOOLEAN :
           LET h == Halt(With(i - 1), v, full) IN Apply(s, h.db, h.vm)
    BY <1>8, VdbeAssumption DEF Finish
  <2>4. /\ v \in VmType /\ v.sql = o.vm.sql /\ Busy(v) /\ v.rc = "constraint"
        /\ v.iStatement = o.vm.iStatement /\ v.errorAction = o.vm.sql.onConflict
    <3>1. o.vm.sql.onConflict \in {"abort", "fail", "rollback"}
      BY <1>4, SqlFields
    <3> QED
      BY <1>4, <3>1 DEF VmType, Busy
  <2> DEFINE d == [o.db EXCEPT !.work = K]
             h == Halt(d, v, full)
  <2>5. With(i - 1) = d
    OBVIOUS
  <2>6. db' = h.db /\ vm'[s] = h.vm
    BY <1>3, <2>3, <2>5 DEF Apply
  <2> HIDE DEF v, K
  <2>7. h.vm.errorAction = v.errorAction
    BY <2>4, HaltKeepsAction
  <2>8. vm[s].sql.onConflict = "abort" /\ v.errorAction = "abort"
    BY <1>4, <2>4, <2>6, <2>7
  <2> HIDE DEF rows, failed, clashes, With
  <2>9. h.db.work = db.work
    BY <1>1, <1>4, <2>1, <2>2, <2>4, <2>8, FailedInsertUndone DEF o, e
  <2> QED
    BY <2>6, <2>9
<1> QED
  BY <1>2, <1>6, <1>7, <1>8

\* An INSERT that fails with a constraint under ON CONFLICT ABORT changes
\* nothing, whatever statements of the connection are active around it.
THEOREM FailedInsertsAreUndone == NoneHeld => (MarkSpec => FailedStatementUndone)
<1> SUFFICES ASSUME NoneHeld PROVE MarkSpec => FailedStatementUndone
  OBVIOUS
<1>1. MInv /\ RunningIsOk /\ [MarkNext]_markVars
         => [\A s \in Stmts :
                StartInsert(s) /\ vm'[s].rc = "constraint" /\ vm'[s].errorAction = "abort"
                   => db'.work = db.work]_vars
  BY FailedStatementUndoneStep
<1> QED
  BY <1>1, MarksInvariant, PTL DEF FailedStatementUndone, MarkSpec
==============================================================================
