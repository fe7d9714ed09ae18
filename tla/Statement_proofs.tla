--------------------------- MODULE Statement_proofs ---------------------------
(***************************************************************************)
(* Proofs about module Statement: what the methods of a Statement object   *)
(* make of the C interface, for every set of objects, texts and argument   *)
(* lists.  The connection's invariants (IInv, TInv) hold under the methods *)
(* as they do under the C calls.  JInv adds what the methods themselves    *)
(* rely on: a result code other than SQLITE_OK belongs to a halted program *)
(* (RunningIsOk), is owed to the program exactly until it is reported      *)
(* (OwedIsKept), and the bound values are the ones last given.             *)
(***************************************************************************)
EXTENDS Statement, Vdbe_proofs

\* An error is owed by exactly the objects whose program halted with one.
OwedIsKept ==
    \A s \in Stmts : owed[s] <=> vm[s].magic = "halt" /\ vm[s].rc # "ok"

HistoryOK ==
    /\ call.stmt \in Stmts /\ call.threw \in BOOLEAN
    /\ owed \in [Stmts -> BOOLEAN]
    /\ given \in [Stmts -> [Params -> Keys \cup {Null}]]
    /\ tidy \in [Stmts -> BOOLEAN]

JInv ==
    /\ HistoryOK
    /\ RunningIsOk
    /\ OwedIsKept
    /\ NoStaleBinding

\* The two invariants of the connection.
CInv == IInv /\ TInv
-----------------------------------------------------------------------------
\* What bindParams reaches can be bound.
LEMMA ReachedIsBindable ==
    ASSUME NEW v, NEW a \in Args, NEW i \in Reached(v, a), ~Skipped(v, a, i)
    PROVE  /\ v.magic = "run" /\ ~v.started
           /\ a.items[i].value \in Keys \cup {Null}
<1>1. a \in ArgType
  BY StatementAssumption
<1>2. a.items \in Seq([param : Nat, value : Keys \cup {Null, Unsupported}])
  BY <1>1 DEF ArgType
<1>3. i \in DOMAIN a.items /\ \A j \in 1..i : Skipped(v, a, j) \/ ~BindThrows(v, a.items[j])
  BY DEF Reached
<1>4. i \in Nat \ {0} /\ a.items[i] \in [param : Nat, value : Keys \cup {Null, Unsupported}]
  <2> DEFINE T == [param : Nat, value : Keys \cup {Null, Unsupported}]
             l == a.items
  <2>1. l \in Seq(T) /\ i \in DOMAIN l
    BY <1>2, <1>3
  <2> HIDE DEF T, l
  <2>2. i \in 1..Len(l) /\ Len(l) \in Nat
    BY <2>1, LenProperties
  <2>3. l[i] \in T
    BY <2>1, <2>2, ElementOfSeq
  <2> QED
    BY <2>2, <2>3 DEF T, l
<1>5. ~BindThrows(v, a.items[i])
  <2>1. i \in 1..i
    BY <1>4
  <2> QED
    BY <1>3, <2>1
<1> QED
  BY <1>4, <1>5 DEF BindThrows

\* The values after bindParams are keys and NULLs; they change only in a
\* program that is ready and has not started.
LEMMA BindAllType ==
    ASSUME NEW v, v.aVar \in [Params -> Keys \cup {Null}], NEW a \in Args
    PROVE  /\ BindAll(v, a) \in [Params -> Keys \cup {Null}]
           /\ ~(v.magic = "run" /\ ~v.started) => BindAll(v, a) = v.aVar
<1> DEFINE Sets(p, i) == a.items[i].param = p /\ ~Skipped(v, a, i)
           Chosen(p) == CHOOSE i \in Reached(v, a) : a.items[i].param = p
<1>1. ASSUME NEW p \in Params, \E i \in Reached(v, a) : Sets(p, i)
      PROVE  /\ a.items[Chosen(p)].value \in Keys \cup {Null}
             /\ v.magic = "run" /\ ~v.started
  <2>1. PICK i \in Reached(v, a) : Sets(p, i)
    BY <1>1
  <2>2. Chosen(p) \in Reached(v, a) /\ a.items[Chosen(p)].param = p
    BY <2>1
  <2>3. ~Skipped(v, a, Chosen(p))
    BY <2>1, <2>2 DEF Skipped
  <2> QED
    BY <2>2, <2>3, ReachedIsBindable
<1>2. BindAll(v, a) = [p \in Params |-> IF \E i \in Reached(v, a) : Sets(p, i)
                                        THEN a.items[Chosen(p)].value ELSE v.aVar[p]]
  BY DEF BindAll
<1> HIDE DEF Sets, Chosen
<1>3. BindAll(v, a) \in [Params -> Keys \cup {Null}]
  BY <1>1, <1>2
<1>4. ASSUME ~(v.magic = "run" /\ ~v.started)
      PROVE  BindAll(v, a) = v.aVar
  <2>1. \A p \in Params : ~\E i \in Reached(v, a) : Sets(p, i)
    BY <1>1, <1>4
  <2>2. BindAll(v, a) = [p \in Params |-> v.aVar[p]]
    BY <1>2, <2>1
  <2> QED
    BY <2>2
<1> QED
  BY <1>3, <1>4
-----------------------------------------------------------------------------
\* A method call on an object whose handle is 0, before and after it.
LEMMA IdleCallKeeps ==
    ASSUME CInv, JInv, NEW s \in Stmts, NEW method, NEW threw \in BOOLEAN,
           Returned(method, s, threw), UNCHANGED <<db, vm, owed, given, tidy>>
    PROVE  CInv' /\ JInv'
<1>1. CInv'
  <2>1. UNCHANGED vars
    BY DEF vars
  <2> QED
    BY <2>1, StepIInv, StepTInv DEF CInv
<1>2. JInv'
  BY DEF JInv, HistoryOK, RunningIsOk, OwedIsKept, NoStaleBinding, Returned
<1> QED
  BY <1>1, <1>2

\* prepare().
LEMMA PrepareKeeps ==
    ASSUME CInv, JInv, NEW s \in Stmts, NEW q \in Sqls, prepare(s, q)
    PROVE  CInv' /\ JInv'
<1>1. CASE /\ \E threw \in BOOLEAN : Returned("prepare", s, threw)
           /\ UNCHANGED <<db, vm, owed, given, tidy>>
  BY <1>1, IdleCallKeeps
<1>2. CASE /\ Prepare(s, q)
           /\ Returned("prepare", s, FALSE)
           /\ owed' = [owed EXCEPT ![s] = FALSE]
           /\ given' = [given EXCEPT ![s] = Unbound]
           /\ tidy' = [tidy EXCEPT ![s] = TRUE]
  <2>1. CInv'
    BY <1>2, PrepareKeepsIInv, PrepareKeepsTInv DEF CInv
  <2>2. vm \in [Stmts -> VmType] /\ Unbound \in [Params -> Keys \cup {Null}]
    BY DEF CInv, IInv, TypeOK, Unbound
  <2>3. vm'[s] = Fresh(q) /\ \A t \in Stmts \ {s} : vm'[t] = vm[t]
    BY <1>2, <2>2 DEF Prepare
  <2>4. Fresh(q).rc = "ok" /\ Fresh(q).magic = "run" /\ Fresh(q).aVar = Unbound
    BY DEF Fresh
  <2>5. HistoryOK'
    BY <1>2, <2>2 DEF Returned, JInv, HistoryOK
  <2>6. RunningIsOk' /\ OwedIsKept' /\ NoStaleBinding'
    BY <1>2, <2>3, <2>4, ZenonT(40)
       DEF JInv, HistoryOK, RunningIsOk, OwedIsKept, NoStaleBinding
  <2> QED
    BY <2>1, <2>5, <2>6 DEF JInv
<1> QED
  BY <1>1, <1>2 DEF prepare

\* bindParams().
LEMMA BindParamsKeeps ==
    ASSUME CInv, JInv, NEW s \in Stmts, NEW a \in Args, bindParams(s, a)
    PROVE  /\ CInv' /\ JInv'
           /\ \A t \in Stmts : Busy(vm[t]) => vm'[t].aVar = vm[t].aVar
<1> DEFINE v == vm[s]
           b == BindAll(v, a)
           w == IF v.magic = "dead" THEN v ELSE [v EXCEPT !.aVar = b]
           threw == Reached(v, a) # DOMAIN a.items
<1>1. vm \in [Stmts -> VmType] /\ v \in VmType /\ v.aVar \in [Params -> Keys \cup {Null}]
  BY SqlFields DEF CInv, IInv, TypeOK
<1>2. b \in [Params -> Keys \cup {Null}]
      /\ (~(v.magic = "run" /\ ~v.started) => b = v.aVar)
  BY <1>1, BindAllType
<1> HIDE DEF b
<1>3. /\ w \in VmType /\ w.sql = v.sql /\ w.magic = v.magic /\ w.started = v.started
      /\ w.rc = v.rc /\ w.iStatement = v.iStatement
      /\ w.aVar = IF v.magic = "dead" THEN v.aVar ELSE b
  BY <1>1, <1>2 DEF VmType
<1>4. vm' = [vm EXCEPT ![s] = w] /\ UNCHANGED db
  BY <1>1 DEF bindParams, b
<1> HIDE DEF w
<1>5. vm'[s] = w /\ \A t \in Stmts \ {s} : vm'[t] = vm[t]
  BY <1>1, <1>4
<1>6. CInv'
  <2>1. IInv'
    BY <1>3, <1>4, QuietKeepsIInv DEF CInv, Busy
  <2>2. Apply(s, db, w)
    BY <1>4 DEF Apply
  <2>3. TInv'
    BY <1>3, <2>2, QuietKeepsTInv DEF CInv
  <2> QED
    BY <2>1, <2>3 DEF CInv
<1>7. Unbound \in [Params -> Keys \cup {Null}]
  BY DEF Unbound
<1>8. Alone(v, a) \in [Params -> Keys \cup {Null}]
  <2> DEFINE u == [v EXCEPT !.aVar = Unbound]
  <2>1. u.aVar = Unbound
    BY <1>1 DEF VmType
  <2> HIDE DEF u
  <2>2. BindAll(u, a) \in [Params -> Keys \cup {Null}]
    BY <1>7, <2>1, BindAllType
  <2> QED
    BY <2>2 DEF Alone, u
<1>9. /\ given' = [given EXCEPT ![s] = IF threw THEN @ ELSE Alone(v, a)]
      /\ tidy' = [tidy EXCEPT ![s] = @ /\ ~threw /\ given[s] = Unbound]
      /\ owed' = owed /\ call'.stmt = s /\ call'.threw = threw
  BY DEF bindParams, Returned
<1>10. HistoryOK'
  BY <1>8, <1>9 DEF JInv, HistoryOK
<1>11. RunningIsOk' /\ OwedIsKept'
  BY <1>3, <1>5, <1>9 DEF JInv, RunningIsOk, OwedIsKept
<1>12. NoStaleBinding'
  <2> SUFFICES ASSUME NEW t \in Stmts, tidy'[t], vm'[t].magic # "dead"
               PROVE  vm'[t].aVar = given'[t]
    BY DEF NoStaleBinding
  <2>1. CASE t # s
    BY <1>5, <1>9, <2>1 DEF JInv, NoStaleBinding
  <2>2. CASE t = s
    <3>1. tidy[s] /\ ~threw /\ given[s] = Unbound
      BY <1>9, <2>2 DEF JInv, HistoryOK
    <3>2. v.magic # "dead" /\ v.aVar = Unbound
      BY <1>3, <1>5, <2>2, <3>1 DEF JInv, NoStaleBinding
    <3>3. [v EXCEPT !.aVar = Unbound] = v
      BY <1>1, <3>2 DEF VmType
    <3>4. Alone(v, a) = b
      BY <3>3 DEF Alone, b
    <3>5. given'[s] = Alone(v, a)
      BY <1>9, <3>1 DEF JInv, HistoryOK
    <3> QED
      BY <1>3, <1>5, <2>2, <3>2, <3>4, <3>5
  <2> QED
    BY <2>1, <2>2
<1>13. \A t \in Stmts : Busy(vm[t]) => vm'[t].aVar = vm[t].aVar
  BY <1>2, <1>3, <1>5 DEF Busy
<1> QED
  BY <1>6, <1>10, <1>11, <1>12, <1>13 DEF JInv

\* step().
LEMMA StepMethodKeeps ==
    ASSUME CInv, JInv, NEW s \in Stmts, step(s)
    PROVE  /\ CInv' /\ JInv'
           /\ \A t \in Stmts : vm'[t].aVar = vm[t].aVar
<1>1. CASE UNCHANGED <<db, vm, owed, given, tidy>> /\ Returned("step", s, TRUE)
  BY <1>1, IdleCallKeeps
<1>2. CASE /\ Step(s)
           /\ Returned("step", s, vm'[s].rc # "ok")
           /\ owed' = [owed EXCEPT ![s] = vm'[s].rc # "ok"]
           /\ UNCHANGED <<given, tidy>>
  <2>1. /\ vm'[s].aVar = vm[s].aVar /\ vm'[s].magic \in {"run", "halt"}
        /\ vm'[s].magic = "run" => vm'[s].rc = "ok"
        /\ \A t \in Stmts \ {s} : vm'[t] = vm[t]
    BY <1>2, StepKeeps DEF CInv, JInv
  <2>2. CInv'
    <3>1. Next
      BY <1>2 DEF Next
    <3> QED
      BY <3>1, StepIInv, StepTInv DEF CInv
  <2>3. vm[s].magic # "dead"
    BY <1>2 DEF Step, StepSelect, StepValue, StartInsert, StartDelete, StepReturning,
       StepBegin, StepCommit, StepRollback, StepSavepoint, StepRelease,
       StepRollbackTo, CanStep
  <2>4. HistoryOK'
    BY <1>2 DEF JInv, HistoryOK, Returned
  <2>5. RunningIsOk'
    BY <2>1 DEF JInv, RunningIsOk
  <2>6. OwedIsKept'
    BY <1>2, <2>1 DEF JInv, HistoryOK, OwedIsKept
  <2>7. NoStaleBinding'
    BY <1>2, <2>1, <2>3 DEF JInv, NoStaleBinding
  <2> QED
    BY <2>1, <2>2, <2>4, <2>5, <2>6, <2>7 DEF JInv
<1> QED
  BY <1>1, <1>2 DEF step

\* The end of a run reports its error: a program that was idle had the one
\* that is owed, one that was active may fail to commit.
LEMMA HaltReports ==
    ASSUME CInv, JInv, NEW s \in Stmts, NEW full \in BOOLEAN, vm[s].magic # "dead"
    PROVE  LET h == Halt(db, vm[s], full)
           IN  /\ owed[s] => h.vm.rc # "ok"
               /\ h.vm.rc # "ok" => owed[s] \/ Busy(vm[s])
<1>1. vm[s] \in VmType
  BY DEF CInv, IInv, TypeOK
<1>2. owed[s] <=> vm[s].magic = "halt" /\ vm[s].rc # "ok"
  BY DEF JInv, OwedIsKept
<1>3. CASE vm[s].magic = "halt"
  BY <1>2, <1>3 DEF Halt
<1>4. CASE vm[s].magic = "run" /\ ~vm[s].started
  <2>1. Halt(db, vm[s], full).vm = [vm[s] EXCEPT !.magic = "halt"]
    BY <1>4 DEF Halt
  <2>2. vm[s].rc = "ok"
    BY <1>4 DEF JInv, RunningIsOk
  <2> QED
    BY <1>1, <1>2, <1>4, <2>1, <2>2 DEF VmType
<1>5. CASE Busy(vm[s])
  BY <1>2, <1>5 DEF Busy
<1> QED
  BY <1>1, <1>3, <1>4, <1>5 DEF VmType, Busy

\* What reset and finalize report, of the object they are called on.
Reported(s, threw) ==
    /\ owed[s] => threw
    /\ threw => owed[s] \/ Busy(vm[s])

\* reset().
LEMMA ResetMethodKeeps ==
    ASSUME CInv, JInv, NEW s \in Stmts, reset(s)
    PROVE  /\ CInv' /\ JInv'
           /\ call'.stmt = s /\ Reported(s, call'.threw)
           /\ \A t \in Stmts : Busy(vm'[t]) => vm'[t].aVar = vm[t].aVar
<1>1. CASE /\ vm[s].magic = "dead"
           /\ UNCHANGED <<db, vm, owed, given, tidy>> /\ Returned("reset", s, FALSE)
  <2>1. ~owed[s]
    BY <1>1 DEF JInv, OwedIsKept
  <2> QED
    BY <1>1, <2>1, IdleCallKeeps DEF Reported, Returned
<1>2. CASE vm[s].magic # "dead" /\ owed' = [owed EXCEPT ![s] = FALSE]
           /\ \E full \in {FALSE, CanFill} :
                 LET h == Halt(db, vm[s], full)
                     threw == h.vm.rc # "ok"
                 IN  /\ Apply(s, h.db, Cleared(Rewind(h.vm), threw))
                     /\ Returned("reset", s, threw)
                     /\ tidy' = [tidy EXCEPT ![s] = ~threw]
                     /\ given' = [given EXCEPT ![s] = IF threw THEN @ ELSE Unbound]
  <2>1. PICK full \in BOOLEAN :
                 LET h == Halt(db, vm[s], full)
                     threw == h.vm.rc # "ok"
                 IN  /\ Apply(s, h.db, Cleared(Rewind(h.vm), threw))
                     /\ Returned("reset", s, threw)
                     /\ tidy' = [tidy EXCEPT ![s] = ~threw]
                     /\ given' = [given EXCEPT ![s] = IF threw THEN @ ELSE Unbound]
    BY <1>2, VdbeAssumption
  <2> DEFINE h == Halt(db, vm[s], full)
             threw == h.vm.rc # "ok"
             r == Rewind(h.vm)
             w == Cleared(r, threw)
  <2>2. /\ Apply(s, h.db, w)
        /\ Returned("reset", s, threw)
        /\ tidy' = [tidy EXCEPT ![s] = ~threw]
        /\ given' = [given EXCEPT ![s] = IF threw THEN @ ELSE Unbound]
    BY <2>1
  <2>3. Unbound \in [Params -> Keys \cup {Null}]
    BY DEF Unbound
  <2>4. r \in VmType /\ r.magic = "run" /\ ~r.started /\ r.rc = "ok" /\ r.iStatement = 0
    <3>1. h.vm \in VmType
      BY HaltAny DEF CInv
    <3> HIDE DEF h
    <3> QED
      BY <3>1, RewindType DEF Rewind, VmType
  <2>5. Reported(s, threw)
    BY <1>2, HaltReports DEF Reported
  <2> HIDE DEF threw, r
  <2>6. /\ w \in VmType /\ w.magic = "run" /\ ~w.started /\ w.rc = "ok"
        /\ w.iStatement = 0 /\ (~threw => w.aVar = Unbound)
    BY <2>3, <2>4 DEF Cleared, VmType
  <2> HIDE DEF w
  <2>7. CInv'
    <3>1. ~Busy(w)
      BY <2>6 DEF Busy
    <3> QED
      BY <1>2, <2>2, <2>6, <3>1, HaltedKeepsIInv, HaltedKeepsTInv DEF CInv
  <2>8. vm'[s] = w /\ \A t \in Stmts \ {s} : vm'[t] = vm[t]
    BY <2>2, HaltKeeps DEF CInv
  <2> HIDE DEF h
  <2>9. threw \in BOOLEAN
    BY DEF threw
  <2>10. HistoryOK'
    BY <1>2, <2>2, <2>3, <2>9 DEF JInv, HistoryOK, Returned
  <2>11. RunningIsOk' /\ OwedIsKept'
    <3>1. ~owed'[s] /\ \A t \in Stmts \ {s} : owed'[t] = owed[t]
      BY <1>2 DEF JInv, HistoryOK
    <3> QED
      BY <2>6, <2>8, <3>1 DEF JInv, RunningIsOk, OwedIsKept
  <2>12. NoStaleBinding'
    BY <2>2, <2>6, <2>8 DEF JInv, HistoryOK, NoStaleBinding
  <2> QED
    BY <2>2, <2>5, <2>6, <2>7, <2>8, <2>10, <2>11, <2>12 DEF JInv, Returned, Busy
<1> QED
  BY <1>1, <1>2 DEF reset

\* finalize().
LEMMA FinalizeMethodKeeps ==
    ASSUME CInv, JInv, NEW s \in Stmts, finalize(s)
    PROVE  /\ CInv' /\ JInv'
           /\ call'.stmt = s /\ Reported(s, call'.threw)
           /\ \A t \in Stmts : Busy(vm'[t]) => vm'[t].aVar = vm[t].aVar
<1>1. CASE /\ vm[s].magic = "dead"
           /\ UNCHANGED <<db, vm, owed, given, tidy>>
           /\ Returned("finalize", s, FALSE)
  <2>1. ~owed[s]
    BY <1>1 DEF JInv, OwedIsKept
  <2> QED
    BY <1>1, <2>1, IdleCallKeeps DEF Reported, Returned
<1>2. CASE /\ vm[s].magic # "dead" /\ owed' = [owed EXCEPT ![s] = FALSE]
           /\ \E full \in {FALSE, CanFill} :
                 LET h == Halt(db, vm[s], full)
                 IN  /\ Apply(s, h.db, Dead)
                     /\ Returned("finalize", s, h.vm.rc # "ok")
           /\ UNCHANGED <<given, tidy>>
  <2>1. PICK full \in BOOLEAN :
                 LET h == Halt(db, vm[s], full)
                 IN  /\ Apply(s, h.db, Dead)
                     /\ Returned("finalize", s, h.vm.rc # "ok")
    BY <1>2, VdbeAssumption
  <2> DEFINE h == Halt(db, vm[s], full)
             threw == h.vm.rc # "ok"
  <2>2. Apply(s, h.db, Dead) /\ Returned("finalize", s, threw)
    BY <2>1
  <2>3. Dead \in VmType /\ ~Busy(Dead) /\ Dead.magic = "dead"
    BY DeadType DEF Dead, Fresh
  <2>4. CInv'
    BY <1>2, <2>2, <2>3, HaltedKeepsIInv, HaltedKeepsTInv DEF CInv
  <2>5. vm'[s] = Dead /\ \A t \in Stmts \ {s} : vm'[t] = vm[t]
    BY <2>2, HaltKeeps DEF CInv
  <2>6. Reported(s, threw)
    BY <1>2, HaltReports DEF Reported
  <2>7. threw \in BOOLEAN
    OBVIOUS
  <2> HIDE DEF threw
  <2>8. HistoryOK'
    BY <1>2, <2>2, <2>7 DEF JInv, HistoryOK, Returned
  <2>9. RunningIsOk' /\ OwedIsKept'
    <3>1. ~owed'[s] /\ \A t \in Stmts \ {s} : owed'[t] = owed[t]
      BY <1>2 DEF JInv, HistoryOK
    <3> QED
      BY <2>3, <2>5, <3>1 DEF JInv, RunningIsOk, OwedIsKept
  <2>10. NoStaleBinding'
    BY <1>2, <2>3, <2>5 DEF JInv, NoStaleBinding
  <2> QED
    BY <2>2, <2>3, <2>4, <2>5, <2>6, <2>8, <2>9, <2>10 DEF JInv, Returned
<1> QED
  BY <1>1, <1>2 DEF finalize
-----------------------------------------------------------------------------
\* A program that has made no call yet.
LEMMA InitJInv == jsInit => CInv /\ JInv
<1> SUFFICES ASSUME jsInit PROVE CInv /\ JInv
  OBVIOUS
<1>1. CInv
  BY InitIInv, InitTInv DEF jsInit, CInv
<1>2. \A s \in Stmts : vm[s].magic = "dead"
  BY DeadType DEF jsInit, Init, Dead, Fresh
<1>3. Unbound \in [Params -> Keys \cup {Null}]
  BY DEF Unbound
<1>4. HistoryOK
  <2>1. (CHOOSE s \in Stmts : TRUE) \in Stmts
    BY StatementAssumption
  <2> QED
    BY <1>3, <2>1 DEF jsInit, HistoryOK
<1>5. RunningIsOk /\ OwedIsKept /\ NoStaleBinding
  BY <1>2 DEF jsInit, RunningIsOk, OwedIsKept, NoStaleBinding
<1> QED
  BY <1>1, <1>4, <1>5 DEF JInv

\* Every method keeps the invariants, reports what is owed and leaves the
\* parameters of an active program alone.
LEMMA MethodsKeep ==
    ASSUME CInv, JInv, jsNext
    PROVE  /\ CInv' /\ JInv'
           /\ call'.method \in {"reset", "finalize"} => Reported(call'.stmt, call'.threw)
           /\ \A t \in Stmts :
                 Busy(vm[t]) /\ Busy(vm'[t]) => vm'[t].aVar = vm[t].aVar
<1> DEFINE Reports == call'.method \in {"reset", "finalize"}
                         => Reported(call'.stmt, call'.threw)
           Keeps == \A t \in Stmts :
                       Busy(vm[t]) /\ Busy(vm'[t]) => vm'[t].aVar = vm[t].aVar
<1>1. ASSUME NEW s \in Stmts, NEW q \in Sqls, prepare(s, q)
      PROVE  CInv' /\ JInv' /\ Reports /\ Keeps
  <2>1. ~Busy(vm[s]) /\ \A t \in Stmts \ {s} : vm'[t] = vm[t]
    <3>1. vm \in [Stmts -> VmType]
      BY DEF CInv, IInv, TypeOK
    <3>2. vm[s].magic = "dead"
      BY <1>1 DEF prepare, Prepare
    <3>3. vm' = vm \/ vm' = [vm EXCEPT ![s] = Fresh(q)]
      BY <1>1 DEF prepare, Prepare
    <3> QED
      BY <3>1, <3>2, <3>3 DEF Busy
  <2>2. call'.method = "prepare"
    BY <1>1 DEF prepare, Returned
  <2> QED
    BY <1>1, <2>1, <2>2, PrepareKeeps
<1>2. ASSUME NEW s \in Stmts, NEW a \in Args, bindParams(s, a)
      PROVE  CInv' /\ JInv' /\ Reports /\ Keeps
  <2>1. call'.method = "bindParams"
    BY <1>2 DEF bindParams, Returned
  <2> QED
    BY <1>2, <2>1, BindParamsKeeps
<1>3. ASSUME NEW s \in Stmts, step(s)
      PROVE  CInv' /\ JInv' /\ Reports /\ Keeps
  <2>1. call'.method = "step"
    BY <1>3 DEF step, Returned
  <2> QED
    BY <1>3, <2>1, StepMethodKeeps
<1>4. ASSUME NEW s \in Stmts, reset(s)
      PROVE  CInv' /\ JInv' /\ Reports /\ Keeps
  BY <1>4, ResetMethodKeeps
<1>5. ASSUME NEW s \in Stmts, finalize(s)
      PROVE  CInv' /\ JInv' /\ Reports /\ Keeps
  BY <1>5, FinalizeMethodKeeps
<1> HIDE DEF Reports, Keeps
<1>6. CInv' /\ JInv' /\ Reports /\ Keeps
  BY <1>1, <1>2, <1>3, <1>4, <1>5 DEF jsNext
<1> QED
  BY <1>6 DEF Reports, Keeps

\* The invariants of the connection and of the objects hold together.
LEMMA MethodInvariant == jsSpec => [](CInv /\ JInv)
<1>1. CInv /\ JInv /\ [jsNext]_jsVars => (CInv /\ JInv)'
  <2> SUFFICES ASSUME CInv, JInv, [jsNext]_jsVars PROVE CInv' /\ JInv'
    OBVIOUS
  <2>1. CASE UNCHANGED jsVars
    <3>1. UNCHANGED vars
      BY <2>1 DEF jsVars, vars
    <3>2. CInv'
      BY <3>1, StepIInv, StepTInv DEF CInv
    <3>3. JInv'
      BY <2>1 DEF jsVars, JInv, HistoryOK, RunningIsOk, OwedIsKept, NoStaleBinding
    <3> QED
      BY <3>2, <3>3
  <2> QED
    BY <2>1, MethodsKeep
<1> QED
  BY <1>1, InitJInv, PTL DEF jsSpec

\* What the C calls keep true of the connection survives every sequence of
\* methods of the binding: bindParams, which sets several parameters and may
\* stop half-way, a reset that throws before it clears them, a finalize that
\* forgets its handle first.  The counters of active statements are exact,
\* every transaction outside BEGIN has a writer, every reader a transaction,
\* and an error is owed by exactly the objects whose program halted with one.
THEOREM ConnectionSurvivesMethods ==
    jsSpec => [](/\ jsTypeOK
                 /\ CountersAgree /\ SavepointsAgree
                 /\ PendingOnlyInTransaction /\ TransactionIsOwned
                 /\ ReadersHoldTransaction
                 /\ OwedIsKept)
<1>1. CInv /\ JInv => /\ jsTypeOK
                     /\ CountersAgree /\ SavepointsAgree
                     /\ PendingOnlyInTransaction /\ TransactionIsOwned
                     /\ ReadersHoldTransaction
                     /\ OwedIsKept
  BY DEF CInv, IInv, TInv, JInv, HistoryOK, jsTypeOK
<1> QED
  BY <1>1, MethodInvariant, PTL

\* A program that binds its parameters once between two resets runs on the
\* values it gave, whatever was bound, failed or left bound before.
THEOREM BindingsAreFresh == jsSpec => []NoStaleBinding
<1>1. JInv => NoStaleBinding
  BY DEF JInv
<1> QED
  BY <1>1, MethodInvariant, PTL

\* The error of a run is reported by the next reset or finalize, and neither
\* of them throws for any other reason but the end of an active run.
THEOREM ErrorsAreReported == jsSpec => ErrorsReported
<1>1. CInv /\ JInv /\ [jsNext]_jsVars
         => [call'.method \in {"reset", "finalize"} =>
                LET s == call'.stmt
                IN  /\ owed[s] => call'.threw
                    /\ call'.threw => owed[s] \/ Busy(vm[s])]_jsVars
  BY MethodsKeep DEF Reported
<1> QED
  BY <1>1, MethodInvariant, PTL DEF jsSpec, ErrorsReported

\* No method changes the parameters of a program in the middle of its run.
THEOREM ActiveKeepsBindings == jsSpec => RunKeepsBindings
<1>1. CInv /\ JInv /\ [jsNext]_jsVars
         => [\A s \in Stmts :
                Busy(vm[s]) /\ Busy(vm'[s]) => vm'[s].aVar = vm[s].aVar]_jsVars
  BY MethodsKeep
<1> QED
  BY <1>1, MethodInvariant, PTL DEF jsSpec, RunKeepsBindings
=============================================================================
