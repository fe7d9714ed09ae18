------------------------------ MODULE Statement ------------------------------
(***************************************************************************)
(* The Statement objects of lib/statement.js (and the prepare method of    *)
(* lib/connection.js that makes them) over the C interface of module Vdbe. *)
(* The binding runs in one thread and every method is synchronous, so a    *)
(* method, with the C calls it makes and the exception it may throw        *)
(* between two of them, is one action.  Statement s is the object whose    *)
(* handle is s; a dead s is an object whose handle is 0, or no object yet. *)
(***************************************************************************)
EXTENDS Vdbe

CONSTANTS
    Args,           \* argument lists passed to bindParams
    Unsupported     \* a JavaScript value of a type bind() refuses

(* An argument list is a sequence of [param, value] pairs: an array binds  *)
(* 1, 2, ... in turn; an object binds its keys, in its own order.          *)
ArgType == [named : BOOLEAN,
            items : Seq([param : Nat,
                         value : Keys \cup {Null, Unsupported}])]

ASSUME StatementAssumption ==
    /\ Stmts # {}
    /\ Params \subseteq Nat \ {0}
    /\ Unsupported \notin Keys \cup {Null}
    /\ Args \subseteq ArgType
    /\ \A a \in Args : ~a.named => \A i \in DOMAIN a.items : a.items[i].param = i

VARIABLES
    call,       \* the last method call: which, on what, and did it throw
    owed,       \* history: s's last step threw, and nothing reported it since
    given,      \* history: what the program meant to have bound
    tidy        \* history: no misuse of s since its last successful reset

jsVars == <<db, vm, call, owed, given, tidy>>

Returned(method, s, threw) == call' = [method |-> method, stmt |-> s, threw |-> threw]

HasParam(v, p) ==
    v.magic # "dead" /\ \E i \in DOMAIN v.sql.rows : v.sql.rows[i] = p

\* Mutants: a value of any type is taken; a running program is rebound.
BindThrows_AnyType(v, item) ==
    ~(v.magic = "run" /\ ~v.started) \/ ~HasParam(v, item.param)

BindThrows_Running(v, item) ==
    item.value = Unsupported \/ v.magic = "dead" \/ ~HasParam(v, item.param)

\* bind(): does binding this pair throw?  SQLITE_MISUSE for a program that is
\* not ready or a null handle, SQLITE_RANGE, or an unsupported value.
BindThrows(v, item) ==
    \/ item.value = Unsupported
    \/ ~(v.magic = "run" /\ ~v.started)
    \/ ~HasParam(v, item.param)

\* sqlite3_bind_parameter_index gave 0: a named parameter is passed over.
Skipped(v, a, i) == a.named /\ ~HasParam(v, a.items[i].param)

\* The pairs before the first that throws; all of them when none does.
Reached(v, a) ==
    {i \in DOMAIN a.items :
        \A j \in 1..i : Skipped(v, a, j) \/ ~BindThrows(v, a.items[j])}

\* Binds the pairs reached; each parameter occurs at most once in a list.
BindAll(v, a) ==
    [p \in Params |->
        IF \E i \in Reached(v, a) : a.items[i].param = p /\ ~Skipped(v, a, i)
        THEN a.items[CHOOSE i \in Reached(v, a) : a.items[i].param = p].value
        ELSE v.aVar[p]]

\* What the arguments alone would bind, everything else being NULL.
Alone(v, a) == BindAll([v EXCEPT !.aVar = Unbound], a)

\* A text that does not compile is thrown back; one without a statement in it
\* gives an object whose handle is 0.
prepare(s, q) ==
    \/ /\ vm[s].magic = "dead"
       /\ \E threw \in BOOLEAN : Returned("prepare", s, threw)
       /\ UNCHANGED <<db, vm, owed, given, tidy>>
    \/ /\ Prepare(s, q)
       /\ Returned("prepare", s, FALSE)
       /\ owed' = [owed EXCEPT ![s] = FALSE]
       /\ given' = [given EXCEPT ![s] = Unbound]
       /\ tidy' = [tidy EXCEPT ![s] = TRUE]

\* The loop stops at the first exception; what was bound before it stays.
bindParams(s, a) ==
    LET threw == Reached(vm[s], a) # DOMAIN a.items
    IN  /\ vm' = IF vm[s].magic = "dead" THEN vm
                 ELSE [vm EXCEPT ![s].aVar = BindAll(vm[s], a)]
        /\ Returned("bindParams", s, threw)
        /\ given' = [given EXCEPT ![s] = IF threw THEN @ ELSE Alone(vm[s], a)]
        /\ tidy' = [tidy EXCEPT ![s] = @ /\ ~threw /\ given[s] = Unbound]
        /\ UNCHANGED <<db, owed>>

step(s) ==
    \/ /\ vm[s].magic = "dead"
       /\ Returned("step", s, TRUE)
       /\ UNCHANGED <<db, vm, owed, given, tidy>>
    \/ /\ Step(s)
       /\ Returned("step", s, vm'[s].rc # "ok")
       /\ owed' = [owed EXCEPT ![s] = vm'[s].rc # "ok"]
       /\ UNCHANGED <<given, tidy>>

\* Mutant: reset() leaves out sqlite3_clear_bindings.
Cleared_Never(v, threw) == v

\* Only after an SQLITE_OK does reset() go on to sqlite3_clear_bindings.
Cleared(v, threw) == IF threw THEN v ELSE [v EXCEPT !.aVar = Unbound]

\* sqlite3_reset returns the result code of the run it ends.
reset(s) ==
    \/ /\ vm[s].magic = "dead"
       /\ Returned("reset", s, FALSE)
       /\ UNCHANGED <<db, vm, owed, given, tidy>>
    \/ /\ vm[s].magic # "dead"
       /\ \E full \in {FALSE, CanFill} :
             LET h == Halt(db, vm[s], full)
                 threw == h.vm.rc # "ok"
             IN  /\ Apply(s, h.db, Cleared(Rewind(h.vm), threw))
                 /\ Returned("reset", s, threw)
                 /\ tidy' = [tidy EXCEPT ![s] = ~threw]
                 /\ given' = [given EXCEPT ![s] = IF threw THEN @ ELSE Unbound]
       /\ owed' = [owed EXCEPT ![s] = FALSE]

\* The handle becomes 0 before the exception is thrown.
finalize(s) ==
    \/ /\ vm[s].magic = "dead"
       /\ Returned("finalize", s, FALSE)
       /\ UNCHANGED <<db, vm, owed, given, tidy>>
    \/ /\ vm[s].magic # "dead"
       /\ \E full \in {FALSE, CanFill} :
             LET h == Halt(db, vm[s], full)
             IN  /\ Apply(s, h.db, Dead)
                 /\ Returned("finalize", s, h.vm.rc # "ok")
       /\ owed' = [owed EXCEPT ![s] = FALSE]
       /\ UNCHANGED <<given, tidy>>

jsInit ==
    /\ Init
    /\ call = [method |-> "none", stmt |-> CHOOSE s \in Stmts : TRUE,
               threw |-> FALSE]
    /\ owed = [s \in Stmts |-> FALSE]
    /\ given = [s \in Stmts |-> Unbound]
    /\ tidy = [s \in Stmts |-> TRUE]

jsNext ==
    \E s \in Stmts :
        \/ \E q \in Sqls : prepare(s, q)
        \/ \E a \in Args : bindParams(s, a)
        \/ step(s)
        \/ reset(s)
        \/ finalize(s)

jsSpec == jsInit /\ [][jsNext]_jsVars
-----------------------------------------------------------------------------
(* Properties.                                                             *)

jsTypeOK ==
    /\ TypeOK
    /\ call.stmt \in Stmts /\ call.threw \in BOOLEAN
    /\ owed \in [Stmts -> BOOLEAN]
    /\ given \in [Stmts -> [Params -> Keys \cup {Null}]]
    /\ tidy \in [Stmts -> BOOLEAN]

\* An error is thrown twice and no more: by the step that met it, and by the
\* next reset or finalize.  That reset throws for no other reason, except
\* that ending a run that was still active may itself fail.
ErrorsReported ==
    [][call'.method \in {"reset", "finalize"} =>
          LET s == call'.stmt
          IN  /\ owed[s] => call'.threw
              /\ call'.threw => owed[s] \/ Busy(vm[s])]_jsVars

\* Between two successful resets, a program that calls bindParams once, with
\* nothing thrown, runs on exactly the values it passed and NULL elsewhere:
\* no value of an earlier run is left behind.
NoStaleBinding ==
    \A s \in Stmts :
        tidy[s] /\ vm[s].magic # "dead" => vm[s].aVar = given[s]

\* Only an idle program is rebound: no method changes the parameters of a
\* statement in the middle of its run and leaves it running.
RunKeepsBindings ==
    [][\A s \in Stmts :
          Busy(vm[s]) /\ Busy(vm'[s]) => vm'[s].aVar = vm[s].aVar]_jsVars
=============================================================================
