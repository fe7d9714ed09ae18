# A verification project for sqlite3.js

sqlite3.js is SQLite 3.37.2 compiled to WebAssembly, with a JavaScript binding
that drives it. This directory holds TLA+ models of the parts of it where the
order of calls matters, the TLC configurations that check them on small
instances, and proofs, checked by TLAPS, of the invariants of the statement
machine, of the transactions and savepoints of a connection, of the binding's
statement objects and memory, of the scans of `generate_series`, of the strings that
cross between JavaScript and the library, and of the locks, states, caches and
journals of the pagers that share a store, with the refinement of what they promise.
`PROJECT.json` lists components, runs, mutants, the source lines of every
definition, findings, hazards and theorems.

Paths below are relative to the repository; `sqlite3.c` is `src/sqlite3.c`.

## 1. Inventory

| Component | State | Operations | Hard behaviour | What makes it correct |
|---|---|---|---|---|
| Statements and transactions (`sqlite3.c`: `sqlite3_step`, `sqlite3VdbeHalt`, `OP_AutoCommit`, `OP_Transaction`) | `struct sqlite3` (autoCommit, nVdbeActive/Write/Read, nStatement, nSavepoint), `struct Vdbe` per statement, the transaction state of b-tree and pager | prepare, bind, step, reset, clear_bindings, finalize | Several statements active at once share one transaction; each may fail, be reset or end in any order; any allocation may fail; a commit may find the store full | The counters count; the last one out commits; no reader loses its transaction; a commit is whole; a failed statement is undone |
| Savepoints (`OP_Savepoint`, pager savepoints) | list of names, two counts, the pager's records | SAVEPOINT, RELEASE, ROLLBACK TO | The pager opens its records only at the next write; indices are computed from positions; names repeat | ROLLBACK TO restores what was there |
| Pager (`sqlite3.c`: `sqlite3Pager*`, `pager_*`, `subj*`) | `struct Pager` (eState, eLock, dbSize, dbOrigSize, dbFileSize, changeCountDone, dbFileVers), page cache, rollback journal, sub-journal, savepoints | open, close, begin and end of reads and writes, get, write, allocate, spill, savepoints, commit in two phases, rollback | Pages reach the store before the commit (spills); the store may be full at any of them; the cache outlives the lock under which it was read; a savepoint's pages are split over two journals | Caches are coherent; the journal is ahead of the store; a transaction is all or nothing; a rollback to a savepoint restores its image |
| memdb (`sqlite3.c`: `memdb*`) | MemStore: content, size limit, lock counts, reference count | open, close, lock, unlock, read, write, truncate | stores shared by name; growth up to a limit | lock exclusion; the counts are what the users hold |
| Serialize and deserialize | buffers handed over | `sqlite3_serialize`, `sqlite3_deserialize` | ownership of a buffer | no leak, no double free |
| Statement objects (`lib/statement.js`, `prepare` in `lib/connection.js`) | handle; the program's parameters | prepare, bindParams, step, reset, finalize, get, columns | An exception leaves a method half done | Errors are thrown where they belong; bindings do not leak from run to run |
| String conversion (`lib/runtime.js`, `lib/statement.js`) | what the library keeps of a text | UTF-8 from and to UTF-16: `stringToUTF8`, `UTF8ArrayToString`, `TextDecoder`; text bound by a length | surrogates without a partner; a byte order mark; a length in the wrong unit | names come back; nothing is cut for lack of room; a bound text reads no byte that was not written |
| generate_series (`ext/misc/series.c`) | cursor: bounds, step, direction, value | bestIndex, filter, eof, column, next | Wrapping arithmetic, signed remainder, direction from two sources | Each member once, in the promised order; the scan ends |
| Linear memory (`lib/pointer.js`, `lib/index.js`, `lib/connection.js`, `lib/statement.js`, `lib/runtime.js`) | the memory's size, heap blocks, typed-array views, handles | open, serialize, prepare, step, bind and get of a BLOB or text, finalize | The memory grows inside a C call and detaches views; allocations fail; methods throw between two C calls | Handles do not dangle or alias; what a method allocates is given back |
| Module loading (`lib/sqlite3.js`) | a flag and the table of exports | load, the proxy gate | A flag and three assignments in one synchronous call: no order of steps to check | a method runs only on a loaded module |
| Environment and WASI shims, wasm VFS | none after start | clock, random, console, HTTP | - | - |
| Compiler, planner, b-tree pages, WAL, functions of SQLite | vendored | - | - | out of scope |
| Build, bundling, demo page | none | - | - | - |

How they interact. Everything runs in one JavaScript thread, so a method of the
binding is atomic with respect to other methods, but it makes several C calls
and may throw between two of them. A `Statement` holds the address of a
`sqlite3_stmt`; between two calls of `step()` that statement is *active*, and
any other statement of the connection may run meanwhile: this is where the
interleavings within a connection are. Connections that open the same memdb
name share one store, and interleave at the same points: a transaction left open
between two calls holds locks, cached pages and, after a spill, a half-changed
store. The VDBE drives the pager through the b-tree layer; the pager reads and
writes the store through the VFS methods. The C library reaches back to
JavaScript only through the imports of the WebAssembly module: the WASI and
environment shims, and the notice that the memory has grown, which
`lib/sqlite3.js:62` ignores. `generate_series` is called by SQLite's loop over
virtual tables.

The hazards this code is exposed to are listed, each at its line, in
`PROJECT.json` under `hazards`, with the properties that would catch them.

## 2. The modules

```
Vdbe ---- EXTENDS ---- Savepoints      (history of savepoint contents)
  |  \---- EXTENDS ---- Statement      (the binding's objects over the C calls)
  |   \--- EXTENDS ---- Vdbe_proofs
  |                         |   |
  |   Savepoints + Vdbe_proofs  |  = Savepoints_proofs
  '   Statement + Vdbe_proofs <-'  = Statement_proofs

MemDb --- EXTENDS ---- Pager --- EXTENDS ---- Pager_proofs
Store --- INSTANCE WITH -'   (Pager implements Store)  |
                                              PagerStore_proofs

Series <-- Series_proofs      Memory <-- Memory_proofs      Text <-- Text_proofs
                                       (independent of the others)

MC<module> instantiates <module> for TLC
```

`Vdbe` sees one connection and takes the pager for granted: `disk`, `work` and
`aSavepoint` are what `Store` promises. `Pager` is the other side: the pages, caches and
journals of several connections, driven by any caller that keeps the b-tree's
order of calls.

### Vdbe

`db` is the part of `struct sqlite3`, `Btree` and `Pager` that decides about
transactions; `vm[s]` is the program behind statement `s`. `disk` is the
committed content, `work` the content the connection sees, `aSavepoint` the
pager's savepoints. The database is one table with a unique key, without rowid,
so that its content is a set of keys. A statement has one of ten forms (`Kinds`):
SELECT of the table, SELECT of a parameter (no table), INSERT of a list of rows
with an ON CONFLICT clause, DELETE of a list, both with or without RETURNING,
and the six transaction statements.

One call of the C interface is one action. `Enter` is the head of
`sqlite3Step` (the automatic reset of a halted program, and the counting of a
program that starts), `Halt` is `sqlite3VdbeHalt` (`EndOfStatement` its
decision between commit, rollback, and the release or rollback of the
statement transaction), `Finish` runs a program into `Halt` with a result code.
The opcodes are in the actions `StepSelect` ... `StepRollbackTo`. A writer does
all its writes in its first step and hands out its RETURNING rows in the later
ones, as the code generator arranges. Two choices are nondeterministic, and
bounded by constants: whether an allocation fails (`OutOfMemory`) and whether
the store can grow during a commit (`CanFill`: a memdb store that is not
resizeable, or at its limit).

Abstractions: the order in which a SELECT meets keys is the b-tree's; the rows
a RETURNING clause returns are only counted; the values of a result row are not
kept.

### Savepoints

Adds to `Vdbe` the history variable `marks`, the content at the time each open
savepoint was created. It never guards an action. `Vdbe` keeps the code's own
representation: names in one list, records in the pager, index arithmetic
between them.

### MemDb

One `MemStore`. Every method of the VFS runs under the store's mutex, so a method
is an operator from the store `m` to the store it leaves: `Created`, `Shared`,
`Closed` (open and close), `Read`, `Fits`, `Written`, `Resized` (read, enlarge,
write, truncate), `LockOK` and `Locked` (lock and unlock, whose caller passes its own
level). The content of a page is one value, and on page 1 also the change
counter and the number of pages, the header bytes by which a pager recognises a
version of the file.

### Store

The abstract specification: a committed image `db`, the `owner` of the one
transaction that may write, the image `work` it sees, and `marks`, the images of its
savepoints. `Begin`, `Change`, `Mark`, `Release`, `BackTo`, `Prepare`, `Commit` and
`Rollback` are what a caller of the pager may rely on; `Vanish` is the last close
of a database that was only in memory.

### Pager

`pager[p]` is `struct Pager` of connection `p` with its page cache; `store` is the
MemStore. One call the b-tree makes is one action: `Open`, `Close`, `BeginRead`,
`EndRead`, `BeginWrite`, `Get`, `Evict`, `Spill`, `Write`, `Allocate`,
`OpenSavepoint`, `ReleaseSavepoint`, `RollbackToSavepoint`, `CommitPhaseOne` (with
the size an auto-vacuum leaves), `CommitPhaseTwo`, `Rollback`. Under them are the
functions of the code by name: `pager_write`, `syncJournal`, `SubJournalled`,
`Playback`, `Ended`, `Unlocked`. A pager may also be a `:memory:` one, which has no
store and whose cache is the database.

A call of the VDBE passes through PAGER_WRITER_FINISHED and PAGER_ERROR only to
leave them again, and there is one thread; so no other pager acts while one is in
such a state (`May`). A page of the cache carries the flags that matter: dirty,
writeable, needing a sync. A journal record counts as written to a file only if a sync has
passed it (`journalHdr`), since rollback plays back into the store only what is
safe.

The refinement: the committed image is the store's, unless a transaction is under
way, when it is put together from the original pages in its journal and the
unchanged ones in the store (`OriginalImage`); `work` is the image through the
owner's cache; a mark is the image its records and the pages untouched since
give (`Marks`). `Store` has no second client that disturbs a transaction, so
`ImplementsStore` says that the others see a transaction in one step or never.

### Statement

The methods of the binding over the same C calls, with the exceptions they
throw. `call` is the last method call, `owed`, `given` and `tidy` are history:
an error nobody has thrown yet, the values the program meant to bind, and
whether the program kept to the documented protocol since the last successful
reset. `prepare` may throw, or find no statement in the text. `BindThrows`, `Skipped`, `Reached` are the loop of `bindParams`, which
stops at the first exception with the earlier values bound.

### Text

A JavaScript string, a sequence of 16-bit units, becomes bytes in the room that
`ccall` takes for it (`stringToUTF8`, as `Points` and `Fitting`), and the library
keeps them up to the terminator (`Name`: SQL text, file and column names) or up to
the length it is told (`BindText`: `sqlite3_bind_text`, told the number of units).
`Read` decodes what is kept, with the loop of `UTF8ArrayToString` for short
strings and with `TextDecoder` for longer ones; `WriteBack` binds what was read
again; `Finalize` forgets it.

### Series

One scan of `generate_series`: `seriesBestIndex`, which refuses a query without a
start or with arguments that no plan knows, `seriesFilter`, then
`seriesEof`, `seriesColumn` (all four columns of a row), `seriesNext`, on signed
integers from `-MaxInt - 1` to `MaxInt` with wrapping addition and the remainder of
C. `Members` and `WellBehaved` are the reference: they use the arguments only.

### Memory

The heap as blocks with one owner each (`library`, `binding`, `nobody`),
`malloc` that grows the memory up to its maximum, or returns 0 for a request that
does not fit, which a large one may do at any size of the memory; and views that are
current only as long as the memory has the size it had when they were made. A method
is one action in which the order *make a view, call C, use the view* is kept.
After the bytes of a database were copied to address 0 (an allocation failed and
nobody looked) nothing is known any more, and the model stops. Binding an
ArrayBuffer copies nothing (`statement.js:20` passes it where an array is
expected), so a failed allocation there only binds NULL.

## 3. The runs

| Run | Checks | Bounds and why they suffice |
|---|---|---|
| `active` | `TypeOK`, `CountersAgree`, `StatementsClosed`, `TransactionIsOwned`, `ReadersHoldTransaction`, `PendingOnlyInTransaction`, `CommitIsWhole` | two statements over texts of every kind, so that each kind meets each other one active; two keys, one text that writes both; allocation failures and full stores. All are also theorems, for any number of statements |
| `savepoints` | `SavepointsAgree`, `SavepointsHoldMarks`, `RollbackToRestores`, `FailedStatementUndone` | two savepoints of two names, inside and outside BEGIN, released and rolled back to at the top and below it; one writer with RETURNING, so that one is active between calls. All are also theorems |
| `pager` | `TypeOK`, `LocksAgree`, `WriteAhead`, `CacheCoherent`, `UnchangedMeansFresh`, `HeaderAgrees`, `FailureRestores`, `ImplementsStore` | two pagers, two pages (page 1 and another), two values, two nested savepoints, two records in the sub-journal, two committed versions, a store of at most one page or two, so that the second page does or does not fit. All but `FailureRestores` are also theorems, for any numbers of these |
| `statement` | `jsTypeOK`, `NoStaleBinding`, `ErrorsReported`, `RunKeepsBindings` | two objects, two parameters, six argument lists: full, short, too long, with a refused value, with an unknown name. All are also theorems |
| `text` | `TypeOK`, `NamesComeBack`, `NothingDropped`, `BindReadsWritten`, `AsciiComesBack`, `CutAtTheEnd` | all strings of up to four units from the ends of the ranges of UTF-8 and of the surrogates, with NUL and the byte order mark; strings of more than three bytes (16 in the code) go through `TextDecoder`, so both decoders meet every kind of character. All are also theorems, for every string |
| `series` | `TypeOK`, `AllMembersOnce`, `OrderKept`, `NullGivesAtMostOne`, `Terminates` | every well-behaved query on 4-bit integers (`MaxInt = 7`): all starts and stops, and all steps of both signs that leave room for one step beyond the bounds; with them queries without a start, with one that is not an equality, and without a usable plan, which end in an error or are scanned from 0, and queries with NULL arguments, by every kind of step. All but `Terminates` are also theorems, for integers of any width |
| `memory` | `TypeOK`, `HandlesOwned`, `NothingHeld` | two connections, two statements, one block at first and six at most: the memory grows in every kind of call, and is full after few of them; any request may be one that does not fit. All are also theorems |
| `shared`, `spill_full`, `fresh`, `undo`, `stale` | one property each, violated | see Findings |

What they show. *Transactions*: three counters decide who commits, and the runs
find them right in every interleaving of steps, resets, finalizations and
failures; outside BEGIN the transaction is owned by somebody who is still
active, and what becomes durable is the whole working content at a moment when
no writer is halfway. *Savepoints*: the index arithmetic, with the pager's
lazily opened records, restores the right content. *Pager*: wherever pages are
spilled or evicted, whatever does not fit, and before or after phase one, a rollback
restores the image, a commit publishes all of it, and a savepoint's image
survives in the two journals; a cache kept between transactions is used only
when it is current. This holds as long as nobody begins to write while another
connection reads, which the pager expects of its VFS and memdb does not see to: the run
`shared` drops that condition. *Statement objects*: an error is thrown by the
step that meets it and once more by the reset or finalize that ends the run, and
a program that resets successfully between runs never runs on an old value.
*Text*: a well-formed name without a NUL survives the way to the library and back,
save a byte order mark at the front of a long one;
a bound text is cut, but only at its end. *Series*: both directions enumerate the members, also where
`stop` is not one. *Memory*: no sequence of failing and succeeding methods makes
a handle dangle.

Conditions of the `pager` run, each a constant, and each dropped by a run of its
own: `Turns` (nobody begins to write while another reads; dropped by `shared`),
`FirstUndone` (the first transaction of an empty store may be rolled back after
phase one; allowed by `fresh`), `LateFull` (a spill may find the store full
after an earlier one changed it; allowed by `spill_full`).

Bounds named in the modules: `MaxPage`, `Vals`, `MaxSavepoints` (open
savepoints), `MaxSub` (records in the sub-journal before a write), `MaxVer` (the
change counter, so the number of commits), `Limits` (sizes of the store);
`SavepointsAlone` (savepoints are open only while no other connection is: a
transaction that holds RESERVED is the only one that may change the store
anyway); `MaxUnits`; `MaxRows` (rows of one scan; above the 16 values of 4-bit
integers, so it never stops a well-behaved scan); `MaxSize` (the code's own bound,
in blocks).

Deadlock is checked except in two modules. In `Series` the scan ends. In
`Memory` the model stops after a database was written at address 0. In `Pager` a
pager at a bound can still give up its transaction or its lock.

Fairness. Only `Series` assumes any: weak fairness of the next step. SQLite's
loop over a virtual table calls `xNext` and `xEof` until the latter is true, and
a scan is driven by nothing else. The other modules state safety only, since
nothing obliges a program to make its next call, and a connection that waits for
a lock waits in nobody's loop: a lock that is refused is `SQLITE_BUSY`, and the
program decides what to do.

Symmetry: permutations of statements, of pagers, and of connections in `Memory`,
which nothing in the specification tells apart. It is used in runs of safety
properties only.

Every property of a passing run has a mutant in `PROJECT.json`: a change of a
definition, as a bug would make it, that makes TLC find the property violated.

## 4. Findings

Each is shown by a run that TLC finds violated; those about the C code were
repeated against the library, compiled natively.

* **`shared`**. `memdbLock` grants the exclusive lock without looking at the read
  locks (`sqlite3.c:48901`), although `sqlite3.c:15992` says that it precludes
  all other locks. A connection that opens a shared store by name may read
  uncommitted pages of another, and lose updates.
* **`spill_full`**. When a spill finds the store full after an earlier one has
  changed it, the pager goes into its error state and, on leaving it, drops the
  journal, which for memdb is in memory (`sqlite3.c:57260`). The comment at
  `sqlite3.c:54571-54574` counts on the journal being replayed. The store keeps
  pages of a transaction that never committed.
* **`fresh`**. The first transaction of an empty store is rolled back after phase
  one, because another attached database failed. `dbFileVers` keeps the version
  that was written (`sqlite3.c:57068`), another connection commits under the
  same one, and the first takes its zeroed page 1 for current, against
  `sqlite3.c:52754-52755`.
* **`undo`**. `BEGIN`, run while another statement's statement transaction is
  open, sets `nStatement` to 0 (`sqlite3.c:90311`) although the pager keeps that
  statement's savepoint. The next INSERT takes the same index, and when it fails
  it is rolled back to the older savepoint: rows another statement wrote are
  lost. The comment at `sqlite3.c:69890-69893` promises the effect of one
  statement.
* **`stale`**. `Pointer` makes its view before the C call; when the call grows
  the memory `get()` returns `undefined` (`pointer.js:7`), which becomes a
  handle or a size.

Met while reading or checking, and not turned into runs, because no comment or
test states the contrary in a form a run could refute, or because one look at
the code shows it:

* Two INSERT ... RETURNING of one connection that are active at once may end in
  either order, while the index of a statement transaction assumes the reverse
  of the order they began in (`sqlite3.c:90409`); the same family as `undo`.
* A failed RELEASE of the transaction savepoint leaves the connection inside the
  transaction, with all its savepoints, on content that was rolled back
  (`sqlite3.c:90197`; see `FailedRelease` in `Savepoints`).
* Bound text is cut when it is not ASCII, because its length is counted in
  UTF-16 units and taken as bytes (`statement.js:13`): "é" comes back as "À",
  and storing again what was read cuts it further (`CutAtTheEnd` says what is
  left). A surrogate without its partner takes the next character with it; a
  byte order mark is lost only from texts of more than 16 bytes; a name ends at
  its first NUL.
* Binding an ArrayBuffer copies no byte of it, though `statement.js:20` says "copy
  the value onto heap": `set` of a typed array looks for the length of an array,
  which an ArrayBuffer does not have. When the allocation before it fails, NULL is
  bound and nothing is thrown.
* `open(buffer)` does not look at what `sqlite3_malloc64` returned
  (`index.js:26-30`): a buffer that does not fit is copied to address 0, over the
  library's own data.
* A failing `sqlite3_open_v2` leaves, except when it ran out of memory, a connection
  that is to be closed; the constructor throws without closing it
  (`connection.js:16-21`).
* `sqlite3_bind_blob` is declared with a string where it takes an address
  (`routines.json:59`), and `get` of a BLOB passes an end where a length is
  expected (`statement.js:91`).
* `reset()` throws the error of the run it ends (`statement.js:116`)
  before it reaches `sqlite3_clear_bindings`, which its comment promises
  (`statement.js:113-114`). The parameters stay bound for the next run; no
  property speaks of it, `NoStaleBinding` leaves such a program out.
* A descending scan of a series with a NULL argument and a step above 1 returns
  the row 1, against `series.c:287-288`: the bounds are crossed so that no row is in
  them, but the signed remainder that aligns the start of the scan
  (`series.c:299`) puts it on the lower one. `NullGivesAtMostOne` says that
  this is the only row and the only case. A scan whose bounds the query crosses
  may return a row by the same arithmetic (both repeated natively). Near the end
  of the 64-bit range a scan overflows and never ends.
* `statement.js:45-46` says that `bindParams` "resets the statement clearing any
  previous binding"; it does neither.
* The constructor of `Connection`, `prepare` and `serialize` do not restore the
  stack pointer when they throw; the copy `sqlite3_serialize` returns is never
  freed.
* `serialize()` of a database without pages throws "not an error" (repeated
  natively).
* `sqlite3.js:73` binds the name `sqlite3_free` to `sqlite3_malloc`; nothing
  uses it.
* `environment.js:23` returns milliseconds where `wasm_vfs.c:52-58` reads
  seconds.
* The repository's README names `src/http_vfs.c`, which does not exist.

## 5. The proofs

### Vdbe_proofs

For every set of statements, texts, keys, parameters and savepoint names, and
from `VdbeAssumption` alone:

    THEOREM TypeCorrect       Spec => []TypeOK
    THEOREM CountersCorrect   Spec => []CountersAgree
    THEOREM SavepointsCorrect Spec => []SavepointsAgree

`TypeOK` says among other things that no counter falls below zero. It is not
inductive: a run that ends decrements three counters, and RELEASE and ROLLBACK
TO subtract from `nSavepoint`. The invariant that is inductive is

    IInv == TypeOK /\ CountersAgree /\ SavepointsAgree

since an active statement is counted (so there is something to subtract), and
the list of names is as long as `nSavepoint` says (so the positions subtracted
are there). Its parts are checked by the runs `active` and `savepoints`.

The argument follows the code. `Enter` counts the statement exactly if it was
not active (`EnterStep`); what happens until the end of the step is an operation
of the pager or of the savepoint list that leaves the counters alone
(`PagerStep`, one lemma per operation); `Halt` uncounts it (`HaltStep`,
`HaltRunning`), whichever of its branches is taken. A state in between, with the
statement counted, is described by `Running`, and the two ways to leave it, by
staying active or by halting, are `ActiveKeepsIInv` and `FinishKeepsIInv`. There is
one lemma per action on top of these, and `StepIInv` puts them together. The
counting itself is `CountOneMember` and `Recounted`: when one statement changes,
the number of active ones changes by what changed for that one.

**The transactions.** In the second part of the module, from the same assumption
and on top of `IInv`:

    THEOREM TransactionOwned             Spec => []TransactionIsOwned
    THEOREM ReadersKeepTransaction       Spec => []ReadersHoldTransaction
    THEOREM NothingPendingOutside        Spec => []PendingOnlyInTransaction
    THEOREM StatementTransactionsClosed  Spec => []StatementsClosed
    THEOREM CommitsAreWhole              Spec => CommitIsWhole

The three invariants of the transaction need each other: whether a statement that
halts may end the transaction is read from counters, and is right only if those
who read in it are counted. `StatementsClosed`, the assertion at the end of
`sqlite3VdbeHalt`, is not inductive: that nothing is left in `nStatement` when no
writer is active says nothing of the steps before. What is kept is `StatementsHeld`,
that `nStatement` counts at most the active statements that hold a statement
transaction, and that only writers hold one; when `nVdbeWrite` is 0 there are none of them. ("At
most", because BEGIN forgets them: see `undo`.) So

    TInv == PendingOnlyInTransaction /\ TransactionIsOwned
            /\ ReadersHoldTransaction /\ StatementsHeld

is inductive relative to `IInv`. `Middle` says what holds between the parts of a
step, `EnteredMiddle` that `Enter` establishes it, the lemmas on reading, writing
and savepoints that it is kept, and `HaltEnds` that `Halt` turns it back into `TInv`: the transaction ends,
and then nobody else uses it (`Ended`), or it was not the halted statement's.

`CommitIsWhole` is about a step: when the store changes, it takes the whole working
content, and no other statement is in the middle of a write. Every call leaves its
program active without touching the store (`Stays`), or is a `Halt` of a state that
satisfies `Middle` (`Ends`); and only that `Halt` commits, as the last writer. One
more invariant is needed, `RunningIsOk`: a program that has not halted has no error
to report.

### Savepoints_proofs

Under the hypothesis that no text keeps a statement transaction open between two
calls,

    NoneHeld == \A q \in Sqls : q.returning => ~UsesStmtJournal(q)

and for any number of statements, keys and nested savepoints:

    THEOREM SavepointsHoldTheirContent  NoneHeld => (MarkSpec => []SavepointsHoldMarks)
    THEOREM RollbackToIsExact           NoneHeld => (MarkSpec => RollbackToRestores)
    THEOREM FailedInsertsAreUndone      NoneHeld => (MarkSpec => FailedStatementUndone)

Without the hypothesis they are false: `undo` is the counterexample. It does not keep
writers from being active: a DELETE ... RETURNING, or an INSERT ... RETURNING with another
ON CONFLICT clause than ABORT, is active between calls and interleaves with everything.

The inductive invariant `MInv` is `IInv`, `TInv`, as many marks as savepoints,
no statement transaction open between calls, and `SavepointsHoldMarks`. It needs
`TInv` because the transaction savepoint has no record in the pager: it stands
for the store's content, which must not have changed under it. `Promised(i)` is what
position `i` of the list stands for after the step under way, and `Kept` says, in the
middle of a step, that the pager's record agrees with it, or, when the pager has
not opened the record yet, that nothing was written since. There is a lemma per
operation of the b-tree (each keeps `Kept`), two for `Halt` (`HaltSettles`,
`HaltResult`), which turn it into the invariant of the next state, and one per action.
The two action properties are read off the same lemmas: in the step that rolls
back, the place that the code computes from the list is the place of the record.

### Statement_proofs

From `VdbeAssumption` and `StatementAssumption`:

    THEOREM ConnectionSurvivesMethods
        jsSpec => [](jsTypeOK /\ CountersAgree /\ SavepointsAgree
                     /\ PendingOnlyInTransaction /\ TransactionIsOwned
                     /\ ReadersHoldTransaction /\ OwedIsKept)
    THEOREM BindingsAreFresh      jsSpec => []NoStaleBinding
    THEOREM ErrorsAreReported     jsSpec => ErrorsReported
    THEOREM ActiveKeepsBindings   jsSpec => RunKeepsBindings

A method of the binding is one or more C calls, so the invariants of the
connection (`IInv`, `TInv`) hold under the methods too, which is the first
theorem: a `bindParams` that stops half-way or a `reset` that throws leaves the
transactions as the C calls alone would. `JInv` adds what the
methods rely on: a result code other than SQLITE_OK belongs to a program that
halted (`RunningIsOk`), and is owed to the caller exactly while the program is
halted with it (`OwedIsKept`); and `NoStaleBinding`, which is inductive with them: as
long as the program is tidy, what the statement has bound is what was last given.
That part needs a fact about the loop of `bindParams`: what it reaches and does
not skip can be bound (`ReachedIsBindable`), so the values it leaves behind when it
throws are still values that were given.

### Memory_proofs

For any connections and statements and any `InitialSize <= MaxSize`:

    THEOREM MemoryTypeCorrect    Spec => []TypeOK
    THEOREM HandlesNeverDangle   Spec => []HandlesOwned
    THEOREM BlocksAreReturned    Spec => []NothingHeld

`HandlesOwned` has two sides, that a handle names a block its library owns, and that
no two handles name the same block; the invariant adds that nothing above the size of
the memory is allocated, without which a block that `malloc` gets by growing could
be somebody's already. The argument is what `malloc` returns (`MallocFacts`: the
lowest free block, so a block nobody has), the four ways a method changes a
handle, and a lemma per method.

### Series_proofs

For integers of any width (any `MaxInt`) and any queries:

    THEOREM SeriesTypeCorrect  Spec => []TypeOK
    THEOREM EachMemberOnce     Spec => []AllMembersOnce
    THEOREM RowsKeepTheOrder   Spec => []OrderKept
    THEOREM NullIsAlmostEmpty  Spec => []NullGivesAtMostOne

The cursor of a well-behaved scan is at `First + (iRowid - 1) * Stride`, and the rows
are what it has passed. Since such a query leaves room for one step beyond its
bounds, no addition wraps. When the scan ends the cursor has just left the
bounds; so the rows are all of them, and it remains to show that counting
from the start of an ascending scan, or, for a descending one, from the last member,
which `seriesFilter` finds with a remainder, gives the members: lemmas on
`div` and `mod` that the theory of integers in the prover settles. A scan with a
NULL argument has an invariant of its own (`NInv`): it is outside its bounds at
once, or it starts on the row 1 (`Lifted`) and is outside after one step.

### Pager_proofs

For every finite set of pagers, every number of pages and every limit, whatever
the values of `Turns`, `FirstUndone`, `LateFull` and `SavepointsAlone`:

    THEOREM LocksCorrect    Spec => []LocksAgree
    THEOREM OneTransaction  Spec => []OneOwner

`OneOwner` is that at most one pager is in a write transaction. `TheOwner` in the
refinement mapping chooses one, and this theorem says there is no choice.

The inductive invariant counts: references are the open pagers that share the
store (`Users`), read and write locks the pagers that hold at least such a lock
(`Lockers`), each pager's state matches its lock (`Agrees`, with `StateOfLock`),
and a `:memory:` pager is alone. `LocksAgree` alone is not inductive, because an
unlock subtracts for the pager that gives up a lock, and which one it has follows
from its state. Most operators of `Pager` change caches, journals and pages, on
which no lock depends: a lemma per operator says how little of the rest it
changes (`Kept`, `Wrote`, `Stored`), or that the store counts what the pager gains
or gives up (`Moves`). `Moves` is transitive, so a call made of several operators is
one move, and one lemma shows that a move keeps the invariant.

**The types.** In the second part of the module, and under no further assumption:

    THEOREM PagerTypeCorrect  Spec => []TypeOK

`TypeOK` is the assertions of `assert_pager_state` (what lock a state needs, which
sizes agree in it), the bounds of journals, savepoints and counters, and that a
store is never left beyond its size limit. It is not inductive. With an original
twice in the journal, or a savepoint that lies beyond its journal, a playback
has no right page to restore; with a database larger than the store's limit,
the rollback of a transaction that only began would leave one that does not fit.
And a call goes through states of which `TypeOK` is false: a journal
that a call has lengthened and the next check has not measured, a store that
pages are being written to. The invariant therefore has three layers:

* `Typed`, the types without the bounds, which every operator of `Pager` keeps at
  any place. Under it there is a lemma per operator that says all it does
  (`AddedFacts`, `SyncFacts`, `WritePagesFacts`, `PlaybackFacts`, `EndedFacts`).
* `Sound`, what a write transaction is at every step of a call: each original
  once in the journal and none beyond the original size (`JournalOK`), only dirty pages
  writeable, savepoints that are places in the journals, in order (`MarksInside`),
  nothing dirty and nothing journalled before the first write, the counter on
  page 1 not ahead of the pager's.
* `LocalOK`, what a pager is between two calls: `Waiting`, `Reading`, `Changing`
  (`Sound`, and what the transaction found fits the store), `Finished` or `Failed`.

    DataInv == IInv /\ DataOK

says that each pager is one of these. It speaks of one pager at a time: of the
store a pager needs only the limit, which never changes, and that nobody else
writes, which is `IInv`. So a step of one pager keeps the `LocalOK` of the others
(`StepOfOne`), and the proof of an action is the path of one pager through its
operators. The longest are the commit, where every page may find the store full,
and `RollbackToSavepoint`, whose two journals are played back into a cache and, after a spill, into
the store.

### PagerStore_proofs

What the pagers and the store hold together, on top of `DataInv`, for every
number of pagers, pages, savepoints and records and every limit of the store,
whatever `SavepointsAlone` is, and under `Turns`, `~FirstUndone` and `~LateFull`:

    THEOREM JournalGoesFirst      Spec => []WriteAhead
    THEOREM CachesAreCoherent     Spec => []CacheCoherent
    THEOREM VersionTellsFreshness Spec => []UnchangedMeansFresh
    THEOREM HeadersAgree          Spec => []HeaderAgrees
    THEOREM PagerImplementsStore  Spec => ImplementsStore

The three assumptions are the conditions of the `pager` run. The runs `shared` and
`fresh` each drop one and find `CacheCoherent` and `UnchangedMeansFresh` violated;
`spill_full` drops the third, and finds a store that holds pages of a transaction
nobody committed, which `ImplementsStore` excludes.

None of the first four is inductive, and they are proved together. The inductive
invariant is

    StoreInv == DataInv /\ StoreOK      StoreOK == \E B : CommittedIs(B)

where `B`, a content for every page, is *the database last committed*. It is not
a variable of the model; it is what the store holds when nobody writes, and what the
owner of a transaction could restore when somebody does. Each pager is described
by how it stands to `B` (`HoldsOK`):

* a reader has only pages of `B` in its cache (`Reads`);
* a pager that waits has pages of `B` if the version it remembers is that of `B`,
  and no pager remembers a counter beyond that of `B`, except a version that no
  store can have (`Fresh`, `NotAhead`). So the commit that makes a new `B` with a
  larger counter leaves no old cache that could pass for a new one;
* the owner of a transaction (`Tx`) has each page of `B` in its journal, or unchanged in its
  cache and in the store; a record of the journal that is not written yet is of
  a page that waits in the cache and has not been overwritten; a clean page
  is what the store holds (`Logged`);
* after phase one (`Done`) the store holds what the cache holds, and the whole
  journal is written; in error (`Broken`) the store is `B`.

Two parts of `Tx` are about savepoints, because a rollback to one goes on with the
transaction. `Tracked`: a page that a savepoint counts as saved is recorded after its
place in one of the journals, and a record that is cut off when a savepoint is released
is recorded before it for every earlier one. `Headed`: page 1 gives the size of the image
now, in `B`, and in what each savepoint saves. "What savepoint `sp` saves of page
`n`" is `Saved`: the content in the journal after its place, else the first in
the sub-journal after its place, else what the page holds now. `Carries` says that
a step loses none of it; it is shown for every operator that writes, spills,
fetches or plays back, and is transitive, so a call is the chain of its operators.

The second half of `Pager_proofs` has the operators that go forward: making a page
writable (`Saves`, `SubSaves`), writing the store, and phase one. `PagerStore_proofs`
begins with playing back, which is described without its records (`Overlaid`,
`Underlaid`): each page gets its first record in the cache, and in the store if the
record is safe; one that is not safe is of a page the store still holds as `B` does.
Then there is one lemma per action (`OpenKeepsStore` ... `RollbackKeepsStore`) and the
first four theorems.

The refinement stands on the same invariant, and `B` is its key: the abstract `db` is
the image of `B` (`Img`), whoever owns a transaction and whatever it has spilled.
`SeenOwned` and `SeenIdle` say what the mapping of *Pager* gives: with an
owner, `Img(B)`, the owner's image (`ImageIn`) and those its savepoints go back to
(`MarksIn`); without one, `Img(B)` and nothing else. Then each action has a
lemma that it is a step of *Store* or none (`OpenRefines` ... `RollbackRefines`),
and the cases are these:

* a call that leaves `B`, the owner's image and its marks alone is a stutter:
  reading, fetching, evicting, spilling (`SteadyRefines`);
* `BeginWrite`, `OpenSavepoint`, `ReleaseSavepoint`, phase one of a commit and the
  calls that change a page (`Write`, `Allocate`) are the action of *Store* of that
  meaning. That a change keeps the marks is `Carries`; what it makes of the image is
  any image, as in *Store*;
* a rollback to a savepoint plays the main journal back from the savepoint's place and
  then the sub-journal, each page once. It leaves as image what the mark says
  (`WentBackImage`), since the first record of a page is the one that is played, and the
  later savepoints end with it. A rollback to the beginning of a transaction on an empty
  database gives it its first page again, as `BeginWrite` did (`FirstImage`);
* the end of a commit makes the owner's image `Img` of the new `B`; every other end
  of a transaction leaves `Img(B)` (`DoneRefines`, `UndoneRefines`), a failed commit,
  a rollback in error and a closed connection among them.

Before it was proved, `StoreInv` was checked by TLC on the instance of the run
`pager`.

### Text_proofs

For every string of UTF-16 units, whatever its length, for any `Tiny` (the length
from which `TextDecoder` is used) and from `TextAssumption` alone:

    THEOREM TypeCorrect              Spec => []TypeOK
    THEOREM NameComesBack            Spec => []NamesComeBack
    THEOREM NothingIsDropped         Spec => []NothingDropped
    THEOREM BindReadsWhatWasWritten  Spec => []BindReadsWritten
    THEOREM CutsAtTheEnd             Spec => []CutAtTheEnd
    THEOREM AsciiTextComesBack       Spec => []AsciiComesBack

The invariant `IInv` is small: what the library keeps is what the call wrote of
`text` (up to the terminator for a name, up to the length told for a bound text), and
the program has read nothing or what is kept. The work is in what the conversions
do, and that is by induction over the characters of a string. The induction theorems
of the library take an operator as a parameter, which the provers cannot
instantiate; but a set that contains each element whenever it contains all the
smaller ones contains everything, since a nonempty set of numbers has a least element
(`BySize`, from `WFMin` of `WellFoundedInduction`), and a set is an ordinary
parameter. The same argument gives that a function defined by recursion on something
that gets smaller exists (`RecursiveExists`), so that `Points`, `Fitting`,
`ByHand` and `Strict` are what their definitions say.

* One code point: its bytes decode to it again whatever follows them
  (`FirstOfBytes`), in both decoders, and a pair of surrogates comes back from its
  code point (`PairComesBack`).
* One string: with room for four bytes a unit `Fitting` never stops (`RoomEnough`),
  so what is written, `Coded`, goes character by character (`CodedStep`), and a
  well-formed string followed by any bytes decodes to itself and then what those
  bytes decode to (`DecodesCoded`).
* A cut: the bytes of a text begin with those of each of its well-formed starts
  (`CodedConcat`); if these are stored whole, the start comes back
  (`StartComesBack`). A character that was cut never gives more units than it had
  (`CutLength`).

`IInv` was checked by TLC first, with strings of up to three units.

### What is only model-checked

Liveness: `Terminates` of `Series` is out of the prover's reach and stays with TLC.
So does `FailureRestores`, for another reason: where `LateFull` is FALSE a pager gets into
its error state only by a spill that has written nothing, so a theorem under that
assumption would say no more than that a refused write leaves the store alone;
without the assumption the run `spill_full` refutes it.
Every other property of a passing run is a theorem. The five runs that end in a
violation are counterexamples and need no proof.

## 6. Not modelled

Not modelled in what is there:

* *Vdbe*: re-preparing after a schema change, attached databases, foreign keys,
  savepoints of virtual tables, incremental blobs. Allocations fail in SELECT,
  INSERT, DELETE, SAVEPOINT and ROLLBACK TO; one that fails inside a commit ends like a
  full store, with another code, and is not told apart from it.
* *Pager*: WAL (memdb has no shared memory); hot journals (`memdbAccess` answers
  that there is none, and the journal is in memory, so nothing survives a crash);
  super-journals (phase one as one of several databases shows as a rollback after
  it); allocation failures; read-only stores; the hints DontWrite and NOCONTENT, and
  `dbHintSize`; exclusive locking mode; changes of the page size; pages larger
  than a sector; the rest of the header that a version is recognised by; mapped
  reads (`fetch`); the branch of `pager_end_transaction` at `sqlite3.c:55048`, which a
  memdb store cannot reach.
* *Memory and Text*: the stack pointer; the addresses strings are copied to; the
  conversions of numbers in `get()`.

Components left out for good: module loading (three assignments in one
synchronous call), the shims and the wasm VFS (stateless), the compiler, planner, b-tree
pages and WAL of SQLite (vendored), the build. They are why the models cover a
small part of the vendored amalgamation.

A next step, should the vendored library be taken further, is the b-tree layer between
`Vdbe` and `Pager`, which would let the two be composed.
