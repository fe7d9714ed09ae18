------------------------------- MODULE Memory -------------------------------
(***************************************************************************)
(* The linear memory that the binding in lib/ shares with the C library:   *)
(* the heap, and the typed-array views the binding makes of the memory.    *)
(* The build lets the memory grow during any C call that allocates;        *)
(* growing replaces memory.buffer, and a view made before it reads         *)
(* undefined from then on.  JavaScript runs to completion, so a method is  *)
(* one action, in which the order of "make a view", "call C" and "use the  *)
(* view" is kept.  A block is a piece of the heap with one owner; the size *)
(* of the memory is counted in blocks.                                     *)
(***************************************************************************)
EXTENDS Integers, FiniteSets

CONSTANTS
    Conns,          \* Connection objects
    Stmts,          \* Statement objects
    InitialSize,    \* blocks in the initial memory (256 pages in the code)
    MaxSize,        \* blocks at its maximum (1600 pages)
    Undefined       \* what an element of a detached view reads as

ASSUME MemoryAssumption ==
    /\ InitialSize \in Nat /\ MaxSize \in Nat /\ InitialSize <= MaxSize
    /\ Undefined \notin Int

VARIABLES
    mem,        \* the memory: its size, and who owns each block
    conns,      \* conns[c]: Connection.handle
    stmts,      \* stmts[s]: Statement.handle, and the C library's copy of
                \* the BLOB bound to its parameter
    call        \* the last method call and what came of it

vars == <<mem, conns, stmts, call>>

Blocks == 1..MaxSize
Handle == Blocks \cup {0, Undefined}

MemType == [size : InitialSize..MaxSize,
            owner : [Blocks -> {"free", "library", "binding", "nobody"}],
            damaged : BOOLEAN]      \* bytes were written at address 0

CallType == [threw : BOOLEAN, read : {"none", "right", "stale"}]
-----------------------------------------------------------------------------
(* The allocator and the views.                                            *)

Free(m) == {b \in 1..m.size : m.owner[b] = "free"}

\* Mutant: the memory is declared without a maximum.
CanGrow_Always(m) == TRUE

CanGrow(m) == m.size < MaxSize

\* malloc: a free block, else a block of new memory, else 0.  A request that is
\* larger than what is left does not fit, however small the memory still is.
malloc(m, who, fits) ==
    IF ~fits
    THEN [mem |-> m, ptr |-> 0]
    ELSE IF Free(m) # {}
    THEN LET b == CHOOSE b \in Free(m) : \A c \in Free(m) : b <= c
         IN  [mem |-> [m EXCEPT !.owner[b] = who], ptr |-> b]
    ELSE IF CanGrow(m)
    THEN [mem |-> [m EXCEPT !.size = @ + 1, !.owner[m.size + 1] = who],
          ptr |-> m.size + 1]
    ELSE [mem |-> m, ptr |-> 0]

Give(m, p, who) == IF p \in Blocks THEN [m EXCEPT !.owner[p] = who] ELSE m

free(m, p) == Give(m, p, "free")

\* A view is current as long as the memory has the size it had.
View(m) == m.size
get(view, m, word) == IF view = View(m) THEN word ELSE Undefined
Read(view, m) == IF view = View(m) THEN "right" ELSE "stale"

Quiet == [threw |-> FALSE, read |-> "none"]
Thrown == [Quiet EXCEPT !.threw = TRUE]

\* Nothing is known of a library whose own data was overwritten.
Sound == ~mem.damaged
-----------------------------------------------------------------------------
(* The methods.                                                            *)

\* new Connection: a failing sqlite3_open_v2 leaves nothing when the memory is
\* full; after any other error it leaves a connection that nobody closes, and
\* the Pointer only serves to find the message.
newConnection(m, fits, ok) ==
    LET o == malloc(m, "library", fits)
        opened == ok /\ o.ptr # 0
    IN  [mem |-> o.mem,
         handle |-> IF opened THEN get(View(m), o.mem, o.ptr) ELSE 0,
         call |-> IF opened THEN [Quiet EXCEPT !.read = Read(View(m), o.mem)]
                            ELSE Thrown]

\* sqlite3.open() without a database.
open(c) ==
    \E fits, ok \in BOOLEAN :
        LET n == newConnection(mem, fits, ok)
        IN  /\ Sound /\ conns[c] = 0
            /\ mem' = n.mem
            /\ conns' = [conns EXCEPT ![c] = n.handle]
            /\ call' = n.call
            /\ UNCHANGED stmts

\* What sqlite3_deserialize does with the buffer when it fails.
Refused(m, p) == free(m, p)

\* sqlite3.open(buffer): the connection, then a block for the buffer, which
\* sqlite3_deserialize takes over, or frees when it fails.  The block is 0 for
\* an empty buffer, which goes through, and for one that has no room, whose
\* bytes are written at address 0, unless it is larger than the memory and the
\* copy throws.  A null connection has no schema "main".
openWith(c) ==
    \E fits, ok, room \in BOOLEAN :
        LET n == newConnection(mem, fits, ok)
            a == malloc(n.mem, "binding", room)
        IN  /\ Sound /\ conns[c] = 0
            /\ UNCHANGED stmts
            /\ \/ /\ n.call.threw
                  /\ mem' = n.mem /\ call' = n.call /\ UNCHANGED conns
               \/ /\ ~n.call.threw /\ a.ptr = 0
                  /\ mem' = [a.mem EXCEPT !.damaged = TRUE]
                  /\ call' = n.call /\ UNCHANGED conns
               \/ /\ ~n.call.threw /\ n.handle # Undefined
                  /\ mem' = Give(a.mem, a.ptr, "library")
                  /\ conns' = [conns EXCEPT ![c] = n.handle]
                  /\ call' = n.call
               \/ /\ ~n.call.threw
                  /\ mem' = Refused(a.mem, a.ptr)
                  /\ call' = [n.call EXCEPT !.threw = TRUE]
                  /\ UNCHANGED conns

\* prepare(): the SQL may be wrong, or empty, which gives a null handle; the
\* connection may be null, the memory full.
prepare(c, s) ==
    /\ Sound /\ conns[c] # 0 /\ stmts[s].handle = 0
    /\ UNCHANGED conns
    /\ \/ call' = Thrown /\ UNCHANGED <<mem, stmts>>
       \/ conns[c] # Undefined /\ call' = Quiet /\ UNCHANGED <<mem, stmts>>
       \/ LET o == malloc(mem, "library", TRUE)
          IN  /\ conns[c] # Undefined /\ o.ptr # 0
              /\ mem' = o.mem
              /\ stmts' = [stmts EXCEPT ![s].handle = get(View(mem), o.mem, o.ptr)]
              /\ call' = [Quiet EXCEPT !.read = Read(View(mem), o.mem)]

\* serialize(): an empty database, a null connection and a full memory all
\* give a null pointer.  The size is read back through a Pointer; without it
\* the copy throws a RangeError.  Nobody frees what sqlite3_serialize returned.
serialize(c) ==
    LET o == malloc(mem, "nobody", TRUE)
        read == Read(View(mem), o.mem)
    IN  /\ Sound /\ conns[c] # 0
        /\ UNCHANGED <<conns, stmts>>
        /\ \/ call' = Thrown /\ UNCHANGED mem
           \/ /\ conns[c] # Undefined /\ o.ptr # 0
              /\ mem' = o.mem
              /\ call' = [Quiet EXCEPT !.read = read, !.threw = (read = "stale")]

Live(s) == stmts[s].handle \in Blocks

\* sqlite3_step: the library may need one more block for the content, and may
\* fail with or without it.
step(s) ==
    \E fits \in BOOLEAN :
        /\ Sound
        /\ mem' = IF Live(s) THEN malloc(mem, "library", fits).mem ELSE mem
        /\ call' \in {Thrown} \cup (IF Live(s) THEN {Quiet} ELSE {})
        /\ UNCHANGED <<conns, stmts>>

\* Mutants: the error is thrown before the block is freed; the view is made
\* before the allocation.
Released_Bound(m, p, ok) == IF ok THEN free(m, p) ELSE m
HeapView_Early(before, after) == View(before)

\* bind() frees the block before it throws; its view follows the allocation.
Released(m, p, ok) == free(m, p)
HeapView(before, after) == View(after)

\* bind() of an ArrayBuffer.  set() throws when the view is detached and copies
\* nothing otherwise, since an ArrayBuffer has no length.  sqlite3_bind_blob is
\* wrapped with a string where it takes the address: address 0 is passed as
\* NULL, which binds NULL, and of any other the library copies bytes of the
\* stack.  It gives up its old copy first, unless it refuses the call.
bindBlob(s) ==
    \E fits, room \in BOOLEAN :
        LET a == malloc(mem, "binding", fits)
            attached == HeapView(mem, a.mem) = View(a.mem)
            old == free(a.mem, stmts[s].blob)
            b == malloc(old, "library", room)
        IN  /\ Sound
            /\ UNCHANGED conns
            /\ \/ /\ mem' = IF attached THEN Released(a.mem, a.ptr, FALSE) ELSE a.mem
                  /\ call' = Thrown
                  /\ UNCHANGED stmts
               \/ /\ attached /\ Live(s) /\ a.ptr = 0
                  /\ mem' = Released(old, 0, TRUE)
                  /\ call' = Quiet
                  /\ stmts' = [stmts EXCEPT ![s].blob = 0]
               \/ /\ attached /\ Live(s) /\ a.ptr # 0
                  /\ mem' = Released(b.mem, a.ptr, b.ptr # 0)
                  /\ call' = [Quiet EXCEPT !.threw = (b.ptr = 0)]
                  /\ stmts' = [stmts EXCEPT ![s].blob = b.ptr]

\* get() of a BLOB: the view of it is too long for the array it is copied to.
\* Only an empty one is returned.
getBlob(s) ==
    /\ Sound /\ Live(s)
    /\ call' \in {Quiet, Thrown}
    /\ UNCHANGED <<mem, conns, stmts>>

\* get() of a text: one that the library must convert first takes a new block,
\* and ccall decodes it through the view it made before the call.
getText(s) ==
    \E fits \in BOOLEAN :
        LET o == malloc(mem, "library", fits)
        IN  /\ Sound /\ Live(s)
            /\ mem' = o.mem
            /\ call' = [Quiet EXCEPT !.read = Read(View(mem), o.mem)]
            /\ UNCHANGED <<conns, stmts>>

\* Mutant: the handle is kept.
Finalized_Kept(st) == [st EXCEPT !.blob = 0]

Finalized(st) == [handle |-> 0, blob |-> 0]

\* finalize(): the error of the last run may be thrown, the handle is 0 anyway.
finalize(s) ==
    /\ Sound
    /\ mem' = free(free(mem, stmts[s].blob), stmts[s].handle)
    /\ stmts' = [stmts EXCEPT ![s] = Finalized(@)]
    /\ call' \in {Quiet} \cup (IF Live(s) THEN {Thrown} ELSE {})
    /\ UNCHANGED conns

Init ==
    /\ mem = [size |-> InitialSize, owner |-> [b \in Blocks |-> "free"],
              damaged |-> FALSE]
    /\ conns = [c \in Conns |-> 0]
    /\ stmts = [s \in Stmts |-> [handle |-> 0, blob |-> 0]]
    /\ call = Quiet

Next ==
    \/ \E c \in Conns : open(c) \/ openWith(c) \/ serialize(c)
    \/ \E c \in Conns, s \in Stmts : prepare(c, s)
    \/ \E s \in Stmts : \/ step(s) \/ bindBlob(s) \/ getBlob(s)
                        \/ getText(s) \/ finalize(s)

Spec == Init /\ [][Next]_vars
-----------------------------------------------------------------------------
(* Properties.                                                             *)

\* The memory stays between its limits and every handle names a block of it,
\* is null, or is undefined.
TypeOK ==
    /\ mem \in MemType
    /\ conns \in [Conns -> Handle]
    /\ stmts \in [Stmts -> [handle : Handle, blob : Blocks \cup {0}]]
    /\ call \in CallType

Named == {b \in Blocks : \/ \E c \in Conns : conns[c] = b
                         \/ \E s \in Stmts : b \in {stmts[s].handle, stmts[s].blob}}

\* No two objects name the same block, and a block that is named is allocated
\* to the library: after any sequence of failing and succeeding methods there
\* is no dangling handle and no handle to somebody else's block.
HandlesOwned ==
    /\ \A c \in Conns : \A d \in Conns \ {c} :
          conns[c] \in Blocks => conns[c] # conns[d]
    /\ \A c \in Conns, s \in Stmts :
          conns[c] \in Blocks => conns[c] \notin {stmts[s].handle, stmts[s].blob}
    /\ \A s \in Stmts : \A t \in Stmts \ {s} :
          /\ Live(s) => stmts[s].handle # stmts[t].handle
          /\ stmts[s].blob # 0 => stmts[s].blob # stmts[t].blob
    /\ \A s, t \in Stmts : Live(s) => stmts[s].handle # stmts[t].blob
    /\ \A b \in Named : mem.owner[b] = "library"

\* A block the binding allocates for the length of a method is given back or
\* handed over whichever way the method ends.
NothingHeld == \A b \in Blocks : mem.owner[b] # "binding"

\* The comment over Pointer's get: "Get returns the current address stored
\* inside the pointer".
ReadsAreCurrent == call.read # "stale"
=============================================================================
