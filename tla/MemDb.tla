------------------------------- MODULE MemDb --------------------------------
(***************************************************************************)
(* One database of the memdb VFS (struct MemStore): a file kept in memory, *)
(* which every connection that opens the same name shares.  A method of    *)
(* the VFS runs under the store's mutex, so it is an operator that takes   *)
(* the store m and returns what it becomes; a caller's own lock level      *)
(* (MemFile.eLock) is an argument.  The content of a page is what the      *)
(* properties tell apart: one value, and on page 1 the bytes by which a    *)
(* pager recognises a version of the file: the change counter (bytes 24 to *)
(* 27) and the number of pages (28 to 31).                                 *)
(***************************************************************************)
EXTENDS Integers, Sequences, FiniteSets, FiniteSetsExt

\* The lock levels memdbLock uses (there is no PENDING lock here).
NO_LOCK        == 0
SHARED_LOCK    == 1
RESERVED_LOCK  == 2
EXCLUSIVE_LOCK == 4

Zero == [val |-> 0, vers |-> [counter |-> 0, nPage |-> 0]]  \* a page of zeros

\* memdbOpen of a name nobody has open; limit is sqlite3Config.mxMemdbSize.
Created(limit) ==
    [pages |-> <<>>, nRdLock |-> 0, nWrLock |-> 0, nRef |-> 1, szMax |-> limit]

\* memdbOpen of a name that is already open.
Shared(m) == [m EXCEPT !.nRef = @ + 1]

\* memdbClose: the last close frees the store and its content.
Closed(m) == IF m.nRef > 1 THEN [m EXCEPT !.nRef = @ - 1]
                           ELSE [Created(m.szMax) EXCEPT !.nRef = 0]

\* memdbRead: a read past the end gives zeros (SQLITE_IOERR_SHORT_READ).
Read(m, n) == IF n \in DOMAIN m.pages THEN m.pages[n] ELSE Zero

\* memdbEnlarge: a write past szMax is SQLITE_FULL.
Fits(m, n) == n <= m.szMax

\* memdbWrite of the pages W, in any order: a gap before one reads as zeros.
Written(m, W, content) ==
    [m EXCEPT !.pages = [n \in 1..Max(W \cup {Len(@)}) |->
                            IF n \in W THEN content[n] ELSE Read(m, n)]]

\* The file made n pages long: memdbTruncate, or a write of its last page.
Resized(m, n) == [m EXCEPT !.pages = [i \in 1..n |-> Read(m, i)]]

\* memdbLock returns SQLITE_OK.  Nothing here counts the readers (nRdLock).
LockOK(m, have, want) ==
    \/ want = have
    \/ want = NO_LOCK
    \/ have > SHARED_LOCK
    \/ m.nWrLock = 0

\* Mutant: giving up the lock of a reader is not counted.
Locked_KeepsReader(m, have, want) ==
    [m EXCEPT
        !.nWrLock = CASE want > SHARED_LOCK -> 1
                      [] want <= SHARED_LOCK /\ have > SHARED_LOCK -> 0
                      [] OTHER -> @,
        !.nRdLock = CASE want = SHARED_LOCK /\ have = NO_LOCK -> @ + 1
                      [] want = NO_LOCK /\ have > SHARED_LOCK -> @ - 1
                      [] OTHER -> @]

\* memdbLock when it does: the holder of "have" now holds "want".
Locked(m, have, want) ==
    [m EXCEPT
        !.nWrLock = CASE want > SHARED_LOCK -> 1
                      [] want <= SHARED_LOCK /\ have > SHARED_LOCK -> 0
                      [] OTHER -> @,
        !.nRdLock = CASE want = SHARED_LOCK /\ have = NO_LOCK -> @ + 1
                      [] want = NO_LOCK /\ have # NO_LOCK -> @ - 1
                      [] OTHER -> @]
=============================================================================
