------------------------------- MODULE Store --------------------------------
(***************************************************************************)
(* What the pager promises its callers: a database that one connection at  *)
(* a time changes in a transaction.  The others see the committed image    *)
(* until the transaction commits, and then all of it; a rollback restores  *)
(* all of it.  Inside the transaction, savepoints restore earlier images.  *)
(* An image is the sequence of the values of the pages.                    *)
(***************************************************************************)
EXTENDS Integers, Sequences

CONSTANTS
    Clients,        \* the connections
    Images,         \* the images a database can have, <<>> among them
    Blank,          \* the image an empty one gets when a transaction begins
    None            \* no connection

VARIABLES
    db,             \* the committed image
    owner,          \* the connection whose transaction may write, or None
    work,           \* the image that connection sees
    marks           \* marks[i]: the image when savepoint i was opened

storeVars == <<db, owner, work, marks>>

Init == db \in Images /\ owner = None /\ work = <<>> /\ marks = <<>>

First == IF db = <<>> THEN Blank ELSE db

Begin ==
    /\ owner = None
    /\ owner' \in Clients /\ work' = First /\ marks' = <<>>
    /\ UNCHANGED db

Change ==
    /\ work' \in Images
    /\ UNCHANGED <<db, owner, marks>>

\* Open n savepoints, all on the image as it is.
Mark(n) ==
    /\ marks' = marks \o [i \in 1..n |-> work]
    /\ UNCHANGED <<db, owner, work>>

\* Close every savepoint after the first k.
Release(k) ==
    /\ marks' = SubSeq(marks, 1, k)
    /\ UNCHANGED <<db, owner, work>>

\* Restore the image of savepoint k, which stays open; 0 is the beginning.
BackTo(k) ==
    /\ work' = IF k = 0 THEN First ELSE marks[k]
    /\ marks' = SubSeq(marks, 1, k)
    /\ UNCHANGED <<db, owner>>

\* The commit begins: a last change, after which no savepoint is used.
Prepare ==
    /\ work' \in Images /\ marks' = <<>>
    /\ UNCHANGED <<db, owner>>

End == owner' = None /\ work' = <<>> /\ marks' = <<>>

Commit == End /\ db' = work

Rollback == End /\ UNCHANGED db

\* Nobody has the database open any more, and it was only in memory.
Vanish ==
    /\ owner = None
    /\ db' = <<>>
    /\ UNCHANGED <<owner, work, marks>>

\* What the owner of the transaction may do.
Working ==
    \/ Change \/ Prepare \/ Commit \/ Rollback
    \/ \E n \in 1..(Len(marks') - Len(marks)) : Mark(n)
    \/ \E k \in 0..Len(marks) : Release(k) \/ BackTo(k)

Next == Begin \/ Vanish \/ (owner # None /\ Working)

Spec == Init /\ [][Next]_storeVars
=============================================================================
