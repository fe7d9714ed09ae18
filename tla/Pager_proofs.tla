---------------------------- MODULE Pager_proofs ----------------------------
(***************************************************************************)
(* What holds of module Pager for every set of pagers and every bound: the *)
(* counters of the store are the locks and references the pagers hold, and *)
(* two pagers are never in a write transaction at once.                    *)
(*                                                                         *)
(* The argument.  Most operators of Pager change caches, journals and      *)
(* pages, which no lock depends on.  A lemma per operator says how little  *)
(* of the rest it changes (Kept, Wrote, Stored), and, for those that lock  *)
(* and unlock, that the store counts what the pager gains or gives up      *)
(* (Moves).  Moves is transitive, so a call made of several operators is a *)
(* move too, and one lemma shows that a move of one pager keeps the        *)
(* inductive invariant IInv.  Only Open and Close change what is counted.  *)
(*                                                                         *)
(* Further on: the caches and journals of a pager (DataInv), and what the  *)
(* calls that change pages keep of them and of the store, as lemmas for    *)
(* PagerStore_proofs.                                                      *)
(***************************************************************************)
EXTENDS Pager, FiniteSetTheorems, SequenceTheorems, WellFoundedInduction,
        NaturalsInduction, TLAPS

\* s has the fields the invariant speaks of.
IsPager(s) == {"eState", "eLock", "memDb"} \subseteq DOMAIN s

\* From s to t: the cache and the journals may change, nothing else.
Kept(s, t) ==
    /\ IsPager(t)
    /\ t.eLock = s.eLock /\ t.memDb = s.memDb /\ t.eState = s.eState

\* From s to t: a page is made writable, and the journal opened for it.
Wrote(s, t) ==
    /\ IsPager(t)
    /\ t.eLock = s.eLock /\ t.memDb = s.memDb
    /\ \/ t.eState = s.eState
       \/ s.eState = PAGER_WRITER_LOCKED /\ t.eState = PAGER_WRITER_CACHEMOD

\* Reading a page into the cache keeps the state and the lock.
LEMMA FetchedStep ==
    ASSUME NEW s, NEW m, NEW n, IsPager(s)
    PROVE  Kept(s, Fetched(s, m, n))
BY DEF Kept, IsPager, Fetched

\* Opening the journal only takes LOCKED to CACHEMOD.
LEMMA OpenJournalStep ==
    ASSUME NEW s, IsPager(s)
    PROVE  Wrote(s, OpenJournal(s))
BY DEF Wrote, IsPager, OpenJournal

\* Journalling a page keeps the state and the lock.
LEMMA JournalledStep ==
    ASSUME NEW s, NEW n, IsPager(s)
    PROVE  Kept(s, Journalled(s, n))
BY DEF Kept, IsPager, Journalled, AddToRollbackJournal

\* So does saving it for the savepoints.
LEMMA SubJournalledStep ==
    ASSUME NEW s, NEW n, IsPager(s)
    PROVE  Kept(s, SubJournalled(s, n))
BY DEF Kept, IsPager, SubJournalled

\* pager_write, made of these three, changes the state at most that way.
LEMMA pager_writeStep ==
    ASSUME NEW s, NEW n, IsPager(s)
    PROVE  Wrote(s, pager_write(s, n))
<1> DEFINE o == OpenJournal(s)
           dirty == [o EXCEPT !.cache[n].dirty = TRUE]
           saved == [Journalled(dirty, n) EXCEPT !.cache[n].writeable = TRUE]
           t == SubJournalled(saved, n)
<1>1. Wrote(s, o)
  BY OpenJournalStep
<1>2. Wrote(s, dirty)
  BY <1>1 DEF Wrote, IsPager
<1>3. Wrote(s, Journalled(dirty, n))
  BY <1>2, JournalledStep DEF Wrote, Kept
<1>4. Wrote(s, saved)
  BY <1>3 DEF Wrote, IsPager
<1>5. Wrote(s, t)
  BY <1>4, SubJournalledStep DEF Wrote, Kept
<1>6. Wrote(s, [t EXCEPT !.dbSize = Max({@, n})])
  BY <1>5 DEF Wrote, IsPager
<1> QED
  BY <1>6 DEF pager_write

\* So does sqlite3PagerWrite.
LEMMA PagerWriteStep ==
    ASSUME NEW s, NEW n, IsPager(s)
    PROVE  Wrote(s, PagerWrite(s, n))
BY pager_writeStep, SubJournalledStep DEF PagerWrite, Wrote, Kept

\* Counting the change keeps the state and the lock.
LEMMA ChangeCounterStep ==
    ASSUME NEW s, IsPager(s)
    PROVE  Kept(s, ChangeCounter(s))
BY DEF Kept, IsPager, ChangeCounter

\* Making page 1 part of the commit is a write of a page.
LEMMA CountedStep ==
    ASSUME NEW s, NEW m, IsPager(s)
    PROVE  Wrote(s, Counted(s, m))
<1> DEFINE f == Fetched(s, m, 1)
           w == PagerWrite(f, 1)
           c == ChangeCounter(w)
<1>1. Wrote(s, w)
  BY FetchedStep, PagerWriteStep DEF Wrote, Kept
<1>2. Wrote(s, c)
  BY <1>1, ChangeCounterStep DEF Wrote, Kept
<1>3. Wrote(s, [c EXCEPT !.changeCountDone = TRUE])
  BY <1>2 DEF Wrote, IsPager
<1>4. Wrote(s, s)
  BY DEF Wrote
<1> QED
  BY <1>3, <1>4 DEF Counted

\* So is giving an empty database its first page.
LEMMA NewDatabaseStep ==
    ASSUME NEW s, NEW m, IsPager(s)
    PROVE  Wrote(s, NewDatabase(s, m))
<1> DEFINE w == PagerWrite(Fetched(s, m, 1), 1)
           c == [val |-> 0, vers |-> [counter |-> 0, nPage |-> 1]]
<1>1. Wrote(s, w)
  BY FetchedStep, PagerWriteStep DEF Wrote, Kept
<1>2. Wrote(s, [w EXCEPT !.cache[1].c = c])
  BY <1>1 DEF Wrote, IsPager
<1>3. Wrote(s, s)
  BY DEF Wrote
<1> QED
  BY <1>2, <1>3 DEF NewDatabase

\* So is cutting the image before a commit.
LEMMA VacuumedStep ==
    ASSUME NEW s, NEW m, NEW size, IsPager(s)
    PROVE  Wrote(s, Vacuumed(s, m, size))
<1> DEFINE w == PagerWrite(Fetched(s, m, 1), 1)
<1>1. Wrote(s, w)
  BY FetchedStep, PagerWriteStep DEF Wrote, Kept
<1>2. Wrote(s, [w EXCEPT !.cache[1].c.vers.nPage = size, !.dbSize = size])
  BY <1>1 DEF Wrote, IsPager
<1>3. Wrote(s, s)
  BY DEF Wrote
<1> QED
  BY <1>2, <1>3 DEF Vacuumed
-----------------------------------------------------------------------------
\* m has the counters.
IsStore(m) == {"nRef", "nRdLock", "nWrLock"} \subseteq DOMAIN m

\* From m to k: the pages may change, the counters do not.
Stored(m, k) ==
    /\ IsStore(k)
    /\ k.nRef = m.nRef /\ k.nRdLock = m.nRdLock /\ k.nWrLock = m.nWrLock

\* Writing pages of the store leaves its counters alone.
LEMMA WrittenStep ==
    ASSUME NEW m, NEW W, NEW content, IsStore(m)
    PROVE  Stored(m, Written(m, W, content)) 
BY DEF Stored, IsStore, Written

\* So does changing its length.
LEMMA ResizedStep ==
    ASSUME NEW m, NEW n, IsStore(m)
    PROVE  Stored(m, Resized(m, n))
BY DEF Stored, IsStore, Resized

\* Writing a list of pages changes no lock, whatever fits.
LEMMA WritePagesStep ==
    ASSUME NEW s, NEW m, NEW pages, IsPager(s), IsStore(m)
    PROVE  /\ Kept(s, WritePages(s, m, pages).s)
           /\ Stored(m, WritePages(s, m, pages).m)
<1> DEFINE wanted == pages \cap 1..s.dbSize
           taken == {n \in wanted : Fits(m, n)}
           t == IF 1 \in taken THEN ChangeCounter(s) ELSE s
           u == [t EXCEPT
                   !.dbFileVers = IF 1 \in taken THEN t.cache[1].c.vers ELSE @,
                   !.dbFileSize = Max(taken \cup {@})]
           k == Written(m, taken, [n \in taken |-> t.cache[n].c])
           ok == taken = wanted
<1>1. Kept(s, t)
  BY ChangeCounterStep DEF Kept
<1>2. Kept(s, u)
  BY <1>1 DEF Kept, IsPager
<1>3. Stored(m, k)
  BY WrittenStep
<1>4. WritePages(s, m, pages) = [s |-> u, m |-> k, ok |-> ok]
  BY DEF WritePages
<1> HIDE DEF u, k, ok
<1> QED
  BY <1>2, <1>3, <1>4

\* Nor does copying records of a journal back.
LEMMA PlaybackStep ==
    ASSUME NEW s, NEW m, NEW records, IsPager(s), IsStore(m)
    PROVE  /\ Kept(s, Playback(s, m, records).s)
           /\ Stored(m, Playback(s, m, records).m)
<1> DEFINE first(n) ==
               records[Min({i \in DOMAIN records : records[i].pgno = n})]
           pages == PagesIn(records) \cap 1..s.dbSize
           stored == {n \in pages : first(n).safe /\ ~s.memDb
                                    /\ s.eState >= PAGER_WRITER_DBMOD}
           cache == [n \in DOMAIN s.cache |->
                        IF n \in pages
                        THEN [s.cache[n] EXCEPT !.c = first(n).c]
                        ELSE s.cache[n]]
           size == Max(stored \cup {s.dbFileSize})
           vers == IF 1 \in pages THEN first(1).c.vers ELSE s.dbFileVers
           u == [s EXCEPT !.cache = cache, !.dbFileSize = size,
                          !.dbFileVers = vers]
           content == [n \in stored |-> first(n).c]
           k == Written(m, stored, content)
           ok == \A n \in stored : Fits(m, n)
<1>1. Playback(s, m, records) = [s |-> u, m |-> k, ok |-> ok]
  BY DEF Playback
<1>2. Stored(m, k)
  BY WrittenStep
<1>3. Kept(s, u)
  <2> HIDE DEF cache, size, vers
  <2> QED BY DEF Kept, IsPager
<1> HIDE DEF u, k, ok
<1> QED
  BY <1>1, <1>2, <1>3
-----------------------------------------------------------------------------
\* A pager with a file holds at least this lock.
Holds(s, lock) == ~s.memDb /\ s.eLock >= lock

\* The same, as the store counts it.
Held(s, lock) == IF Holds(s, lock) THEN 1 ELSE 0

\* The lock that goes with the state of a pager.
StateOfLock(s) ==
    \/ s.eState = NOT_OPEN /\ s.eLock = NO_LOCK /\ s.memDb = FALSE
    \/ /\ s.memDb = TRUE /\ s.eLock = EXCLUSIVE_LOCK
       /\ s.eState \in PAGER_READER..PAGER_WRITER_FINISHED
       /\ s.eState # PAGER_WRITER_DBMOD
    \/ s.memDb = FALSE /\ s.eState = PAGER_OPEN /\ s.eLock = NO_LOCK
    \/ s.memDb = FALSE /\ s.eState = PAGER_READER /\ s.eLock = SHARED_LOCK
    \/ /\ s.memDb = FALSE
       /\ s.eState \in {PAGER_WRITER_LOCKED, PAGER_WRITER_CACHEMOD}
       /\ s.eLock \in {RESERVED_LOCK, EXCLUSIVE_LOCK}
    \/ /\ s.memDb = FALSE /\ s.eLock = EXCLUSIVE_LOCK
       /\ s.eState \in {PAGER_WRITER_DBMOD, PAGER_WRITER_FINISHED, PAGER_ERROR}

\* A pager and its store as they are between any two steps of a call.
Agrees(s, m) ==
    /\ IsPager(s) /\ IsStore(m) /\ StateOfLock(s)
    /\ m.nRef \in Int /\ m.nRdLock \in Int /\ m.nWrLock \in {0, 1}
    /\ Holds(s, RESERVED_LOCK) => m.nWrLock = 1

\* From s and m to t and k the store counts what the pager holds.
Moves(s, m, t, k) ==
    /\ Agrees(t, k)
    /\ t.memDb = s.memDb
    /\ t.eState = NOT_OPEN <=> s.eState = NOT_OPEN
    /\ k.nRef = m.nRef
    /\ k.nRdLock = m.nRdLock + Held(t, SHARED_LOCK) - Held(s, SHARED_LOCK)
    /\ k.nWrLock = m.nWrLock + Held(t, RESERVED_LOCK)
                             - Held(s, RESERVED_LOCK)

USE DEF NO_LOCK, SHARED_LOCK, RESERVED_LOCK, EXCLUSIVE_LOCK, NOT_OPEN,
        PAGER_OPEN, PAGER_READER, PAGER_WRITER_LOCKED, PAGER_WRITER_CACHEMOD,
        PAGER_WRITER_DBMOD, PAGER_WRITER_FINISHED, PAGER_ERROR

\* A move after a move is a move.
LEMMA MovesChain ==
    ASSUME NEW s, NEW m, NEW t, NEW k, NEW u, NEW l,
           Agrees(s, m), Moves(s, m, t, k), Moves(t, k, u, l)
    PROVE  Moves(s, m, u, l)
BY DEF Moves, Agrees, Held

\* Making a page writable is a move that leaves the store alone.
LEMMA WroteMoves ==
    ASSUME NEW s, NEW m, NEW t, Agrees(s, m), Wrote(s, t)
    PROVE  Moves(s, m, t, m)
BY DEF Moves, Agrees, Wrote, StateOfLock, Holds, Held

\* So is any change of the cache and of the pages of the store.
LEMMA KeptMoves ==
    ASSUME NEW s, NEW m, NEW t, NEW k, Agrees(s, m), Kept(s, t), Stored(m, k)
    PROVE  Moves(s, m, t, k)
BY DEF Moves, Agrees, Kept, Stored, StateOfLock, Holds, Held

\* What memdbLock does to each of the counters.
LEMMA LockedStep ==
    ASSUME NEW m, NEW have, NEW want, IsStore(m)
    PROVE  LET k == Locked(m, have, want)
           IN  /\ IsStore(k) /\ k.nRef = m.nRef
               /\ k.nWrLock = CASE want > SHARED_LOCK -> 1
                      [] want <= SHARED_LOCK /\ have > SHARED_LOCK -> 0
                      [] OTHER -> m.nWrLock
               /\ k.nRdLock = CASE want = SHARED_LOCK /\ have = NO_LOCK
                               -> m.nRdLock + 1
                      [] want = NO_LOCK /\ have # NO_LOCK -> m.nRdLock - 1
                      [] OTHER -> m.nRdLock
BY DEF IsStore, Locked

\* A pager that writes the store asks for the exclusive lock.
LEMMA syncJournalStep ==
    ASSUME NEW s, NEW m, Agrees(s, m), ~s.memDb,
           s.eState \in PAGER_WRITER_LOCKED..PAGER_ERROR
    PROVE  Moves(s, m, syncJournal(s, m).s, syncJournal(s, m).m)
<1> DEFINE len == Len(s.journal)
           cache == ClearSyncFlags(s.cache)
           t == [s EXCEPT !.eState = PAGER_WRITER_DBMOD,
                     !.eLock = EXCLUSIVE_LOCK,
                     !.journalHdr = len,
                     !.cache = cache]
           k == Locked(m, s.eLock, EXCLUSIVE_LOCK)
<1>1. syncJournal(s, m) = [s |-> t, m |-> k]
  BY DEF syncJournal
<1>2. /\ IsPager(t) /\ t.eState = PAGER_WRITER_DBMOD
      /\ t.eLock = EXCLUSIVE_LOCK /\ t.memDb = s.memDb
  <2> HIDE DEF len, cache
  <2> QED BY DEF Agrees, IsPager
<1>3. /\ IsStore(k) /\ k.nRef = m.nRef /\ k.nRdLock = m.nRdLock
      /\ k.nWrLock = 1
  BY LockedStep DEF Agrees, StateOfLock
<1> HIDE DEF t, k
<1> QED
  BY <1>1, <1>2, <1>3 DEF Moves, Agrees, StateOfLock, Holds, Held

\* The end of a transaction leaves a reader.
LEMMA EndedStep ==
    ASSUME NEW s, NEW m, NEW bCommit, Agrees(s, m),
           s.eState \in PAGER_WRITER_LOCKED..PAGER_ERROR
    PROVE  LET r == Ended(s, m, bCommit) IN Moves(s, m, r.s, r.m)
<1> DEFINE cache == PcacheTruncate(CleanAll(s.cache), s.dbSize)
           reader == [s EXCEPT
            !.eState = PAGER_READER,
            !.cache = cache,
            !.journal = <<>>, !.journalHdr = 0, !.sub = <<>>,
            !.aSavepoint = <<>>, !.dbOrigSize = 0, !.dbFileSize = 0]
           cut == bCommit /\ s.eState >= PAGER_WRITER_DBMOD
                          /\ s.dbFileSize > s.dbSize
           file == IF cut THEN Resized(m, s.dbSize) ELSE m
           t == [reader EXCEPT !.eLock = SHARED_LOCK, !.changeCountDone = FALSE]
           k == Locked(file, s.eLock, SHARED_LOCK)
<1>1. Ended(s, m, bCommit)
        = IF s.memDb THEN [s |-> reader, m |-> m] ELSE [s |-> t, m |-> k]
  BY DEF Ended
<1>2. /\ IsPager(reader) /\ reader.eState = PAGER_READER
      /\ reader.eLock = s.eLock /\ reader.memDb = s.memDb
  <2> HIDE DEF cache
  <2> QED BY DEF Agrees, IsPager
<1>3. /\ IsPager(t) /\ t.eState = PAGER_READER
      /\ t.eLock = SHARED_LOCK /\ t.memDb = s.memDb
  <2> HIDE DEF reader
  <2> QED BY <1>2 DEF IsPager
<1>4. Stored(m, file)
  BY ResizedStep DEF Stored, Agrees
<1>5. CASE s.memDb
  <2>1. s.memDb = TRUE /\ s.eLock = EXCLUSIVE_LOCK
    BY <1>5 DEF Agrees, StateOfLock
  <2> HIDE DEF reader, t, k
  <2>2. Agrees(reader, m)
    BY <1>2, <2>1 DEF Agrees, StateOfLock, Holds
  <2> QED BY <1>1, <1>2, <2>1, <2>2 DEF Moves, Agrees, Holds, Held
<1>6. CASE ~s.memDb
  <2>1. s.eLock > SHARED_LOCK
    BY <1>6 DEF Agrees, StateOfLock
  <2>2. /\ IsStore(k) /\ k.nRef = m.nRef /\ k.nRdLock = m.nRdLock
        /\ k.nWrLock = 0
    <3> HIDE DEF file
    <3> QED BY <1>4, <2>1, LockedStep DEF Stored
  <2> HIDE DEF reader, t, k
  <2> QED BY <1>1, <1>3, <1>6, <2>1, <2>2
          DEF Moves, Agrees, StateOfLock, Holds, Held
<1> QED
  BY <1>5, <1>6

\* So does a rollback, whatever the journal held.
LEMMA RolledBackStep ==
    ASSUME NEW s, NEW m, Agrees(s, m),
           s.eState \in PAGER_WRITER_LOCKED..PAGER_ERROR
    PROVE  Moves(s, m, RolledBack(s, m).s, RolledBack(s, m).m)
<1> DEFINE onFile == ~s.memDb /\ s.eState >= PAGER_WRITER_DBMOD
           size == IF onFile THEN s.dbOrigSize ELSE s.dbFileSize
           cut == [s EXCEPT !.dbSize = s.dbOrigSize,
                            !.changeCountDone = s.memDb,
                            !.dbFileSize = size]
           file == IF onFile THEN Resized(m, s.dbOrigSize) ELSE m
           played == Playback(cut, file, JournalFrom(cut, 0))
           back == Ended(played.s, played.m, FALSE)
<1>1. RolledBack(s, m)
        = IF s.eState = PAGER_WRITER_LOCKED THEN Ended(s, m, FALSE) ELSE back
  BY DEF RolledBack
<1>2. Kept(s, cut)
  <2> HIDE DEF size
  <2> QED BY DEF Kept, Agrees, IsPager
<1>3. Stored(m, file)
  BY ResizedStep DEF Stored, Agrees
<1>4. Kept(s, played.s) /\ Stored(m, played.m)
  <2> HIDE DEF cut, file
  <2>1. IsPager(cut) /\ IsStore(file)
    BY <1>2, <1>3 DEF Kept, Stored
  <2> QED BY <1>2, <1>3, <2>1, PlaybackStep DEF Kept, Stored
<1>5. Moves(s, m, played.s, played.m)
  <2> HIDE DEF played
  <2> QED BY <1>4, KeptMoves
<1>6. Moves(s, m, back.s, back.m)
  <2> HIDE DEF played
  <2>1. Agrees(played.s, played.m)
          /\ played.s.eState \in PAGER_WRITER_LOCKED..PAGER_ERROR
    BY <1>4, <1>5 DEF Moves, Kept
  <2>2. Moves(played.s, played.m, back.s, back.m)
    BY <2>1, EndedStep
  <2> HIDE DEF back
  <2> QED BY <1>5, <2>2, MovesChain
<1> HIDE DEF back
<1> QED
  BY <1>1, <1>6, EndedStep

\* Phase one of a commit: the transaction is still the pager's.
LEMMA PhaseOneStep ==
    ASSUME NEW s, NEW m, Agrees(s, m), ~s.memDb,
           s.eState \in PAGER_WRITER_LOCKED..PAGER_WRITER_DBMOD
    PROVE  /\ Moves(s, m, PhaseOne(s, m).s, PhaseOne(s, m).m)
           /\ PhaseOne(s, m).s.eState = PAGER_WRITER_FINISHED
<1> DEFINE counted == Counted(s, m)
           synced == syncJournal(counted, m)
           wrote == WritePages(synced.s, synced.m, Dirty(synced.s))
           grows == wrote.s.dbSize > wrote.s.dbFileSize
           cache == CleanAll(wrote.s.cache)
           size == Max({wrote.s.dbFileSize, wrote.s.dbSize})
           t == [wrote.s EXCEPT !.eState = PAGER_WRITER_FINISHED,
                     !.cache = cache, !.dbFileSize = size]
           k == IF grows THEN Resized(wrote.m, wrote.s.dbSize) ELSE wrote.m
           ok == wrote.ok /\ (grows => Fits(wrote.m, wrote.s.dbSize))
<1>1. PhaseOne(s, m) = [s |-> t, m |-> k, ok |-> ok]
  BY DEF PhaseOne
<1>2. /\ Moves(s, m, counted, m) /\ counted.memDb = s.memDb
      /\ counted.eState \in PAGER_WRITER_LOCKED..PAGER_WRITER_DBMOD
  <2>1. Wrote(s, counted)
    BY CountedStep DEF Agrees
  <2> HIDE DEF counted
  <2> QED BY <2>1, WroteMoves DEF Wrote
<1>3. /\ Moves(s, m, synced.s, synced.m)
      /\ synced.s.eLock = EXCLUSIVE_LOCK /\ synced.s.memDb = FALSE
  <2> HIDE DEF counted
  <2>1. Moves(counted, m, synced.s, synced.m)
    BY <1>2, syncJournalStep DEF Moves
  <2>2. synced.s.eLock = EXCLUSIVE_LOCK
    BY <1>2 DEF syncJournal, Moves, Agrees, IsPager
  <2>3. synced.s.memDb = FALSE
    BY <1>2, <2>1 DEF Moves, Agrees, StateOfLock
  <2> HIDE DEF synced
  <2> QED BY <1>2, <2>1, <2>2, <2>3, MovesChain
<1>4. Kept(synced.s, wrote.s) /\ Stored(synced.m, wrote.m)
  <2> HIDE DEF synced
  <2> QED BY <1>3, WritePagesStep DEF Moves, Agrees
<1>5. Stored(synced.m, k)
  <2> HIDE DEF wrote
  <2> QED BY <1>4, ResizedStep DEF Stored
<1>6. /\ IsPager(t) /\ t.eState = PAGER_WRITER_FINISHED
      /\ t.eLock = EXCLUSIVE_LOCK /\ t.memDb = FALSE
  <2> HIDE DEF synced, wrote, cache, size
  <2> QED BY <1>3, <1>4 DEF Kept, IsPager
<1>7. Moves(synced.s, synced.m, t, k)
  <2> HIDE DEF synced, t, k
  <2>1. Agrees(t, k)
    BY <1>3, <1>5, <1>6 DEF Moves, Agrees, Stored, StateOfLock, Holds
  <2>2. synced.s.eState # NOT_OPEN
    BY <1>3 DEF Moves, Agrees, StateOfLock
  <2>3. /\ Held(t, SHARED_LOCK) = Held(synced.s, SHARED_LOCK)
        /\ Held(t, RESERVED_LOCK) = Held(synced.s, RESERVED_LOCK)
        /\ {Held(t, SHARED_LOCK), Held(t, RESERVED_LOCK)} \subseteq {0, 1}
    BY <1>3, <1>6 DEF Holds, Held
  <2>4. Agrees(synced.s, synced.m)
    BY <1>3 DEF Moves
  <2>5. synced.m.nRdLock \in Int /\ synced.m.nWrLock \in Int
    BY <2>4 DEF Agrees
  <2>6. k.nRdLock = synced.m.nRdLock + Held(t, SHARED_LOCK)
                                     - Held(synced.s, SHARED_LOCK)
    BY <1>5, <2>3, <2>5 DEF Stored
  <2>7. k.nWrLock = synced.m.nWrLock + Held(t, RESERVED_LOCK)
                                     - Held(synced.s, RESERVED_LOCK)
    BY <1>5, <2>3, <2>5 DEF Stored
  <2>8. k.nRef = synced.m.nRef /\ t.memDb = synced.s.memDb
    BY <1>3, <1>5, <1>6 DEF Stored
  <2>9. t.eState # NOT_OPEN
    BY <1>6
  <2> QED BY <2>1, <2>2, <2>6, <2>7, <2>8, <2>9 DEF Moves
<1> HIDE DEF synced, t, k, ok
<1> QED
  BY <1>1, <1>3, <1>6, <1>7, MovesChain

\* Giving up the lock.
LEMMA UnlockedStep ==
    ASSUME NEW s, NEW m, Agrees(s, m), ~s.memDb,
           s.eState \in {PAGER_READER, PAGER_ERROR}
    PROVE  Moves(s, m, Unlocked(s, m).s, Unlocked(s, m).m)
<1> DEFINE cache == IF s.eState = PAGER_ERROR THEN <<>> ELSE s.cache
           t == [s EXCEPT !.eState = PAGER_OPEN, !.eLock = NO_LOCK,
                     !.changeCountDone = FALSE,
                     !.cache = cache,
                     !.dbSize = 0, !.dbOrigSize = 0, !.dbFileSize = 0,
                     !.journal = <<>>, !.journalHdr = 0,
                     !.sub = <<>>, !.aSavepoint = <<>>]
           k == Locked(m, s.eLock, NO_LOCK)
<1>1. Unlocked(s, m) = [s |-> t, m |-> k]
  BY DEF Unlocked
<1>2. /\ IsPager(t) /\ t.eState = PAGER_OPEN
      /\ t.eLock = NO_LOCK /\ t.memDb = s.memDb
  <2> HIDE DEF cache
  <2> QED BY DEF Agrees, IsPager
<1>3. /\ IsStore(k) /\ k.nRef = m.nRef /\ k.nRdLock = m.nRdLock - 1
      /\ k.nWrLock = IF s.eLock > SHARED_LOCK THEN 0 ELSE m.nWrLock
  BY LockedStep DEF Agrees, StateOfLock
<1> HIDE DEF t, k
<1> QED
  BY <1>1, <1>2, <1>3 DEF Moves, Agrees, StateOfLock, Holds, Held
-----------------------------------------------------------------------------
\* The pagers that have opened the store.
Users == {p \in Pagers : ~pager[p].memDb /\ pager[p].eState # NOT_OPEN}

\* The pagers that hold at least this lock.
Lockers(lock) == {p \in Pagers : Holds(pager[p], lock)}

\* A ":memory:" pager is the only one.
MemDbAlone ==
    \A p, q \in Pagers :
        pager[p].memDb /\ q # p => pager[q].eState = NOT_OPEN

\* At most one pager may write.
OneWriter ==
    \A p, q \in Lockers(RESERVED_LOCK) : p = q

\* The inductive invariant.  LocksAgree alone is not: a step needs the lock of
\* a pager in each state (StateOfLock), and that a pager which may write keeps
\* the others from the store (Agrees, OneWriter, MemDbAlone).
IInv ==
    /\ pager = [p \in Pagers |-> pager[p]]
    /\ IsStore(store)
    /\ store.nRef \in Int /\ store.nRdLock \in Int /\ store.nWrLock \in {0, 1}
    /\ \A p \in Pagers : Agrees(pager[p], store)
    /\ store.nRef = Cardinality(Users)
    /\ store.nRdLock = Cardinality(Lockers(SHARED_LOCK))
    /\ store.nWrLock = Cardinality(Lockers(RESERVED_LOCK))
    /\ MemDbAlone /\ OneWriter

\* Two sets that differ at most in p differ in size by what p counts.
LEMMA Recounted ==
    ASSUME NEW A, NEW B, NEW p \in Pagers,
           A \subseteq Pagers, B \subseteq Pagers, A \ {p} = B \ {p}
    PROVE  /\ Cardinality(A) \in Nat
           /\ Cardinality(B) = Cardinality(A) + (IF p \in B THEN 1 ELSE 0)
                                              - (IF p \in A THEN 1 ELSE 0)
<1>1. IsFiniteSet(A) /\ IsFiniteSet(B)
  BY PagerAssumption, FS_Subset
<1>2. Cardinality(A) \in Nat /\ Cardinality(B) \in Nat
  BY <1>1, FS_CardinalityType
<1>3. /\ Cardinality(A \ {p})
            = IF p \in A THEN Cardinality(A) - 1 ELSE Cardinality(A)
      /\ Cardinality(B \ {p})
            = IF p \in B THEN Cardinality(B) - 1 ELSE Cardinality(B)
  BY <1>1, FS_RemoveElement
<1> QED
  BY <1>2, <1>3

\* A move of one pager keeps the invariant.
LEMMA MoveKeepsIInv ==
    ASSUME NEW p \in Pagers, NEW t, NEW k, IInv,
           Moves(pager[p], store, t, k),
           pager' = [pager EXCEPT ![p] = t], store' = k
    PROVE  IInv'
<1> DEFINE s == pager[p]
<1>1. /\ pager' = [q \in Pagers |-> pager'[q]]
      /\ pager'[p] = t
      /\ \A q \in Pagers \ {p} : pager'[q] = pager[q]
  BY DEF IInv
<1>2. Agrees(s, store) /\ Agrees(t, k)
  BY DEF IInv, Moves
<1>3. \A q \in Pagers \ {p} : Holds(pager[q], RESERVED_LOCK) =>
          ~Holds(s, RESERVED_LOCK) /\ ~Holds(t, RESERVED_LOCK) /\ k.nWrLock = 1
  <2> SUFFICES ASSUME NEW q \in Pagers \ {p}, Holds(pager[q], RESERVED_LOCK)
               PROVE  /\ ~Holds(s, RESERVED_LOCK) /\ ~Holds(t, RESERVED_LOCK)
                      /\ k.nWrLock = 1
    OBVIOUS
  <2>1. ~Holds(s, RESERVED_LOCK)
    BY DEF IInv, OneWriter, Lockers
  <2>2. store.nWrLock = 1
    BY DEF IInv, Agrees
  <2>3. k.nWrLock = 1 + Held(t, RESERVED_LOCK) /\ k.nWrLock \in {0, 1}
    BY <2>1, <2>2, <1>2 DEF Moves, Held, Agrees
  <2> QED
    BY <2>1, <2>3 DEF Held
<1>4. \A q \in Pagers : Agrees(pager[q], store)'
  <2> SUFFICES ASSUME NEW q \in Pagers PROVE Agrees(pager'[q], k)
    OBVIOUS
  <2>1. CASE q = p
    BY <2>1, <1>1, <1>2
  <2>2. CASE q # p
    <3>1. Agrees(pager[q], store) /\ pager'[q] = pager[q]
      BY <2>2, <1>1 DEF IInv
    <3> QED
      BY <3>1, <2>2, <1>2, <1>3 DEF Agrees
  <2> QED
    BY <2>1, <2>2
<1>5. OneWriter'
  <2>1. ~Holds(s, RESERVED_LOCK) /\ Holds(t, RESERVED_LOCK) => store.nWrLock = 0
    BY <1>2 DEF Moves, Agrees, Held
  <2>2. \A q \in Pagers : Holds(pager[q], RESERVED_LOCK) => store.nWrLock = 1
    BY DEF IInv, Agrees
  <2> QED
    BY <1>1, <1>3, <2>1, <2>2 DEF IInv, OneWriter, Lockers
<1>6. MemDbAlone'
  <2>1. t.memDb = s.memDb /\ (t.eState = NOT_OPEN <=> s.eState = NOT_OPEN)
    BY DEF Moves
  <2> QED
    BY <1>1, <2>1 DEF IInv, MemDbAlone
<1>7. store'.nRef = Cardinality(Users')
  <2>1. Users' = Users
    BY <1>1 DEF Users, Moves
  <2> QED
    BY <2>1 DEF IInv, Moves
<1>8. \A lock \in {SHARED_LOCK, RESERVED_LOCK} :
        Cardinality(Lockers(lock)') = Cardinality(Lockers(lock))
                                      + Held(t, lock) - Held(s, lock)
  <2> SUFFICES ASSUME NEW lock \in {SHARED_LOCK, RESERVED_LOCK}
               PROVE  Cardinality(Lockers(lock)') = Cardinality(Lockers(lock))
                                      + Held(t, lock) - Held(s, lock)
    OBVIOUS
  <2>1. /\ Lockers(lock) \subseteq Pagers /\ Lockers(lock)' \subseteq Pagers
        /\ Lockers(lock) \ {p} = Lockers(lock)' \ {p}
        /\ p \in Lockers(lock) <=> Holds(s, lock)
        /\ p \in Lockers(lock)' <=> Holds(t, lock)
    BY <1>1 DEF Lockers
  <2> QED
    BY <2>1, Recounted DEF Held
<1>9. /\ store'.nRdLock = Cardinality(Lockers(SHARED_LOCK)')
      /\ store'.nWrLock = Cardinality(Lockers(RESERVED_LOCK)')
  BY <1>8 DEF IInv, Moves
<1> QED
  BY <1>1, <1>2, <1>4, <1>5, <1>6, <1>7, <1>9 DEF IInv, Agrees
-----------------------------------------------------------------------------
\* Opening a pager counts one user more, or makes an empty store.
LEMMA OpenKeepsIInv ==
    ASSUME NEW p \in Pagers, NEW memDb \in BOOLEAN, IInv, Open(p, memDb)
    PROVE  IInv'
<1> DEFINE t == OpenedPager(memDb)
<1>1. /\ pager' = [q \in Pagers |-> pager'[q]]
      /\ pager'[p] = t
      /\ \A q \in Pagers \ {p} : pager'[q] = pager[q]
  BY DEF IInv, Open
<1>2. /\ IsPager(t) /\ t.memDb = memDb
      /\ t.eState = IF memDb THEN PAGER_READER ELSE PAGER_OPEN
      /\ t.eLock = IF memDb THEN EXCLUSIVE_LOCK ELSE NO_LOCK
  BY DEF OpenedPager, NotOpen, IsPager
<1>3. pager[p].eState = NOT_OPEN /\ pager[p].memDb = FALSE
      /\ pager[p].eLock = NO_LOCK
  BY DEF Open, IInv, Agrees, StateOfLock
<1>4. \A q \in Pagers : IF memDb THEN pager[q].eState = NOT_OPEN
                                 ELSE ~pager[q].memDb
  BY DEF Open
<1>5. /\ IsStore(store')
      /\ store'.nRef = IF memDb THEN store.nRef ELSE store.nRef + 1
      /\ store'.nRdLock = store.nRdLock /\ store'.nWrLock = store.nWrLock
  <2>1. CASE memDb \/ store.nRef # 0
    BY <2>1 DEF Open, Shared, IInv, IsStore
  <2>2. CASE ~memDb /\ store.nRef = 0
    <3>1. store' = Created(store.szMax)
      BY <2>2 DEF Open
    <3>2. Cardinality(Users) = 0
      BY <2>2 DEF IInv
    <3>3. Users = {}
      <4>1. IsFiniteSet(Users)
        BY PagerAssumption, FS_Subset DEF Users
      <4> QED BY <3>2, <4>1, FS_EmptySet
    <3>4. \A lock \in {SHARED_LOCK, RESERVED_LOCK} : Lockers(lock) = {}
      <4>1. \A q \in Pagers : pager[q].memDb \/ pager[q].eState = NOT_OPEN
        BY <3>3 DEF Users
      <4>2. ASSUME NEW q \in Pagers, pager[q].eState = NOT_OPEN
            PROVE  pager[q].eLock = NO_LOCK
        <5>1. StateOfLock(pager[q])
          BY DEF IInv, Agrees
        <5> QED
          BY <4>2, <5>1 DEF StateOfLock
      <4> QED
        BY <4>1, <4>2 DEF Lockers, Holds
    <3>5. store.nRdLock = 0 /\ store.nWrLock = 0
      BY <3>4, FS_EmptySet DEF IInv
    <3> QED
      BY <3>1, <3>5, <2>2 DEF Created, IsStore
  <2> QED
    BY <2>1, <2>2
<1>6. \A lock \in {SHARED_LOCK, RESERVED_LOCK} : Lockers(lock)' = Lockers(lock)
  BY <1>1, <1>2, <1>3 DEF Lockers, Holds
<1>7. Users' = IF memDb THEN Users ELSE Users \cup {p}
  BY <1>1, <1>2, <1>3 DEF Users
<1>8. store'.nRef = Cardinality(Users')
  <2>1. p \notin Users /\ Users \subseteq Pagers
    BY <1>3 DEF Users
  <2>2. ~memDb => Cardinality(Users') = Cardinality(Users) + 1
    <3>1. IsFiniteSet(Users)
      BY <2>1, PagerAssumption, FS_Subset
    <3> QED BY <3>1, <2>1, <1>7, FS_AddElement
  <2> QED
    BY <1>5, <1>7, <2>2 DEF IInv
<1>9. \A q \in Pagers : Agrees(pager[q], store)'
  BY <1>1, <1>2, <1>5 DEF IInv, Agrees, StateOfLock, Holds
<1>10. MemDbAlone'
  <2>1. \A q \in Pagers : pager[q].eState = NOT_OPEN => ~pager[q].memDb
    BY DEF IInv, Agrees, StateOfLock
  <2> QED
    BY <1>1, <1>2, <1>4, <2>1 DEF MemDbAlone
<1> QED
  BY <1>1, <1>5, <1>6, <1>8, <1>9, <1>10 DEF IInv, OneWriter

\* Closing one counts one user less; the last frees a store nobody has locked.
LEMMA CloseKeepsIInv ==
    ASSUME NEW p \in Pagers, IInv, Close(p)
    PROVE  IInv'
<1> DEFINE s == pager[p]
<1>1. /\ pager' = [q \in Pagers |-> pager'[q]]
      /\ pager'[p] = NotOpen
      /\ \A q \in Pagers \ {p} : pager'[q] = pager[q]
  BY DEF IInv, Close
<1>2. /\ IsPager(NotOpen) /\ NotOpen.memDb = FALSE
      /\ NotOpen.eState = NOT_OPEN /\ NotOpen.eLock = NO_LOCK
  BY DEF NotOpen, IsPager
<1>3. s.eState # NOT_OPEN /\ (s.memDb = TRUE \/ s.eLock = NO_LOCK)
      /\ s.memDb \in BOOLEAN
  <2>1. StateOfLock(s)
    BY DEF IInv, Agrees
  <2>2. s.memDb \in BOOLEAN
    BY <2>1 DEF StateOfLock
  <2>3. s.eState = IF s.memDb THEN PAGER_READER ELSE PAGER_OPEN
    BY DEF Close
  <2> QED
    BY <2>1, <2>2, <2>3 DEF StateOfLock
<1>4. \A lock \in {SHARED_LOCK, RESERVED_LOCK} : Lockers(lock)' = Lockers(lock)
  BY <1>1, <1>2, <1>3 DEF Lockers, Holds
<1>5. /\ Users \subseteq Pagers /\ Users' = Users \ {p}
      /\ p \in Users <=> ~s.memDb
  BY <1>1, <1>2, <1>3 DEF Users
<1>6. IsFiniteSet(Users)
  BY <1>5, PagerAssumption, FS_Subset
<1>7. Cardinality(Users') = IF s.memDb THEN store.nRef ELSE store.nRef - 1
  BY <1>5, <1>6, FS_RemoveElement DEF IInv
<1>8. /\ IsStore(store')
      /\ store'.nRef = IF s.memDb THEN store.nRef ELSE store.nRef - 1
      /\ store'.nRdLock = store.nRdLock /\ store'.nWrLock = store.nWrLock
  <2>1. CASE s.memDb
    BY <2>1 DEF Close, IInv
  <2>2. CASE ~s.memDb /\ store.nRef > 1
    BY <2>2 DEF Close, Closed, IInv, IsStore
  <2>3. CASE ~s.memDb /\ ~(store.nRef > 1)
    <3>1. store' = [Created(store.szMax) EXCEPT !.nRef = 0]
      BY <2>3 DEF Close, Closed
    <3>2. Cardinality(Users') = 0 /\ store.nRef = 1
      <4>1. Cardinality(Users') \in Nat
        BY <1>5, <1>6, FS_RemoveElement, FS_CardinalityType
      <4> QED BY <4>1, <1>7, <2>3 DEF IInv
    <3>3. Users' = {}
      BY <3>2, <1>5, <1>6, FS_RemoveElement, FS_EmptySet
    <3>4. \A lock \in {SHARED_LOCK, RESERVED_LOCK} : Lockers(lock) = {}
      <4>1. \A q \in Pagers : q # p => q \notin Users
        BY <3>3, <1>5
      <4>2. \A q \in Pagers : pager[q].memDb \/ pager[q].eLock = NO_LOCK
        BY <4>1, <1>3 DEF Users, IInv, Agrees, StateOfLock
      <4> QED
        BY <4>2 DEF Lockers, Holds
    <3>5. store.nRdLock = 0 /\ store.nWrLock = 0
      BY <3>4, FS_EmptySet DEF IInv
    <3> QED
      BY <3>1, <3>2, <3>5, <2>3 DEF Created, IsStore
  <2> QED
    BY <2>1, <2>2, <2>3 DEF IInv
<1>9. \A q \in Pagers : Agrees(pager[q], store)'
  BY <1>1, <1>2, <1>8 DEF IInv, Agrees, StateOfLock, Holds
<1>10. MemDbAlone'
  BY <1>1, <1>2 DEF IInv, MemDbAlone
<1> QED
  BY <1>1, <1>4, <1>7, <1>8, <1>9, <1>10 DEF IInv, OneWriter
-----------------------------------------------------------------------------
\* Kept is a case of Wrote.
LEMMA KeptWrote ==
    ASSUME NEW s, NEW t, Kept(s, t)
    PROVE  Wrote(s, t)
BY DEF Kept, Wrote

\* Wrote is transitive.
LEMMA WroteChain ==
    ASSUME NEW s, NEW t, NEW u, Wrote(s, t), Wrote(t, u)
    PROVE  Wrote(s, u)
BY DEF Wrote

\* A call that is a move keeps the invariant.
LEMMA UpdateKeepsIInv ==
    ASSUME NEW p \in Pagers, NEW r, IInv, Moves(pager[p], store, r.s, r.m),
           Update(p, r)
    PROVE  IInv'
BY MoveKeepsIInv DEF Update

\* So does one that changes the pager only, in the way of Wrote.
LEMMA BecomesKeepsIInv ==
    ASSUME NEW p \in Pagers, NEW t, IInv, Wrote(pager[p], t), Becomes(p, t)
    PROVE  IInv'
<1>1. Moves(pager[p], store, t, store)
  BY WroteMoves DEF IInv
<1> QED
  BY <1>1, MoveKeepsIInv DEF Becomes

\* BeginRead takes the shared lock, and the store counts it.
LEMMA BeginReadKeepsIInv ==
    ASSUME NEW p \in Pagers, IInv, BeginRead(p)
    PROVE  IInv'
<1> DEFINE s == pager[p]
           stale == s.hasHeldSharedLock /\ s.dbFileVers # Read(store, 1).vers
           size == Len(store.pages)
           cache == IF stale THEN <<>> ELSE s.cache
           reader == [s EXCEPT
              !.eState = PAGER_READER, !.eLock = SHARED_LOCK,
              !.hasHeldSharedLock = TRUE, !.dbSize = size, !.cache = cache]
           t == Fetched(reader, store, 1)
           k == Locked(store, NO_LOCK, SHARED_LOCK)
<1>1. pager' = [pager EXCEPT ![p] = t] /\ store' = k
  BY DEF BeginRead
<1>2. s.eState = PAGER_OPEN /\ Agrees(s, store)
  BY DEF BeginRead, IInv
<1>3. s.memDb = FALSE /\ s.eLock = NO_LOCK /\ store.nWrLock = 0
  <2>1. LockOK(store, NO_LOCK, SHARED_LOCK)
    BY DEF BeginRead
  <2> QED
    BY <1>2, <2>1 DEF Agrees, StateOfLock, LockOK
<1>4. /\ IsPager(reader) /\ reader.eState = PAGER_READER
      /\ reader.eLock = SHARED_LOCK /\ reader.memDb = s.memDb
  <2> HIDE DEF cache, size
  <2> QED BY <1>2, <1>3 DEF Agrees, IsPager
<1>5. /\ IsPager(t) /\ t.eState = PAGER_READER
      /\ t.eLock = SHARED_LOCK /\ t.memDb = s.memDb
  <2> HIDE DEF reader
  <2> QED BY <1>4, FetchedStep DEF Kept
<1>6. /\ IsStore(k) /\ k.nRef = store.nRef /\ k.nWrLock = 0
      /\ k.nRdLock = store.nRdLock + 1
  BY <1>2, <1>3, LockedStep DEF Agrees
<1> HIDE DEF t, k
<1>7. Moves(s, store, t, k)
  <2>1. store.nRef \in Int /\ store.nRdLock \in Int
    BY <1>2 DEF Agrees
  <2>2. ~Holds(t, RESERVED_LOCK) /\ StateOfLock(t)
    BY <1>3, <1>5 DEF Holds, StateOfLock
  <2>3. Agrees(t, k)
    BY <1>5, <1>6, <2>1, <2>2 DEF Agrees
  <2>4. /\ Held(t, SHARED_LOCK) = 1 /\ Held(t, RESERVED_LOCK) = 0
        /\ Held(s, SHARED_LOCK) = 0 /\ Held(s, RESERVED_LOCK) = 0
    BY <1>3, <1>5 DEF Holds, Held
  <2>5. k.nRdLock = store.nRdLock + Held(t, SHARED_LOCK) - Held(s, SHARED_LOCK)
    BY <1>6, <2>1, <2>4
  <2>6. k.nWrLock = store.nWrLock + Held(t, RESERVED_LOCK)
                                  - Held(s, RESERVED_LOCK)
    BY <1>3, <1>6, <2>4
  <2>7. t.memDb = s.memDb /\ t.eState # NOT_OPEN /\ s.eState # NOT_OPEN
    BY <1>2, <1>3, <1>5
  <2> QED
    BY <1>6, <2>3, <2>5, <2>6, <2>7 DEF Moves
<1> QED
  BY <1>1, <1>7, MoveKeepsIInv

\* BeginWrite takes the write lock only when nobody has it.
LEMMA BeginWriteKeepsIInv ==
    ASSUME NEW p \in Pagers, NEW exFlag \in BOOLEAN, IInv, BeginWrite(p, exFlag)
    PROVE  IInv'
<1> DEFINE s == pager[p]
           want == IF exFlag THEN EXCLUSIVE_LOCK ELSE RESERVED_LOCK
           lock == IF s.memDb THEN s.eLock ELSE want
           writer == [s EXCEPT !.eState = PAGER_WRITER_LOCKED,
                            !.eLock = lock,
                            !.dbOrigSize = s.dbSize, !.dbFileSize = s.dbSize]
           t == NewDatabase(writer, store)
           k == IF s.memDb THEN store ELSE Locked(store, s.eLock, want)
           r == [s |-> t, m |-> k]
<1>1. Update(p, r)
  BY DEF BeginWrite
<1>2. s.eState = PAGER_READER /\ Agrees(s, store)
  BY DEF BeginWrite, IInv
<1>3. /\ IsPager(writer) /\ writer.eState = PAGER_WRITER_LOCKED
      /\ writer.eLock = lock /\ writer.memDb = s.memDb
  <2> HIDE DEF lock
  <2> QED BY <1>2 DEF Agrees, IsPager
<1>4. CASE s.memDb
  <2>1. s.memDb = TRUE /\ s.eLock = EXCLUSIVE_LOCK
    BY <1>2, <1>4 DEF Agrees, StateOfLock
  <2>2. Moves(s, store, writer, k)
    <3> HIDE DEF writer
    <3> QED BY <1>2, <1>3, <2>1 DEF Moves, Agrees, StateOfLock, Holds, Held
  <2> HIDE DEF writer
  <2>3. Moves(writer, store, t, store)
    BY <1>3, <2>1, <2>2, NewDatabaseStep, WroteMoves DEF Moves
  <2>4. Moves(s, store, t, k)
    BY <1>2, <2>1, <2>2, <2>3, MovesChain
  <2> HIDE DEF t, k
  <2> QED
    BY <1>1, <2>4, UpdateKeepsIInv
<1>5. CASE ~s.memDb
  <2>1. s.memDb = FALSE /\ s.eLock = SHARED_LOCK
    BY <1>2, <1>5 DEF Agrees, StateOfLock
  <2>2. store.nWrLock = 0
    BY <2>1, <1>5 DEF BeginWrite, LockOK
  <2>3. /\ IsStore(k) /\ k.nRef = store.nRef /\ k.nRdLock = store.nRdLock
        /\ k.nWrLock = 1
    BY <1>2, <2>1, LockedStep DEF Agrees
  <2>4. lock \in {RESERVED_LOCK, EXCLUSIVE_LOCK}
    BY <2>1
  <2>5. Wrote(writer, t)
    <3> HIDE DEF writer
    <3> QED BY <1>3, NewDatabaseStep
  <2>6. Moves(s, store, t, k)
    <3> HIDE DEF writer, t, k, lock
    <3> QED BY <1>2, <1>3, <2>1, <2>2, <2>3, <2>4, <2>5
            DEF Wrote, Moves, Agrees, StateOfLock, Holds, Held
  <2> HIDE DEF t, k
  <2> QED
    BY <1>1, <2>6, UpdateKeepsIInv
<1> QED
  BY <1>4, <1>5
-----------------------------------------------------------------------------
\* Get changes the cache only.
LEMMA GetKeepsIInv ==
    ASSUME NEW p \in Pagers, NEW n, IInv, Get(p, n)
    PROVE  IInv'
<1>1. Wrote(pager[p], Fetched(pager[p], store, n))
  BY FetchedStep, KeptWrote DEF IInv, Agrees
<1> QED
  BY <1>1, BecomesKeepsIInv DEF Get

\* Evict changes the cache only.
LEMMA EvictKeepsIInv ==
    ASSUME NEW p \in Pagers, NEW n, IInv, Evict(p, n)
    PROVE  IInv'
<1> DEFINE s == pager[p]
           cache == [i \in DOMAIN s.cache \ {n} |-> s.cache[i]]
           t == [s EXCEPT !.cache = cache]
<1>1. Wrote(s, t)
  <2>1. IsPager(s)
    BY DEF IInv, Agrees
  <2> HIDE DEF cache
  <2> QED BY <2>1 DEF IsPager, Wrote
<1>2. Becomes(p, t)
  BY DEF Evict
<1> HIDE DEF t
<1> QED
  BY <1>1, <1>2, BecomesKeepsIInv

\* Write takes no lock.
LEMMA WriteKeepsIInv ==
    ASSUME NEW p \in Pagers, NEW n, NEW v, IInv, Write(p, n, v)
    PROVE  IInv'
<1> DEFINE s == PagerWrite(Fetched(pager[p], store, n), n)
           t == [s EXCEPT !.cache[n].c.val = v]
<1>1. Wrote(pager[p], s)
  BY FetchedStep, PagerWriteStep, KeptWrote, WroteChain DEF IInv, Agrees, Kept
<1>2. Becomes(p, t)
  BY DEF Write
<1>3. Wrote(s, t)
  <2> HIDE DEF s
  <2> QED BY <1>1 DEF Wrote, IsPager
<1> HIDE DEF s, t
<1> QED
  BY <1>1, <1>2, <1>3, WroteChain, BecomesKeepsIInv

\* Allocate takes no lock.
LEMMA AllocateKeepsIInv ==
    ASSUME NEW p \in Pagers, NEW v, IInv, Allocate(p, v)
    PROVE  IInv'
<1> DEFINE n == pager[p].dbSize + 1
           one == PagerWrite(Fetched(pager[p], store, 1), 1)
           counted == [one EXCEPT !.cache[1].c.vers.nPage = n]
           s == PagerWrite(Fetched(counted, store, n), n)
           t == [s EXCEPT !.cache[n].c.val = v]
<1>1. Wrote(pager[p], one)
  BY FetchedStep, PagerWriteStep, KeptWrote, WroteChain DEF IInv, Agrees, Kept
<1>2. Wrote(one, counted)
  <2> HIDE DEF one, n
  <2> QED BY <1>1 DEF Wrote, IsPager
<1>3. Wrote(counted, s)
  <2> HIDE DEF counted, n
  <2> QED BY <1>2, FetchedStep, PagerWriteStep, KeptWrote, WroteChain
          DEF Wrote, Kept
<1>4. Wrote(s, t)
  <2> HIDE DEF s, n
  <2> QED BY <1>3 DEF Wrote, IsPager
<1>5. Becomes(p, t)
  BY DEF Allocate
<1> HIDE DEF one, counted, s, t
<1>6. Wrote(pager[p], t)
  BY <1>1, <1>2, <1>3, <1>4, WroteChain
<1> QED
  BY <1>5, <1>6, BecomesKeepsIInv

\* Opening savepoints takes no lock.
LEMMA OpenSavepointKeepsIInv ==
    ASSUME NEW p \in Pagers, NEW n, IInv, OpenSavepoint(p, n)
    PROVE  IInv'
<1> DEFINE s == pager[p]
           more == n - Len(s.aSavepoint)
           a == s.aSavepoint \o [i \in 1..more |-> Savepoint(s)]
           t == [s EXCEPT !.aSavepoint = a]
<1>1. Becomes(p, t)
  BY DEF OpenSavepoint
<1>2. Wrote(s, t)
  <2> HIDE DEF a
  <2> QED BY DEF IInv, Agrees, IsPager, Wrote
<1> HIDE DEF t
<1> QED
  BY <1>1, <1>2, BecomesKeepsIInv

\* Releasing savepoints gives none up.
LEMMA ReleaseSavepointKeepsIInv ==
    ASSUME NEW p \in Pagers, NEW nNew, IInv, ReleaseSavepoint(p, nNew)
    PROVE  IInv'
<1> DEFINE s == pager[p]
           rel == s.aSavepoint[nNew + 1]
           a == SubSeq(s.aSavepoint, 1, nNew)
           sub == IF rel.bTruncateOnRelease
                  THEN SubSeq(s.sub, 1, rel.iSubRec) ELSE s.sub
           t == [s EXCEPT !.aSavepoint = a, !.sub = sub]
<1>1. Becomes(p, t)
  BY DEF ReleaseSavepoint
<1>2. Wrote(s, t)
  <2> HIDE DEF a, sub
  <2> QED BY DEF IInv, Agrees, IsPager, Wrote
<1> HIDE DEF t
<1> QED
  BY <1>1, <1>2, BecomesKeepsIInv
-----------------------------------------------------------------------------
\* A page spilled leaves the transaction the pager's, even when it fails.
LEMMA SpillKeepsIInv ==
    ASSUME NEW p \in Pagers, NEW n, IInv, Spill(p, n)
    PROVE  IInv'
<1> DEFINE s == pager[p]
           unsynced == s.cache[n].needSync \/ s.eState = PAGER_WRITER_CACHEMOD
           synced == IF unsynced THEN syncJournal(s, store)
                                 ELSE [s |-> s, m |-> store]
           wrote == WritePages(synced.s, synced.m, {n})
           clean == [wrote.s EXCEPT !.cache[n] = CleanPage(@.c)]
           failed == [wrote.s EXCEPT !.eState = PAGER_ERROR,
                                     !.dbFileSize = IF n > @ THEN n ELSE @]
           t == IF wrote.ok THEN clean ELSE failed
           r == [s |-> t, m |-> wrote.m]
<1>1. Update(p, r)
  BY Zenon DEF Spill
<1>2. /\ Agrees(s, store) /\ ~s.memDb
      /\ s.eState \in {PAGER_WRITER_CACHEMOD, PAGER_WRITER_DBMOD}
  <2>1. /\ ~s.memDb
        /\ s.eState \in {PAGER_WRITER_CACHEMOD, PAGER_WRITER_DBMOD}
    BY ONLY Spill(p, n), Zenon DEF Spill
  <2> QED
    BY ONLY <2>1, IInv, p \in Pagers DEF IInv
<1>3. /\ Moves(s, store, synced.s, synced.m)
      /\ synced.s.memDb = FALSE /\ synced.s.eLock = EXCLUSIVE_LOCK
      /\ synced.s.eState = PAGER_WRITER_DBMOD
  <2>1. s.memDb = FALSE
    BY <1>2 DEF Agrees, StateOfLock
  <2>2. CASE unsynced
    <3> DEFINE u == syncJournal(s, store)
    <3>1. Moves(s, store, u.s, u.m)
      BY <1>2, syncJournalStep
    <3>2. u.s.eState = PAGER_WRITER_DBMOD /\ u.s.eLock = EXCLUSIVE_LOCK
      BY <1>2 DEF syncJournal, Agrees, IsPager
    <3>3. synced = u
      BY <2>2
    <3> HIDE DEF u, synced
    <3>4. u.s.memDb = FALSE
      BY <2>1, <3>1 DEF Moves
    <3> QED
      BY <3>1, <3>2, <3>3, <3>4
  <2>3. CASE ~unsynced
    <3>1. synced.s = s /\ synced.m = store
      BY <2>3
    <3>2. s.eState = PAGER_WRITER_DBMOD /\ s.eLock = EXCLUSIVE_LOCK
      BY <1>2, <2>3 DEF Agrees, StateOfLock
    <3>3. Moves(s, store, s, store)
      BY <1>2, WroteMoves DEF Wrote, Agrees
    <3> HIDE DEF synced
    <3> QED
      BY <2>1, <3>1, <3>2, <3>3
  <2> QED
    BY <2>2, <2>3
<1>4. Kept(synced.s, wrote.s) /\ Stored(synced.m, wrote.m)
  <2> HIDE DEF synced
  <2> QED BY <1>3, WritePagesStep DEF Moves, Agrees
<1>5. /\ IsPager(t) /\ t.memDb = synced.s.memDb /\ t.eLock = EXCLUSIVE_LOCK
      /\ t.eState \in {PAGER_WRITER_DBMOD, PAGER_ERROR}
  <2> HIDE DEF synced, wrote
  <2> QED BY <1>3, <1>4 DEF Kept, IsPager
<1>6. Moves(synced.s, synced.m, t, wrote.m)
  <2> HIDE DEF synced, wrote, t
  <2>1. Agrees(synced.s, synced.m)
    BY <1>3 DEF Moves
  <2>2. Held(t, SHARED_LOCK) = Held(synced.s, SHARED_LOCK)
        /\ Held(t, RESERVED_LOCK) = Held(synced.s, RESERVED_LOCK)
        /\ {Held(t, SHARED_LOCK), Held(t, RESERVED_LOCK)} \subseteq {0, 1}
    BY <1>3, <1>5 DEF Holds, Held
  <2>3. Agrees(t, wrote.m)
    BY <1>3, <1>4, <1>5, <2>1 DEF Agrees, Stored, StateOfLock, Holds
  <2>4. synced.m.nRdLock \in Int /\ synced.m.nWrLock \in Int
    BY <2>1 DEF Agrees
  <2>5. wrote.m.nRdLock = synced.m.nRdLock + Held(t, SHARED_LOCK)
                                           - Held(synced.s, SHARED_LOCK)
    BY <1>4, <2>2, <2>4 DEF Stored
  <2>6. wrote.m.nWrLock = synced.m.nWrLock + Held(t, RESERVED_LOCK)
                                           - Held(synced.s, RESERVED_LOCK)
    BY <1>4, <2>2, <2>4 DEF Stored
  <2>7. /\ wrote.m.nRef = synced.m.nRef /\ t.memDb = synced.s.memDb
        /\ t.eState # NOT_OPEN /\ synced.s.eState # NOT_OPEN
    BY <1>3, <1>4, <1>5 DEF Stored
  <2> QED
    BY <2>3, <2>5, <2>6, <2>7 DEF Moves
<1>7. Moves(s, store, t, wrote.m)
  <2> HIDE DEF synced, wrote, t
  <2> QED BY <1>2, <1>3, <1>6, MovesChain
<1> HIDE DEF wrote, t
<1> QED
  BY <1>1, <1>7, UpdateKeepsIInv

\* A rollback to a savepoint keeps the lock; if it fails, the transaction ends.
LEMMA RollbackToSavepointKeepsIInv ==
    ASSUME NEW p \in Pagers, NEW nNew, IInv, RollbackToSavepoint(p, nNew)
    PROVE  IInv'
<1> DEFINE s == pager[p]
           sp == s.aSavepoint[nNew]
           a == SubSeq(s.aSavepoint, 1, nNew)
           kept == [s EXCEPT !.aSavepoint = a]
           size == IF nNew = 0 THEN s.dbOrigSize ELSE sp.nOrig
           back == [kept EXCEPT !.dbSize = size, !.changeCountDone = s.memDb]
           records == IF nNew = 0 THEN JournalFrom(s, 0)
                   ELSE JournalFrom(s, sp.iOffset) \o SubFrom(s, sp.iSubRec)
           played == Playback(back, store, records)
           new == NewDatabase(played.s, played.m)
           undone == RolledBack(played.s, played.m)
<1>1. /\ Agrees(s, store)
      /\ s.eState \in PAGER_WRITER_LOCKED..PAGER_WRITER_DBMOD
  BY DEF RollbackToSavepoint, Writing, IInv
<1>2. \/ Becomes(p, kept)
      \/ Update(p, [s |-> new, m |-> played.m])
      \/ Update(p, undone)
  BY DEF RollbackToSavepoint
<1>3. Kept(s, kept)
  <2> HIDE DEF a
  <2> QED BY <1>1 DEF Kept, Agrees, IsPager
<1>4. Kept(s, back)
  <2> HIDE DEF kept, size
  <2> QED BY <1>3 DEF Kept, IsPager
<1>5. Kept(s, played.s) /\ Stored(store, played.m)
  <2> HIDE DEF back, records
  <2> QED BY <1>1, <1>4, PlaybackStep DEF Kept, Agrees
<1>6. Moves(s, store, played.s, played.m)
  <2> HIDE DEF played
  <2> QED BY <1>1, <1>5, KeptMoves
<1>7. CASE Becomes(p, kept)
  <2> HIDE DEF kept
  <2> QED BY <1>3, <1>7, KeptWrote, BecomesKeepsIInv
<1>8. CASE Update(p, [s |-> new, m |-> played.m])
  <2> HIDE DEF played
  <2>1. Agrees(played.s, played.m) /\ IsPager(played.s)
    BY <1>6 DEF Moves, Agrees
  <2>2. Moves(played.s, played.m, new, played.m)
    BY <2>1, NewDatabaseStep, WroteMoves
  <2> HIDE DEF new
  <2>3. Moves(s, store, new, played.m)
    BY <1>1, <1>6, <2>2, MovesChain
  <2> QED
    BY <1>8, <2>3, UpdateKeepsIInv
<1>9. CASE Update(p, undone)
  <2> HIDE DEF played
  <2>1. /\ Agrees(played.s, played.m)
        /\ played.s.eState \in PAGER_WRITER_LOCKED..PAGER_ERROR
    BY <1>1, <1>5, <1>6 DEF Moves, Kept
  <2>2. Moves(played.s, played.m, undone.s, undone.m)
    BY <2>1, RolledBackStep
  <2> HIDE DEF undone
  <2>3. Moves(s, store, undone.s, undone.m)
    BY <1>1, <1>6, <2>2, MovesChain
  <2> QED
    BY <1>9, <2>3, UpdateKeepsIInv
<1> QED
  BY <1>2, <1>7, <1>8, <1>9

\* Phase one of a commit ends with the exclusive lock, or with a rollback.
LEMMA CommitPhaseOneKeepsIInv ==
    ASSUME NEW p \in Pagers, NEW size, IInv, CommitPhaseOne(p, size)
    PROVE  IInv'
<1> DEFINE s == pager[p]
           v == Vacuumed(s, store, size)
           done == PhaseOne(v, store)
           undone == RolledBack(done.s, done.m)
           finished == [v EXCEPT !.eState = PAGER_WRITER_FINISHED]
<1>1. /\ Agrees(s, store)
      /\ s.eState \in {PAGER_WRITER_CACHEMOD, PAGER_WRITER_DBMOD}
  BY DEF CommitPhaseOne, IInv
<1>2. \/ v.memDb /\ Becomes(p, finished)
      \/ ~v.memDb /\ Update(p, [s |-> done.s, m |-> done.m])
      \/ ~v.memDb /\ Update(p, undone)
  BY DEF CommitPhaseOne
<1>3. /\ Moves(s, store, v, store) /\ v.memDb = s.memDb
      /\ v.eState = s.eState
  <2>1. Wrote(s, v)
    BY <1>1, VacuumedStep DEF Agrees
  <2> HIDE DEF v
  <2> QED BY <1>1, <2>1, WroteMoves DEF Wrote
<1>4. CASE v.memDb /\ Becomes(p, finished)
  <2> HIDE DEF v
  <2>1. s.memDb = TRUE /\ s.eLock = EXCLUSIVE_LOCK /\ Agrees(v, store)
    BY <1>1, <1>3, <1>4 DEF Moves, Agrees, StateOfLock
  <2>2. v.memDb = TRUE /\ v.eLock = EXCLUSIVE_LOCK
    BY <1>3, <2>1 DEF Agrees, StateOfLock
  <2>3. /\ IsPager(finished) /\ finished.eState = PAGER_WRITER_FINISHED
        /\ finished.eLock = EXCLUSIVE_LOCK /\ finished.memDb = TRUE
    BY <2>1, <2>2 DEF Agrees, IsPager
  <2> HIDE DEF finished
  <2>4. Agrees(finished, store)
    BY <1>1, <2>3 DEF Agrees, StateOfLock, Holds
  <2>5. /\ Held(finished, SHARED_LOCK) = 0 /\ Held(finished, RESERVED_LOCK) = 0
        /\ Held(s, SHARED_LOCK) = 0 /\ Held(s, RESERVED_LOCK) = 0
    BY <2>1, <2>3 DEF Holds, Held
  <2>6. finished.memDb = s.memDb
    BY <2>1, <2>3
  <2>7. Moves(s, store, finished, store)
    BY <1>1, <2>3, <2>4, <2>5, <2>6 DEF Moves, Agrees
  <2> QED
    BY <1>4, <2>7, MoveKeepsIInv DEF Becomes
<1>5. ~v.memDb => /\ Moves(s, store, done.s, done.m)
                  /\ done.s.eState = PAGER_WRITER_FINISHED
  <2> SUFFICES ASSUME ~v.memDb
               PROVE  /\ Moves(s, store, done.s, done.m)
                      /\ done.s.eState = PAGER_WRITER_FINISHED
    OBVIOUS
  <2> HIDE DEF v
  <2>1. Agrees(v, store) /\ v.eState \in PAGER_WRITER_LOCKED..PAGER_WRITER_DBMOD
    BY <1>1, <1>3 DEF Moves
  <2>2. /\ Moves(v, store, done.s, done.m)
        /\ done.s.eState = PAGER_WRITER_FINISHED
    BY <2>1, PhaseOneStep
  <2> HIDE DEF done
  <2> QED BY <1>1, <1>3, <2>2, MovesChain
<1> HIDE DEF v, done
<1>6. CASE ~v.memDb /\ Update(p, [s |-> done.s, m |-> done.m])
  BY <1>5, <1>6, UpdateKeepsIInv
<1>7. CASE ~v.memDb /\ Update(p, undone)
  <2>1. Moves(done.s, done.m, undone.s, undone.m)
    BY <1>5, <1>7, RolledBackStep DEF Moves
  <2> HIDE DEF undone
  <2>2. Moves(s, store, undone.s, undone.m)
    BY <1>1, <1>5, <1>7, <2>1, MovesChain
  <2> QED
    BY <1>7, <2>2, UpdateKeepsIInv
<1> QED
  BY <1>2, <1>4, <1>6, <1>7

\* Phase two gives the write lock up and keeps the read lock.
LEMMA CommitPhaseTwoKeepsIInv ==
    ASSUME NEW p \in Pagers, IInv, CommitPhaseTwo(p)
    PROVE  IInv'
<1> DEFINE r == Ended(pager[p], store, TRUE)
<1>1. /\ Agrees(pager[p], store)
      /\ pager[p].eState \in PAGER_WRITER_LOCKED..PAGER_ERROR
  BY DEF IInv, CommitPhaseTwo
<1>2. Moves(pager[p], store, r.s, r.m)
  BY <1>1, EndedStep
<1>3. Update(p, r)
  BY DEF CommitPhaseTwo
<1> HIDE DEF r
<1> QED
  BY <1>2, <1>3, UpdateKeepsIInv

\* So does a rollback.
LEMMA RollbackKeepsIInv ==
    ASSUME NEW p \in Pagers, IInv, Rollback(p)
    PROVE  IInv'
<1> DEFINE r == RolledBack(pager[p], store)
<1>1. Moves(pager[p], store, r.s, r.m)
  BY RolledBackStep DEF IInv, Rollback
<1>2. Update(p, r)
  BY DEF Rollback
<1> HIDE DEF r
<1> QED
  BY <1>1, <1>2, UpdateKeepsIInv

\* The end of a read, or of a failed transaction, gives every lock up.
LEMMA EndReadKeepsIInv ==
    ASSUME NEW p \in Pagers, IInv, EndRead(p)
    PROVE  IInv'
<1> DEFINE r == Unlocked(pager[p], store)
<1>1. Moves(pager[p], store, r.s, r.m)
  BY UnlockedStep DEF IInv, EndRead
<1>2. Update(p, r)
  BY DEF EndRead
<1> HIDE DEF r
<1> QED
  BY <1>1, <1>2, UpdateKeepsIInv
-----------------------------------------------------------------------------
\* Nobody has the store open at first.
LEMMA InitIInv == Init => IInv
<1> SUFFICES ASSUME Init PROVE IInv
  OBVIOUS
<1>1. PICK limit \in Limits : store = [Created(limit) EXCEPT !.nRef = 0]
  BY DEF Init
<1>2. IsStore(store) /\ store.nRef = 0 /\ store.nRdLock = 0 /\ store.nWrLock = 0
  BY <1>1 DEF Created, IsStore
<1>3. \A p \in Pagers : pager[p] = NotOpen
  BY DEF Init
<1>4. /\ IsPager(NotOpen) /\ NotOpen.memDb = FALSE
      /\ NotOpen.eState = NOT_OPEN /\ NotOpen.eLock = NO_LOCK
  BY DEF NotOpen, IsPager
<1>5. \A p \in Pagers : Agrees(pager[p], store)
  BY <1>2, <1>3, <1>4 DEF Agrees, StateOfLock, Holds
<1>6. Users = {} /\ Lockers(SHARED_LOCK) = {} /\ Lockers(RESERVED_LOCK) = {}
  BY <1>3, <1>4 DEF Users, Lockers, Holds
<1>7. Cardinality({}) = 0
  BY FS_EmptySet
<1>8. pager = [p \in Pagers |-> pager[p]]
  BY DEF Init
<1> QED
  BY <1>2, <1>3, <1>4, <1>5, <1>6, <1>7, <1>8 DEF IInv, MemDbAlone, OneWriter

\* Every step keeps the invariant: one case per action of Next.
LEMMA StepIInv == IInv /\ [Next]_vars => IInv'
<1> SUFFICES ASSUME IInv, [Next]_vars PROVE IInv'
  OBVIOUS
<1>1. CASE UNCHANGED vars
  <2>1. pager' = pager /\ store' = store
    BY <1>1 DEF vars
  <2> QED
    BY <2>1 DEF IInv, Agrees, StateOfLock, Holds, Users, Lockers, MemDbAlone,
                OneWriter
<1>2. ASSUME NEW p \in Pagers, NEW memDb \in BOOLEAN, Open(p, memDb) PROVE IInv'
  BY <1>2, OpenKeepsIInv
<1>3. ASSUME NEW p \in Pagers, Close(p) PROVE IInv'
  BY <1>3, CloseKeepsIInv
<1>4. ASSUME NEW p \in Pagers, BeginRead(p) PROVE IInv'
  BY <1>4, BeginReadKeepsIInv
<1>5. ASSUME NEW p \in Pagers, EndRead(p) PROVE IInv'
  BY <1>5, EndReadKeepsIInv
<1>6. ASSUME NEW p \in Pagers, NEW exFlag \in BOOLEAN, BeginWrite(p, exFlag)
      PROVE  IInv'
  BY <1>6, BeginWriteKeepsIInv
<1>7. ASSUME NEW p \in Pagers, NEW n \in 1..MaxPage,
             Get(p, n) \/ Evict(p, n) \/ Spill(p, n)
      PROVE  IInv'
  BY <1>7, GetKeepsIInv, EvictKeepsIInv, SpillKeepsIInv
<1>8. ASSUME NEW p \in Pagers, NEW n \in 1..MaxPage, NEW v \in Vals,
             Write(p, n, v)
      PROVE  IInv'
  BY <1>8, WriteKeepsIInv
<1>9. ASSUME NEW p \in Pagers, NEW v \in Vals, Allocate(p, v) PROVE IInv'
  BY <1>9, AllocateKeepsIInv
<1>10. ASSUME NEW p \in Pagers, NEW n \in 1..MaxSavepoints, OpenSavepoint(p, n)
       PROVE  IInv'
  BY <1>10, OpenSavepointKeepsIInv
<1>11. ASSUME NEW p \in Pagers, NEW n \in 0..MaxSavepoints,
              ReleaseSavepoint(p, n) \/ RollbackToSavepoint(p, n)
       PROVE  IInv'
  BY <1>11, ReleaseSavepointKeepsIInv, RollbackToSavepointKeepsIInv
<1>12. ASSUME NEW p \in Pagers, NEW size \in 1..MaxPage, CommitPhaseOne(p, size)
       PROVE  IInv'
  BY <1>12, CommitPhaseOneKeepsIInv
<1>13. ASSUME NEW p \in Pagers, CommitPhaseTwo(p) \/ Rollback(p) PROVE IInv'
  BY <1>13, CommitPhaseTwoKeepsIInv, RollbackKeepsIInv
<1> QED
  BY <1>1, <1>2, <1>3, <1>4, <1>5, <1>6, <1>7, <1>8, <1>9, <1>10, <1>11,
     <1>12, <1>13 DEF Next

\* The invariant implies what the runs check.
LEMMA IInvLocks == IInv => LocksAgree
<1> DEFINE users(S) == {p \in Pagers : ~pager[p].memDb /\ pager[p].eState \in S}
           holders(k) == {p \in Pagers : ~pager[p].memDb /\ pager[p].eLock >= k}
<1> SUFFICES ASSUME IInv PROVE LocksAgree
  OBVIOUS
<1>1. \A p \in Pagers : StateOfLock(pager[p])
  BY DEF IInv, Agrees
<1>2. users(PAGER_OPEN..PAGER_ERROR) = Users
  BY <1>1 DEF Users, StateOfLock
<1>3. /\ holders(SHARED_LOCK) = Lockers(SHARED_LOCK)
      /\ holders(RESERVED_LOCK) = Lockers(RESERVED_LOCK)
  BY DEF Lockers, Holds
<1>4. holders(RESERVED_LOCK) = users(PAGER_WRITER_LOCKED..PAGER_ERROR)
  BY <1>1 DEF StateOfLock
<1>5. /\ store.nRef = Cardinality(users(PAGER_OPEN..PAGER_ERROR))
      /\ store.nRdLock = Cardinality(holders(SHARED_LOCK))
      /\ store.nWrLock = Cardinality(holders(RESERVED_LOCK))
  BY <1>2, <1>3 DEF IInv
<1> QED
  BY <1>4, <1>5 DEF LocksAgree

\* The locks and references that the store counts are those its pagers hold,
\* in every reachable state.
THEOREM LocksCorrect == Spec => []LocksAgree
<1>1. Spec => []IInv
  BY InitIInv, StepIInv, PTL DEF Spec
<1> QED
  BY <1>1, IInvLocks, PTL

OneOwner ==
    \A p, q \in Pagers : HasTransaction(p) /\ HasTransaction(q) => p = q

\* Two pagers are never in a write transaction at once, so the owner by which
\* module Store is implemented (TheOwner) is the only one.
THEOREM OneTransaction == Spec => []OneOwner
<1>1. IInv => OneOwner
  <2> SUFFICES ASSUME IInv, NEW p \in Pagers, NEW q \in Pagers,
                      HasTransaction(p), HasTransaction(q)
               PROVE  p = q
    BY DEF OneOwner
  <2>1. StateOfLock(pager[p]) /\ StateOfLock(pager[q])
    BY DEF IInv, Agrees
  <2>2. CASE pager[p].memDb \/ pager[q].memDb
    BY <2>2 DEF IInv, MemDbAlone, HasTransaction
  <2>3. CASE ~pager[p].memDb /\ ~pager[q].memDb
    <3>1. p \in Lockers(RESERVED_LOCK) /\ q \in Lockers(RESERVED_LOCK)
      BY <2>1, <2>3 DEF Lockers, Holds, HasTransaction, StateOfLock
    <3> QED
      BY <3>1 DEF IInv, OneWriter
  <2> QED
    BY <2>2, <2>3
<1>2. Spec => []IInv
  BY InitIInv, StepIInv, PTL DEF Spec
<1> QED
  BY <1>1, <1>2, PTL

-----------------------------------------------------------------------------
(***************************************************************************)
(* The types and sizes of module Pager, for every set of pagers, every     *)
(* number of pages and every size limit of the store: THEOREM              *)
(* PagerTypeCorrect.                                                       *)
(*                                                                         *)
(* The argument.  TypeOK holds between two calls, and a call goes through  *)
(* states it says nothing of.  So there are three layers.                  *)
(*                                                                         *)
(*   - What each operator of Pager does to a pager of the right type, one  *)
(*     lemma per operator (AddedFacts, SyncFacts, PlaybackFacts, ...).     *)
(*     Only Typed is assumed, so they hold in the middle of a call.        *)
(*   - Sound, what a write transaction is at every step of a call: the     *)
(*     journal has each original once, only a dirty page is writeable, the *)
(*     savepoints are places in the journals, the change counter on page 1 *)
(*     is not ahead of the pager.  Every call that writes keeps it.        *)
(*   - LocalOK, what a pager is between two calls, by its state.  No pager *)
(*     has to know another: of the store a pager only needs the size       *)
(*     limit, which never changes, and the locks, which the first part     *)
(*     shows.  So a step of one pager keeps the LocalOK of the others.     *)
(*                                                                         *)
(* DataInv is inductive where TypeOK is not.  TypeOK alone lets a journal  *)
(* hold an original twice, or a savepoint lie beyond its journal, and then *)
(* playing back has no page to restore; it lets a writer begin with a      *)
(* database larger than the store, and then rolling back leaves one.       *)
(***************************************************************************)

-----------------------------------------------------------------------------
(* Numbers and sequences.                                                  *)

\* The least element of a set of naturals is one, and the least.
LEMMA MinFacts ==
    ASSUME NEW S \in SUBSET Nat, S # {}
    PROVE  Min(S) \in S /\ \A x \in S : Min(S) <= x
<1>1. PICK b \in S : \A c \in S : ~(<<c, b>> \in OpToRel(<, Nat))
  BY NatLessThanWellFounded, WFMin
<1>2. \A c \in S : ~(c < b)
  BY <1>1 DEF OpToRel
<1>3. \A c \in S : b <= c
  BY <1>2
<1> QED
  BY <1>3 DEF Min

\* So is the greatest element of a bounded one.
LEMMA MaxFacts ==
    ASSUME NEW b \in Nat, NEW S \in SUBSET (0..b), S # {}
    PROVE  Max(S) \in S /\ \A x \in S : x <= Max(S)
<1> DEFINE T == {b - x : x \in S}
<1>1. T \in SUBSET Nat /\ T # {}
  <2>1. \A x \in S : b - x \in Nat
    OBVIOUS
  <2> QED
    BY <2>1
<1>2. Min(T) \in T /\ \A y \in T : Min(T) <= y
  BY <1>1, MinFacts
<1>3. PICK m \in S : Min(T) = b - m
  BY <1>2
<1>4. \A x \in S : b - m <= b - x
  BY <1>2, <1>3
<1>5. \A x \in S : m >= x
  BY <1>4
<1> QED
  BY <1>5 DEF Max

\* The greater of two numbers.
LEMMA MaxOfTwo ==
    ASSUME NEW a \in Nat, NEW b \in Nat
    PROVE  Max({a, b}) = IF a >= b THEN a ELSE b
<1>1. {a, b} \in SUBSET (0..(a + b)) /\ {a, b} # {}
  OBVIOUS
<1>2. Max({a, b}) \in {a, b} /\ \A x \in {a, b} : x <= Max({a, b})
  BY <1>1, MaxFacts, a + b \in Nat
<1> QED
  BY <1>2

\* A function on 1..n with values in T is a sequence over T.
LEMMA FunctionIsSeq ==
    ASSUME NEW T, NEW n \in Nat, NEW f, f \in [1..n -> T]
    PROVE  f \in Seq(T) /\ Len(f) = n
<1>1. f \in Seq(T)
  BY SeqDef
<1> QED
  BY <1>1, LenProperties

\* Pairwise different numbers of 1..k are at most k.
LEMMA Pigeons ==
    ASSUME NEW k \in Nat, NEW n \in Nat, NEW f \in [1..n -> 1..k],
           \A i, j \in 1..n : f[i] = f[j] => i = j
    PROVE  n <= k
<1>1. /\ IsFiniteSet(1..n) /\ Cardinality(1..n) = n
      /\ IsFiniteSet(1..k) /\ Cardinality(1..k) = k
  BY FS_Interval
<1> SUFFICES ASSUME k < n PROVE FALSE
  OBVIOUS
<1>2. Cardinality(1..k) < Cardinality(1..n)
  BY <1>1
<1>3. \E x, y \in 1..n : x # y /\ f[x] = f[y]
  BY ONLY <1>1, <1>2, f \in [1..n -> 1..k], FS_PigeonHole
<1> QED
  BY <1>3
-----------------------------------------------------------------------------
(* The types.                                                              *)

\* A record of a journal.
RecordType == [pgno : 1..MaxPage, c : Content]

\* SavepointType, without a bound on the positions in the journals.
MarkType ==
    [nOrig : 0..MaxPage, iOffset : Nat, iSubRec : Nat,
     inSavepoint : SUBSET (1..MaxPage), bTruncateOnRelease : BOOLEAN]

\* The fields of an open pager.
Fields ==
    {"eState", "memDb", "eLock", "hasHeldSharedLock", "changeCountDone",
     "dbFileVers", "dbSize", "dbOrigSize", "dbFileSize", "cache", "journal",
     "journalHdr", "sub", "aSavepoint"}

\* A cache holds pages.
IsCache(c) == DOMAIN c \subseteq 1..MaxPage /\ \A n \in DOMAIN c : c[n] \in PageType

\* s is a pager, as it is between any two steps of a call: a journal may be
\* longer than the bounds of the model allow between two calls.
Typed(s) ==
    /\ Fields \subseteq DOMAIN s
    /\ s.eState \in NOT_OPEN..PAGER_ERROR
    /\ s.eLock \in {NO_LOCK, SHARED_LOCK, RESERVED_LOCK, EXCLUSIVE_LOCK}
    /\ s.memDb \in BOOLEAN /\ s.hasHeldSharedLock \in BOOLEAN
    /\ s.changeCountDone \in BOOLEAN
    /\ s.dbSize \in 0..MaxPage /\ s.dbOrigSize \in 0..MaxPage
    /\ s.dbFileSize \in 0..MaxPage
    /\ s.dbFileVers \in VersType
    /\ IsCache(s.cache)
    /\ s.journal \in Seq(RecordType) /\ s.journalHdr \in 0..Len(s.journal)
    /\ s.sub \in Seq(RecordType)
    /\ s.aSavepoint \in Seq(MarkType)

\* The fields that only the file and the locks determine.
SameFile(s, t) ==
    /\ t.memDb = s.memDb /\ t.eLock = s.eLock
    /\ t.hasHeldSharedLock = s.hasHeldSharedLock
    /\ t.changeCountDone = s.changeCountDone
    /\ t.dbFileVers = s.dbFileVers
    /\ t.dbOrigSize = s.dbOrigSize /\ t.dbFileSize = s.dbFileSize

\* From s to t the journals and the savepoints stay.
SameJournals(s, t) ==
    /\ t.journal = s.journal /\ t.journalHdr = s.journalHdr
    /\ t.sub = s.sub /\ t.aSavepoint = s.aSavepoint

\* Only page n of the cache differs.
SameOthers(s, t, n) ==
    /\ DOMAIN t.cache = DOMAIN s.cache
    /\ \A i \in DOMAIN s.cache \ {n} : t.cache[i] = s.cache[i]

\* The savepoints cover what they covered, and in addition page n.
Covers(A, B, n) ==
    /\ B \in Seq(MarkType) /\ Len(B) = Len(A)
    /\ \A i \in 1..Len(A) :
          /\ B[i].nOrig = A[i].nOrig /\ B[i].iOffset = A[i].iOffset
          /\ B[i].iSubRec = A[i].iSubRec
          /\ B[i].inSavepoint = IF n <= A[i].nOrig
                                THEN A[i].inSavepoint \cup {n}
                                ELSE A[i].inSavepoint

\* saved, in pager_write: page n is dirty and writeable, and its original is
\* in the journal if it has one.
Saves(s, u, n) ==
    /\ Typed(u) /\ SameFile(s, u) /\ SameOthers(s, u, n)
    /\ u.eState = IF s.eState = PAGER_WRITER_LOCKED
                  THEN PAGER_WRITER_CACHEMOD ELSE s.eState
    /\ u.dbSize = s.dbSize /\ u.journalHdr = s.journalHdr /\ u.sub = s.sub
    /\ u.cache[n].c = s.cache[n].c
    /\ u.cache[n].dirty /\ u.cache[n].writeable
    /\ \/ /\ n \in InJournal(s)
          /\ u.journal = s.journal /\ u.aSavepoint = s.aSavepoint
          /\ u.cache[n].needSync = s.cache[n].needSync
       \/ /\ n \notin InJournal(s) /\ n <= s.dbOrigSize
          /\ u.journal = Append(s.journal, Record(s, n))
          /\ u.cache[n].needSync
          /\ Covers(s.aSavepoint, u.aSavepoint, n)
          /\ \A i \in 1..Len(s.aSavepoint) :
                u.aSavepoint[i].bTruncateOnRelease
                   = s.aSavepoint[i].bTruncateOnRelease
       \/ /\ n \notin InJournal(s) /\ n > s.dbOrigSize
          /\ u.journal = s.journal /\ u.aSavepoint = s.aSavepoint

\* SubJournalled: the savepoints that need page n have it in the sub-journal.
SubSaves(s, t, n) ==
    /\ Typed(t) /\ SameFile(s, t)
    /\ t.eState = s.eState /\ t.dbSize = s.dbSize /\ t.cache = s.cache
    /\ t.journal = s.journal /\ t.journalHdr = s.journalHdr
    /\ \/ Requiring(s, n) = {} /\ t.sub = s.sub /\ t.aSavepoint = s.aSavepoint
       \/ /\ t.sub = Append(s.sub, Record(s, n))
          /\ Covers(s.aSavepoint, t.aSavepoint, n)
          /\ \E f \in Requiring(s, n) :
                /\ \A i \in Requiring(s, n) : f <= i
                /\ \A i \in 1..Len(s.aSavepoint) :
                      t.aSavepoint[i].bTruncateOnRelease
                         = (s.aSavepoint[i].bTruncateOnRelease /\ i <= f)
-----------------------------------------------------------------------------
(* What the operators do.                                                  *)

USE DEF NO_LOCK, SHARED_LOCK, RESERVED_LOCK, EXCLUSIVE_LOCK, NOT_OPEN,
        PAGER_OPEN, PAGER_READER, PAGER_WRITER_LOCKED, PAGER_WRITER_CACHEMOD,
        PAGER_WRITER_DBMOD, PAGER_WRITER_FINISHED, PAGER_ERROR

\* A cache with another page n is a cache.
LEMMA CacheExcept ==
    ASSUME NEW c, IsCache(c), NEW n \in DOMAIN c, NEW x \in PageType, NEW d,
           DOMAIN d = DOMAIN c, d[n] = x, \A i \in DOMAIN c \ {n} : d[i] = c[i]
    PROVE  IsCache(d)
BY DEF IsCache

\* A page of the cache can be recorded.
LEMMA RecordTyped ==
    ASSUME NEW s, Typed(s), NEW n \in DOMAIN s.cache
    PROVE  Record(s, n) \in RecordType /\ Record(s, n).pgno = n
           /\ Record(s, n).c = s.cache[n].c
BY DEF Record, RecordType, Typed, IsCache, PageType

\* addToSavepointBitvecs marks page n in the savepoints that cover it.
LEMMA InSavepointsFacts ==
    ASSUME NEW A \in Seq(MarkType), NEW n \in 1..MaxPage
    PROVE  /\ Covers(A, InSavepoints(A, n), n)
           /\ \A i \in 1..Len(A) :
                 InSavepoints(A, n)[i].bTruncateOnRelease = A[i].bTruncateOnRelease
<1> DEFINE B == InSavepoints(A, n)
           e(i) == IF n <= A[i].nOrig
                   THEN [A[i] EXCEPT !.inSavepoint = @ \cup {n}] ELSE A[i]
<1>1. DOMAIN A = 1..Len(A) /\ Len(A) \in Nat
  BY LenProperties
<1>2. \A i \in 1..Len(A) : A[i] \in MarkType
  BY ElementOfSeq
<1>3. B = [i \in 1..Len(A) |-> e(i)]
  BY <1>1 DEF InSavepoints
<1>4. \A i \in 1..Len(A) :
         /\ e(i) \in MarkType
         /\ e(i).nOrig = A[i].nOrig /\ e(i).iOffset = A[i].iOffset
         /\ e(i).iSubRec = A[i].iSubRec
         /\ e(i).inSavepoint = IF n <= A[i].nOrig
                               THEN A[i].inSavepoint \cup {n}
                               ELSE A[i].inSavepoint
         /\ e(i).bTruncateOnRelease = A[i].bTruncateOnRelease
  BY <1>2 DEF MarkType
<1> HIDE DEF e
<1>5. B \in [1..Len(A) -> MarkType]
  BY <1>3, <1>4
<1>6. B \in Seq(MarkType) /\ Len(B) = Len(A)
  <2> HIDE DEF B
  <2> QED BY <1>1, <1>5, FunctionIsSeq
<1> QED
  BY <1>3, <1>4, <1>6 DEF Covers

\* subjournalPageIfRequired.
LEMMA SubJournalledFacts ==
    ASSUME NEW s, Typed(s), NEW n \in DOMAIN s.cache
    PROVE  SubSaves(s, SubJournalled(s, n), n)
<1> DEFINE A == s.aSavepoint
           f == Min(Requiring(s, n))
           e(i) == [A[i] EXCEPT !.bTruncateOnRelease = @ /\ i <= f]
           kept == [i \in DOMAIN A |-> e(i)]
           B == InSavepoints(kept, n)
           sub == Append(s.sub, Record(s, n))
           t == [s EXCEPT !.sub = sub, !.aSavepoint = B]
<1>1. CASE Requiring(s, n) = {}
  BY <1>1 DEF SubJournalled, SubSaves, SameFile
<1>2. CASE Requiring(s, n) # {}
  <2>1. A \in Seq(MarkType) /\ DOMAIN A = 1..Len(A) /\ Len(A) \in Nat
        /\ n \in 1..MaxPage
    BY LenProperties DEF Typed, IsCache
  <2>2. Requiring(s, n) \in SUBSET Nat
    BY <2>1 DEF Requiring
  <2>3. f \in Requiring(s, n) /\ \A i \in Requiring(s, n) : f <= i
    BY <1>2, <2>2, MinFacts
  <2>4. \A i \in 1..Len(A) : A[i] \in MarkType
    BY <2>1, ElementOfSeq
  <2> HIDE DEF f, A
  <2>5. \A i \in 1..Len(A) :
           /\ e(i) \in MarkType
           /\ e(i).nOrig = A[i].nOrig /\ e(i).iOffset = A[i].iOffset
           /\ e(i).iSubRec = A[i].iSubRec /\ e(i).inSavepoint = A[i].inSavepoint
           /\ e(i).bTruncateOnRelease = (A[i].bTruncateOnRelease /\ i <= f)
    BY <2>4 DEF MarkType
  <2> HIDE DEF e
  <2>6. kept \in [1..Len(A) -> MarkType] /\ \A i \in 1..Len(A) : kept[i] = e(i)
    BY <2>1, <2>5
  <2>7. kept \in Seq(MarkType) /\ Len(kept) = Len(A)
    <3> HIDE DEF kept
    <3> QED BY <2>1, <2>6, FunctionIsSeq
  <2> HIDE DEF kept
  <2>8. /\ Covers(kept, B, n)
        /\ \A i \in 1..Len(A) : B[i].bTruncateOnRelease = kept[i].bTruncateOnRelease
    BY <2>1, <2>7, InSavepointsFacts
  <2> HIDE DEF B
  <2>9. /\ Covers(A, B, n)
        /\ \A i \in 1..Len(A) :
              B[i].bTruncateOnRelease = (A[i].bTruncateOnRelease /\ i <= f)
    <3>1. B \in Seq(MarkType) /\ Len(B) = Len(A)
      BY <2>7, <2>8 DEF Covers
    <3>2. ASSUME NEW i \in 1..Len(A)
          PROVE  /\ B[i].nOrig = A[i].nOrig /\ B[i].iOffset = A[i].iOffset
                 /\ B[i].iSubRec = A[i].iSubRec
                 /\ B[i].inSavepoint = IF n <= A[i].nOrig
                                       THEN A[i].inSavepoint \cup {n}
                                       ELSE A[i].inSavepoint
                 /\ B[i].bTruncateOnRelease
                       = (A[i].bTruncateOnRelease /\ i <= f)
      <4>1. kept[i] = e(i)
        BY <2>6
      <4>2. i \in 1..Len(kept)
        BY <2>7
      <4>3. /\ B[i].nOrig = kept[i].nOrig /\ B[i].iOffset = kept[i].iOffset
            /\ B[i].iSubRec = kept[i].iSubRec
            /\ B[i].inSavepoint = IF n <= kept[i].nOrig
                                  THEN kept[i].inSavepoint \cup {n}
                                  ELSE kept[i].inSavepoint
        BY <2>8, <4>2 DEF Covers
      <4>4. B[i].bTruncateOnRelease = kept[i].bTruncateOnRelease
        BY <2>8
      <4>5. /\ e(i).nOrig = A[i].nOrig /\ e(i).iOffset = A[i].iOffset
            /\ e(i).iSubRec = A[i].iSubRec
            /\ e(i).inSavepoint = A[i].inSavepoint
            /\ e(i).bTruncateOnRelease = (A[i].bTruncateOnRelease /\ i <= f)
        BY <2>5
      <4> QED
        BY <4>1, <4>3, <4>4, <4>5
    <3> QED
      BY <3>1, <3>2 DEF Covers
  <2>10. sub \in Seq(RecordType)
    BY RecordTyped, AppendProperties DEF Typed
  <2> HIDE DEF sub
  <2>11. SubJournalled(s, n) = t
    BY <1>2 DEF SubJournalled, f, sub, B, kept, e, A
  <2>12. Typed(t)
    BY <2>9, <2>10 DEF Typed, Fields, Covers, t
  <2>13. /\ SameFile(s, t) /\ t.eState = s.eState /\ t.dbSize = s.dbSize
         /\ t.cache = s.cache /\ t.journal = s.journal
         /\ t.journalHdr = s.journalHdr /\ t.sub = sub /\ t.aSavepoint = B
    BY DEF SameFile, Typed, Fields, t
  <2> HIDE DEF t
  <2> QED
    BY <2>3, <2>9, <2>11, <2>12, <2>13 DEF SubSaves, sub, A
<1> QED
  BY <1>1, <1>2

\* The part of pager_write before the savepoints.
SavedPage(s, n) ==
    [Journalled([OpenJournal(s) EXCEPT !.cache[n].dirty = TRUE], n)
        EXCEPT !.cache[n].writeable = TRUE]

\* The states of a write transaction before the commit.
InTx(s) == s.eState \in PAGER_WRITER_LOCKED..PAGER_WRITER_DBMOD

\* Nothing is journalled.
Blank(s) == s.journal = <<>> /\ s.sub = <<>> /\ s.journalHdr = 0

\* From s to t the original of page n is added to the journal.
Adds(s, t, n) ==
    /\ Typed(t) /\ SameFile(s, t) /\ SameOthers(s, t, n)
    /\ t.eState = s.eState /\ t.dbSize = s.dbSize
    /\ t.journalHdr = s.journalHdr /\ t.sub = s.sub
    /\ t.cache[n] = [s.cache[n] EXCEPT !.needSync = TRUE]
    /\ t.journal = Append(s.journal, Record(s, n))
    /\ Covers(s.aSavepoint, t.aSavepoint, n)
    /\ \A i \in 1..Len(s.aSavepoint) :
          t.aSavepoint[i].bTruncateOnRelease
             = s.aSavepoint[i].bTruncateOnRelease

\* pagerAddPageToRollbackJournal.
LEMMA AddedFacts ==
    ASSUME NEW s, Typed(s), NEW n \in DOMAIN s.cache
    PROVE  Adds(s, AddToRollbackJournal(s, n), n)
<1> DEFINE j == Append(s.journal, Record(s, n))
           c == [s.cache EXCEPT ![n] = [s.cache[n] EXCEPT !.needSync = TRUE]]
           B == InSavepoints(s.aSavepoint, n)
           t == [s EXCEPT !.journal = j, !.cache = c, !.aSavepoint = B]
<1>1. AddToRollbackJournal(s, n) = t
  BY DEF AddToRollbackJournal
<1>2. j \in Seq(RecordType) /\ Len(j) = Len(s.journal) + 1 /\ Len(s.journal) \in Nat
  BY RecordTyped, AppendProperties, LenProperties DEF Typed
<1>3. s.aSavepoint \in Seq(MarkType) /\ n \in 1..MaxPage
  BY DEF Typed, IsCache
<1>4. /\ Covers(s.aSavepoint, B, n)
      /\ \A i \in 1..Len(s.aSavepoint) :
            B[i].bTruncateOnRelease = s.aSavepoint[i].bTruncateOnRelease
  BY <1>3, InSavepointsFacts
<1>5. s.cache[n] \in PageType
  BY DEF Typed, IsCache
<1>6. /\ IsCache(c) /\ DOMAIN c = DOMAIN s.cache
      /\ c[n] = [s.cache[n] EXCEPT !.needSync = TRUE]
      /\ \A i \in DOMAIN s.cache \ {n} : c[i] = s.cache[i]
  BY <1>5 DEF Typed, IsCache, PageType
<1> HIDE DEF j, c, B
<1>7. /\ SameFile(s, t) /\ t.eState = s.eState /\ t.dbSize = s.dbSize
      /\ t.journalHdr = s.journalHdr /\ t.sub = s.sub
      /\ t.journal = j /\ t.cache = c /\ t.aSavepoint = B
  BY DEF SameFile, Typed, Fields
<1>8. Typed(t)
  BY <1>2, <1>4, <1>6 DEF Typed, Fields, Covers
<1> HIDE DEF t
<1> QED
  BY <1>1, <1>4, <1>6, <1>7, <1>8 DEF SameOthers, j, Adds

\* A page is made writable.
LEMMA SavedFacts ==
    ASSUME NEW s, Typed(s), InTx(s), NEW n \in DOMAIN s.cache,
           s.eState = PAGER_WRITER_LOCKED => Blank(s)
    PROVE  Saves(s, SavedPage(s, n), n)
<1> DEFINE o == OpenJournal(s)
           state == IF s.eState = PAGER_WRITER_LOCKED
                    THEN PAGER_WRITER_CACHEMOD ELSE s.eState
           d == [o EXCEPT !.cache[n].dirty = TRUE]
           j == Journalled(d, n)
           u == [j EXCEPT !.cache[n].writeable = TRUE]
<1>1. /\ Typed(o) /\ SameFile(s, o) /\ SameJournals(s, o) /\ o.eState = state
      /\ o.dbSize = s.dbSize /\ o.cache = s.cache
  <2>1. CASE s.eState # PAGER_WRITER_LOCKED
    BY <2>1 DEF OpenJournal, SameFile, SameJournals
  <2>2. CASE s.eState = PAGER_WRITER_LOCKED
    <3>1. o = [s EXCEPT !.eState = PAGER_WRITER_CACHEMOD,
                        !.journal = <<>>, !.journalHdr = 0]
      BY <2>2 DEF OpenJournal
    <3>2. s.journal = <<>> /\ s.journalHdr = 0
      BY <2>2 DEF Blank
    <3> HIDE DEF o
    <3>3. /\ SameFile(s, o) /\ SameJournals(s, o) /\ o.eState = PAGER_WRITER_CACHEMOD
          /\ o.dbSize = s.dbSize /\ o.cache = s.cache /\ Fields \subseteq DOMAIN o
      BY <3>1, <3>2 DEF Typed, Fields, SameFile, SameJournals
    <3> QED
      BY <2>2, <3>3 DEF Typed, SameFile, SameJournals
  <2> QED
    BY <2>1, <2>2
<1>2. s.cache[n] \in PageType /\ n \in 1..MaxPage
  BY DEF Typed, IsCache
<1> HIDE DEF o
<1>3. /\ Typed(d) /\ SameFile(s, d) /\ SameJournals(s, d) /\ d.eState = state
      /\ d.dbSize = s.dbSize /\ SameOthers(s, d, n)
      /\ d.cache[n] = [s.cache[n] EXCEPT !.dirty = TRUE]
  <2>1. d.cache = [s.cache EXCEPT ![n] = [s.cache[n] EXCEPT !.dirty = TRUE]]
    BY <1>1 DEF Typed, Fields
  <2>4. /\ SameFile(s, d) /\ SameJournals(s, d) /\ d.eState = state
        /\ d.dbSize = s.dbSize /\ Fields \subseteq DOMAIN d
    BY <1>1 DEF Typed, Fields, SameFile, SameJournals
  <2> HIDE DEF d
  <2>2. /\ DOMAIN d.cache = DOMAIN s.cache /\ SameOthers(s, d, n)
        /\ d.cache[n] = [s.cache[n] EXCEPT !.dirty = TRUE]
    BY <2>1 DEF SameOthers
  <2>3. IsCache(d.cache)
    <3>1. [s.cache[n] EXCEPT !.dirty = TRUE] \in PageType
      BY <1>2 DEF PageType
    <3>2. IsCache(s.cache) /\ \A i \in DOMAIN s.cache \ {n} : d.cache[i] = s.cache[i]
      BY <2>2 DEF Typed, SameOthers
    <3> QED
      BY <2>2, <3>1, <3>2, CacheExcept
  <2> QED
    BY <2>2, <2>3, <2>4, <1>1 DEF Typed, SameFile, SameJournals
<1> HIDE DEF d
<1>4. /\ Typed(j) /\ SameFile(s, j) /\ SameOthers(s, j, n)
      /\ j.eState = state /\ j.dbSize = s.dbSize
      /\ j.journalHdr = s.journalHdr /\ j.sub = s.sub
      /\ j.cache[n].c = s.cache[n].c
      /\ j.cache[n].dirty
      /\ \/ /\ n \in InJournal(s)
            /\ j.journal = s.journal /\ j.aSavepoint = s.aSavepoint
            /\ j.cache[n].needSync = s.cache[n].needSync
         \/ /\ n \notin InJournal(s) /\ n <= s.dbOrigSize
            /\ j.journal = Append(s.journal, Record(s, n))
            /\ j.cache[n].needSync
            /\ Covers(s.aSavepoint, j.aSavepoint, n)
            /\ \A i \in 1..Len(s.aSavepoint) :
                  j.aSavepoint[i].bTruncateOnRelease
                     = s.aSavepoint[i].bTruncateOnRelease
         \/ /\ n \notin InJournal(s) /\ n > s.dbOrigSize
            /\ j.journal = s.journal /\ j.aSavepoint = s.aSavepoint
  <2>1. InJournal(d) = InJournal(s) /\ d.dbOrigSize = s.dbOrigSize
    BY <1>3 DEF InJournal, SameJournals, SameFile
  <2>2. d.cache[n].dirty /\ d.cache[n].c = s.cache[n].c
        /\ d.cache[n].needSync = s.cache[n].needSync /\ d.cache[n] \in PageType
        /\ n \in DOMAIN d.cache
    BY <1>2, <1>3 DEF PageType, SameOthers
  <2>3. CASE n \in InJournal(s)
    <3>1. j = d
      BY <2>1, <2>3 DEF Journalled
    <3> QED
      BY <1>3, <2>2, <2>3, <3>1 DEF SameJournals
  <2>4. CASE n \notin InJournal(s) /\ n <= s.dbOrigSize
    <3>1. j = AddToRollbackJournal(d, n)
      BY <2>1, <2>4 DEF Journalled
    <3> HIDE DEF j
    <3>10. Adds(d, j, n)
      BY <1>3, <2>2, <3>1, AddedFacts
    <3>2. /\ Typed(j) /\ SameFile(d, j) /\ SameOthers(d, j, n)
          /\ j.eState = d.eState /\ j.dbSize = d.dbSize
          /\ j.journalHdr = d.journalHdr /\ j.sub = d.sub
          /\ j.cache[n] = [d.cache[n] EXCEPT !.needSync = TRUE]
          /\ j.journal = Append(d.journal, Record(d, n))
          /\ Covers(d.aSavepoint, j.aSavepoint, n)
          /\ \A i \in 1..Len(d.aSavepoint) :
                j.aSavepoint[i].bTruncateOnRelease
                   = d.aSavepoint[i].bTruncateOnRelease
      BY <3>10 DEF Adds
    <3>3. Record(d, n) = Record(s, n)
      BY <2>2 DEF Record
    <3>4. SameFile(s, j) /\ SameOthers(s, j, n)
      BY <1>3, <3>2 DEF SameFile, SameOthers
    <3>5. j.cache[n].c = s.cache[n].c /\ j.cache[n].dirty /\ j.cache[n].needSync
      BY <2>2, <3>2 DEF PageType
    <3>6. /\ j.eState = state /\ j.dbSize = s.dbSize
          /\ j.journalHdr = s.journalHdr /\ j.sub = s.sub
          /\ j.journal = Append(s.journal, Record(s, n))
          /\ Covers(s.aSavepoint, j.aSavepoint, n)
          /\ \A i \in 1..Len(s.aSavepoint) :
                j.aSavepoint[i].bTruncateOnRelease
                   = s.aSavepoint[i].bTruncateOnRelease
      BY <1>3, <3>2, <3>3 DEF SameJournals
    <3> QED
      BY <2>4, <3>2, <3>4, <3>5, <3>6
  <2>5. CASE n \notin InJournal(s) /\ ~(n <= s.dbOrigSize)
    <3> DEFINE sync == d.cache[n].needSync \/ d.eState # PAGER_WRITER_DBMOD
    <3>1. j = [d EXCEPT !.cache[n].needSync = sync]
      BY <2>1, <2>5 DEF Journalled
    <3> HIDE DEF sync
    <3>2. sync \in BOOLEAN
      BY <2>2 DEF sync, PageType
    <3>3. j.cache = [d.cache EXCEPT ![n] = [d.cache[n] EXCEPT !.needSync = sync]]
      BY <1>3, <3>1 DEF Typed, Fields
    <3>6. /\ SameFile(d, j) /\ SameJournals(d, j) /\ j.eState = d.eState
          /\ j.dbSize = d.dbSize /\ Fields \subseteq DOMAIN j
      BY <1>3, <3>1 DEF Typed, Fields, SameFile, SameJournals
    <3> HIDE DEF j
    <3>4. /\ DOMAIN j.cache = DOMAIN d.cache
          /\ j.cache[n] = [d.cache[n] EXCEPT !.needSync = sync]
          /\ \A i \in DOMAIN d.cache \ {n} : j.cache[i] = d.cache[i]
      BY <2>2, <3>3
    <3>5. IsCache(j.cache)
      <4>1. [d.cache[n] EXCEPT !.needSync = sync] \in PageType
        BY <2>2, <3>2 DEF PageType
      <4>2. IsCache(d.cache)
        BY <1>3 DEF Typed
      <4> QED
        BY <2>2, <3>4, <4>1, <4>2, CacheExcept
    <3>7. Typed(j)
      BY <1>3, <3>5, <3>6 DEF Typed, SameFile, SameJournals
    <3>8. j.cache[n].c = s.cache[n].c /\ j.cache[n].dirty
      BY <2>2, <3>4 DEF PageType
    <3>9. n > s.dbOrigSize
      BY <1>2, <2>5 DEF Typed
    <3> QED
      BY <1>3, <2>5, <3>4, <3>6, <3>7, <3>8, <3>9
         DEF SameFile, SameJournals, SameOthers
  <2> QED
    BY <2>3, <2>4, <2>5
<1> HIDE DEF j
<1>5. u.cache = [j.cache EXCEPT ![n] = [j.cache[n] EXCEPT !.writeable = TRUE]]
  BY <1>4 DEF Typed, Fields
<1>10. SavedPage(s, n) = u
  BY DEF SavedPage, j, d, o
<1>9. /\ SameFile(j, u) /\ SameJournals(j, u) /\ u.eState = j.eState
      /\ u.dbSize = j.dbSize /\ Fields \subseteq DOMAIN u
  BY <1>4 DEF Typed, Fields, SameFile, SameJournals
<1> HIDE DEF u
<1>6. n \in DOMAIN j.cache /\ j.cache[n] \in PageType
  BY <1>4 DEF SameOthers, Typed, IsCache
<1>7. /\ DOMAIN u.cache = DOMAIN j.cache
      /\ u.cache[n] = [j.cache[n] EXCEPT !.writeable = TRUE]
      /\ \A i \in DOMAIN j.cache \ {n} : u.cache[i] = j.cache[i]
  BY <1>5, <1>6
<1>8. IsCache(u.cache)
  <2>1. [j.cache[n] EXCEPT !.writeable = TRUE] \in PageType
    BY <1>6 DEF PageType
  <2>2. IsCache(j.cache)
    BY <1>4 DEF Typed
  <2> QED
    BY <1>6, <1>7, <2>1, <2>2, CacheExcept
<1>11. Typed(u)
  BY <1>4, <1>8, <1>9 DEF Typed, SameFile, SameJournals
<1>12. /\ u.cache[n].c = j.cache[n].c /\ u.cache[n].dirty = j.cache[n].dirty
       /\ u.cache[n].writeable /\ u.cache[n].needSync = j.cache[n].needSync
  BY <1>6, <1>7 DEF PageType
<1>13. SameFile(s, u) /\ SameOthers(s, u, n)
  BY <1>4, <1>7, <1>9 DEF SameFile, SameOthers
<1>14. /\ u.journal = j.journal /\ u.journalHdr = j.journalHdr
       /\ u.sub = j.sub /\ u.aSavepoint = j.aSavepoint
  BY <1>9 DEF SameJournals
<1> QED
  BY <1>4, <1>9, <1>10, <1>11, <1>12, <1>13, <1>14 DEF Saves

-----------------------------------------------------------------------------
(* A transaction.                                                          *)

\* The journal holds originals only, each once.
JournalOK(s) ==
    /\ \A i \in DOMAIN s.journal : s.journal[i].pgno <= s.dbOrigSize
    /\ \A i, j \in DOMAIN s.journal :
          s.journal[i].pgno = s.journal[j].pgno => i = j

\* Nothing in the cache is to be written.
Clean(s) ==
    \A n \in DOMAIN s.cache :
        ~s.cache[n].dirty /\ ~s.cache[n].writeable /\ ~s.cache[n].needSync

\* Only a dirty page is writeable.
WriteableOK(s) ==
    \A n \in DOMAIN s.cache : s.cache[n].writeable => s.cache[n].dirty

\* The savepoints are within the bounds, and no image of one is empty.
MarksBound(s) ==
    \A i \in DOMAIN s.aSavepoint :
        s.aSavepoint[i] \in SavepointType /\ 1 <= s.aSavepoint[i].nOrig

\* Every savepoint is a place in the journals, the later ones further on.
MarksInside(s) ==
    /\ \A i \in DOMAIN s.aSavepoint :
          /\ s.aSavepoint[i].iOffset <= Len(s.journal)
          /\ s.aSavepoint[i].iSubRec <= Len(s.sub)
    /\ \A i, j \in DOMAIN s.aSavepoint :
          i <= j => /\ s.aSavepoint[i].iOffset <= s.aSavepoint[j].iOffset
                    /\ s.aSavepoint[i].iSubRec <= s.aSavepoint[j].iSubRec

\* The counter on page 1 is not ahead of the one the pager remembers.
CounterOK(s) ==
    1 \in DOMAIN s.cache => s.cache[1].c.vers.counter <= s.dbFileVers.counter

\* A commit can count on: every version a rollback could bring back is below
\* the bound.
BelowRecords(records) ==
    \A i \in DOMAIN records :
        records[i].pgno = 1 => records[i].c.vers.counter < MaxVer

\* No version counter is at the bound of the model, so one more is a counter.
Below(s) ==
    /\ s.dbFileVers.counter < MaxVer
    /\ BelowRecords(s.journal) /\ BelowRecords(s.sub)

\* A pager in a write transaction, between any two steps of a call before
\* the commit.
Sound(s) ==
    /\ Typed(s) /\ InTx(s)
    /\ s.eState = PAGER_WRITER_LOCKED => Clean(s) /\ Blank(s)
    /\ s.eState # PAGER_WRITER_DBMOD => s.dbOrigSize = s.dbFileSize
    /\ ~s.memDb => ~s.changeCountDone
    /\ JournalOK(s) /\ WriteableOK(s) /\ MarksBound(s) /\ MarksInside(s)
    /\ CounterOK(s) /\ Below(s)

\* From s to t a page n of the cache is made writable.
Writable(s, t, n) ==
    /\ Sound(t) /\ SameFile(s, t)
    /\ t.eState = IF s.eState = PAGER_WRITER_LOCKED
                  THEN PAGER_WRITER_CACHEMOD ELSE s.eState
    /\ DOMAIN t.cache = DOMAIN s.cache
    /\ \A i \in DOMAIN s.cache : t.cache[i].c = s.cache[i].c
    /\ t.cache[n].dirty
    /\ t.dbSize = IF n > s.dbSize THEN n ELSE s.dbSize
    /\ s.aSavepoint = <<>> => t.aSavepoint = <<>> /\ t.sub = s.sub

\* One record more.
LEMMA Appended ==
    ASSUME NEW j \in Seq(RecordType), NEW r \in RecordType
    PROVE  /\ Append(j, r) \in Seq(RecordType)
           /\ Len(j) \in Nat /\ DOMAIN j = 1..Len(j)
           /\ Len(Append(j, r)) = Len(j) + 1
           /\ DOMAIN Append(j, r) = 1..(Len(j) + 1)
           /\ \A i \in 1..Len(j) : Append(j, r)[i] = j[i]
           /\ Append(j, r)[Len(j) + 1] = r
           /\ PagesIn(Append(j, r)) = PagesIn(j) \cup {r.pgno}
<1> DEFINE k == Append(j, r)
<1>1. /\ k \in Seq(RecordType) /\ Len(j) \in Nat /\ DOMAIN j = 1..Len(j)
      /\ Len(k) = Len(j) + 1 /\ DOMAIN k = 1..(Len(j) + 1)
      /\ \A i \in 1..Len(j) : k[i] = j[i]
      /\ k[Len(j) + 1] = r
  BY AppendProperties, LenProperties
<1> HIDE DEF k
<1>2. \A i \in DOMAIN k : k[i] = IF i = Len(j) + 1 THEN r ELSE j[i]
  BY <1>1
<1>3. PagesIn(k) = PagesIn(j) \cup {r.pgno}
  <2>1. \A i \in DOMAIN k : k[i].pgno \in PagesIn(j) \cup {r.pgno}
    BY <1>1, <1>2 DEF PagesIn
  <2>2. \A i \in DOMAIN j : j[i].pgno \in PagesIn(k)
    BY <1>1 DEF PagesIn
  <2>3. r.pgno \in PagesIn(k)
    BY <1>1 DEF PagesIn
  <2> QED
    BY <2>1, <2>2, <2>3 DEF PagesIn
<1> QED
  BY <1>1, <1>3 DEF k

\* One record below the bound more.
LEMMA BelowAppended ==
    ASSUME NEW j \in Seq(RecordType), NEW r \in RecordType, BelowRecords(j),
           r.pgno = 1 => r.c.vers.counter < MaxVer
    PROVE  BelowRecords(Append(j, r))
<1> DEFINE k == Append(j, r)
<1>1. /\ Len(j) \in Nat /\ DOMAIN j = 1..Len(j)
      /\ DOMAIN k = 1..(Len(j) + 1)
      /\ \A i \in 1..Len(j) : k[i] = j[i]
      /\ k[Len(j) + 1] = r
  BY Appended
<1> HIDE DEF k
<1>2. \A i \in DOMAIN k : k[i] = r \/ (i \in DOMAIN j /\ k[i] = j[i])
  BY <1>1
<1>3. BelowRecords(k)
  BY <1>2 DEF BelowRecords
<1> QED
  BY <1>3 DEF k

\* A record of a page as it is stays below the bound.
LEMMA RecordBelow ==
    ASSUME NEW s, Typed(s), CounterOK(s), Below(s), NEW n \in DOMAIN s.cache
    PROVE  Record(s, n).pgno = 1 => Record(s, n).c.vers.counter < MaxVer
<1> SUFFICES ASSUME n = 1 PROVE s.cache[1].c.vers.counter < MaxVer
  BY DEF Record
<1>1. s.cache[1].c.vers.counter <= s.dbFileVers.counter
  BY DEF CounterOK
<1>2. s.dbFileVers.counter < MaxVer /\ s.dbFileVers.counter \in Int
  BY DEF Below, Typed, VersType
<1>3. s.cache[1].c.vers.counter \in Int /\ MaxVer \in Nat
  BY PagerAssumption DEF Typed, IsCache, PageType, Content, VersType
<1> QED
  BY <1>1, <1>2, <1>3

\* Savepoints that cover one page more stay within the bounds.
LEMMA CoversBound ==
    ASSUME NEW A, A \in Seq(MarkType), NEW B, NEW n, Covers(A, B, n),
           \A i \in DOMAIN A : A[i] \in SavepointType /\ 1 <= A[i].nOrig
    PROVE  /\ \A i \in DOMAIN B : B[i] \in SavepointType /\ 1 <= B[i].nOrig
           /\ A = <<>> => B = <<>>
<1>1. /\ B \in Seq(MarkType) /\ DOMAIN B = DOMAIN A /\ DOMAIN A = 1..Len(A)
      /\ Len(B) = Len(A)
  BY LenProperties DEF Covers
<1>2. ASSUME NEW i \in DOMAIN B PROVE B[i] \in SavepointType /\ 1 <= B[i].nOrig
  <2>1. B[i] \in MarkType
    BY <1>1, ElementOfSeq
  <2>2. A[i] \in SavepointType /\ 1 <= A[i].nOrig
    BY <1>1
  <2>3. /\ B[i].nOrig = A[i].nOrig /\ B[i].iOffset = A[i].iOffset
        /\ B[i].iSubRec = A[i].iSubRec
    BY <1>1 DEF Covers
  <2> QED
    BY <2>1, <2>2, <2>3 DEF MarkType, SavepointType
<1>3. A = <<>> => B = <<>>
  BY <1>1, EmptySeq
<1> QED
  BY <1>2, <1>3

\* Savepoints stay inside of journals that grow.
LEMMA MarksStayInside ==
    ASSUME NEW s, Typed(s), MarksInside(s), NEW t, Typed(t),
           \/ t.aSavepoint = s.aSavepoint
           \/ \E n : Covers(s.aSavepoint, t.aSavepoint, n),
           t.journal = s.journal \/ \E r \in RecordType : t.journal = Append(s.journal, r),
           t.sub = s.sub \/ \E r \in RecordType : t.sub = Append(s.sub, r)
    PROVE  MarksInside(t)
<1>1. /\ s.journal \in Seq(RecordType) /\ s.sub \in Seq(RecordType)
      /\ s.aSavepoint \in Seq(MarkType) /\ t.aSavepoint \in Seq(MarkType)
  BY DEF Typed
<1>2. /\ Len(s.journal) \in Nat /\ Len(t.journal) \in Nat
      /\ Len(s.journal) <= Len(t.journal)
  BY <1>1, Appended, LenProperties
<1>3. Len(s.sub) \in Nat /\ Len(t.sub) \in Nat /\ Len(s.sub) <= Len(t.sub)
  BY <1>1, Appended, LenProperties
<1>4. /\ DOMAIN t.aSavepoint = DOMAIN s.aSavepoint
      /\ \A i \in DOMAIN s.aSavepoint :
            /\ t.aSavepoint[i].iOffset = s.aSavepoint[i].iOffset
            /\ t.aSavepoint[i].iSubRec = s.aSavepoint[i].iSubRec
  <2>1. /\ DOMAIN s.aSavepoint = 1..Len(s.aSavepoint)
        /\ DOMAIN t.aSavepoint = 1..Len(t.aSavepoint)
    BY <1>1, LenProperties
  <2> QED
    BY <2>1 DEF Covers
<1>5. \A i \in DOMAIN s.aSavepoint :
         s.aSavepoint[i].iOffset \in Nat /\ s.aSavepoint[i].iSubRec \in Nat
  <2>1. \A i \in DOMAIN s.aSavepoint : s.aSavepoint[i] \in MarkType
    BY <1>1, LenProperties, ElementOfSeq
  <2> QED
    BY <2>1 DEF MarkType
<1>6. ASSUME NEW i \in DOMAIN t.aSavepoint
      PROVE  /\ t.aSavepoint[i].iOffset <= Len(t.journal)
             /\ t.aSavepoint[i].iSubRec <= Len(t.sub)
  <2>1. i \in DOMAIN s.aSavepoint
    BY <1>4
  <2>2. /\ s.aSavepoint[i].iOffset <= Len(s.journal)
        /\ s.aSavepoint[i].iSubRec <= Len(s.sub)
    BY <2>1 DEF MarksInside
  <2> QED
    BY ONLY <1>2, <1>3, <1>4, <1>5, <2>1, <2>2
<1>7. ASSUME NEW i \in DOMAIN t.aSavepoint, NEW j \in DOMAIN t.aSavepoint,
             i <= j
      PROVE  /\ t.aSavepoint[i].iOffset <= t.aSavepoint[j].iOffset
             /\ t.aSavepoint[i].iSubRec <= t.aSavepoint[j].iSubRec
  <2>1. i \in DOMAIN s.aSavepoint /\ j \in DOMAIN s.aSavepoint
    BY <1>4
  <2>2. /\ s.aSavepoint[i].iOffset <= s.aSavepoint[j].iOffset
        /\ s.aSavepoint[i].iSubRec <= s.aSavepoint[j].iSubRec
    BY <1>7, <2>1 DEF MarksInside
  <2> QED
    BY ONLY <1>4, <2>1, <2>2
<1> QED
  BY ONLY <1>6, <1>7 DEF MarksInside

\* pager_write up to the savepoints.
LEMMA SavesSound ==
    ASSUME NEW s, Sound(s), NEW n \in DOMAIN s.cache, NEW u, Saves(s, u, n)
    PROVE  /\ Sound(u) /\ SameFile(s, u) /\ SameOthers(s, u, n)
           /\ u.eState = IF s.eState = PAGER_WRITER_LOCKED
                         THEN PAGER_WRITER_CACHEMOD ELSE s.eState
           /\ u.cache[n].c = s.cache[n].c /\ u.cache[n].dirty
           /\ u.dbSize = s.dbSize /\ u.sub = s.sub
           /\ s.aSavepoint = <<>> => u.aSavepoint = <<>>
<1> DEFINE added == /\ n \notin InJournal(s) /\ n <= s.dbOrigSize
                    /\ u.journal = Append(s.journal, Record(s, n))
                    /\ u.cache[n].needSync
                    /\ Covers(s.aSavepoint, u.aSavepoint, n)
           same == u.journal = s.journal /\ u.aSavepoint = s.aSavepoint
<1>1. /\ Typed(s) /\ InTx(s) /\ JournalOK(s) /\ WriteableOK(s)
      /\ MarksBound(s) /\ CounterOK(s) /\ Below(s)
  BY DEF Sound
<1>2. /\ Typed(u) /\ SameFile(s, u) /\ SameOthers(s, u, n)
      /\ u.eState = IF s.eState = PAGER_WRITER_LOCKED
                    THEN PAGER_WRITER_CACHEMOD ELSE s.eState
      /\ u.dbSize = s.dbSize /\ u.journalHdr = s.journalHdr /\ u.sub = s.sub
      /\ u.cache[n].c = s.cache[n].c
      /\ u.cache[n].dirty /\ u.cache[n].writeable
  BY DEF Saves
<1>3. same \/ added
  BY DEF Saves
<1>4. s.journal \in Seq(RecordType) /\ s.aSavepoint \in Seq(MarkType)
      /\ Record(s, n) \in RecordType /\ Record(s, n).pgno = n
  BY <1>1, RecordTyped DEF Typed
<1>5. added => /\ Len(s.journal) \in Nat /\ DOMAIN s.journal = 1..Len(s.journal)
               /\ DOMAIN u.journal = 1..(Len(s.journal) + 1)
               /\ \A i \in 1..Len(s.journal) : u.journal[i] = s.journal[i]
               /\ u.journal[Len(s.journal) + 1].pgno = n
  BY <1>4, Appended
<1>6. added => BelowRecords(u.journal)
  BY <1>1, <1>4, RecordBelow, BelowAppended DEF Below
<1>7. added => MarksBound(u) /\ (s.aSavepoint = <<>> => u.aSavepoint = <<>>)
  BY <1>1, <1>4, CoversBound DEF MarksBound
<1> HIDE DEF added, same
<1>8. JournalOK(u)
  <2>1. CASE same
    BY <1>1, <1>2, <2>1 DEF JournalOK, same, SameFile
  <2>2. CASE added
    <3>1. \A i \in DOMAIN s.journal : s.journal[i].pgno # n
      BY <2>2 DEF added, InJournal, PagesIn
    <3>2. \A i \in DOMAIN u.journal :
             \/ i = Len(s.journal) + 1 /\ u.journal[i].pgno = n
             \/ i \in DOMAIN s.journal /\ u.journal[i] = s.journal[i]
      BY <1>5, <2>2
    <3>3. \A i \in DOMAIN u.journal : u.journal[i].pgno <= u.dbOrigSize
      <4>1. u.dbOrigSize = s.dbOrigSize /\ n <= s.dbOrigSize
        BY <1>2, <2>2 DEF SameFile, added
      <4> QED
        BY <1>1, <3>2, <4>1 DEF JournalOK
    <3>4. \A i, j \in DOMAIN u.journal :
             u.journal[i].pgno = u.journal[j].pgno => i = j
      BY <1>1, <3>1, <3>2 DEF JournalOK
    <3> QED
      BY <3>3, <3>4 DEF JournalOK
  <2> QED
    BY <1>3, <2>1, <2>2
<1>9. WriteableOK(u) /\ CounterOK(u)
  <2>1. \A i \in DOMAIN u.cache : i \in DOMAIN s.cache /\
            (u.cache[i].writeable => u.cache[i].dirty)
    BY <1>1, <1>2 DEF SameOthers, WriteableOK
  <2>2. 1 \in DOMAIN u.cache => 1 \in DOMAIN s.cache /\ u.cache[1].c = s.cache[1].c
    BY <1>1, <1>2 DEF SameOthers
  <2>3. u.dbFileVers = s.dbFileVers
    BY <1>2 DEF SameFile
  <2> QED
    BY <1>1, <2>1, <2>2, <2>3 DEF WriteableOK, CounterOK
<1>10. Below(u)
  BY <1>1, <1>2, <1>3, <1>6 DEF Below, same, SameFile
<1>11. MarksBound(u) /\ (s.aSavepoint = <<>> => u.aSavepoint = <<>>)
  BY <1>1, <1>3, <1>7 DEF MarksBound, same
<1>13. MarksInside(u)
  <2>1. MarksInside(s)
    BY DEF Sound
  <2>2. u.journal = s.journal \/ \E r \in RecordType : u.journal = Append(s.journal, r)
    BY <1>3, <1>4 DEF same, added
  <2>3. u.aSavepoint = s.aSavepoint \/ \E k : Covers(s.aSavepoint, u.aSavepoint, k)
    BY <1>3 DEF same, added
  <2> QED
    BY ONLY <1>1, <1>2, <2>1, <2>2, <2>3, MarksStayInside
<1>12. /\ InTx(u)
       /\ u.eState # PAGER_WRITER_DBMOD => u.dbOrigSize = u.dbFileSize
       /\ ~u.memDb => ~u.changeCountDone
  BY <1>1, <1>2 DEF Sound, InTx, SameFile
<1> QED
  BY <1>2, <1>8, <1>9, <1>10, <1>11, <1>12, <1>13 DEF Sound

\* subjournalPageIfRequired.
LEMMA SubSavesSound ==
    ASSUME NEW s, Sound(s), s.eState # PAGER_WRITER_LOCKED,
           NEW n \in DOMAIN s.cache, NEW t, SubSaves(s, t, n)
    PROVE  /\ Sound(t) /\ SameFile(s, t) /\ t.eState = s.eState
           /\ t.dbSize = s.dbSize /\ t.cache = s.cache
           /\ s.aSavepoint = <<>> => t.aSavepoint = <<>> /\ t.sub = s.sub
<1> DEFINE added == /\ Requiring(s, n) # {}
                    /\ t.sub = Append(s.sub, Record(s, n))
                    /\ Covers(s.aSavepoint, t.aSavepoint, n)
           same == t.sub = s.sub /\ t.aSavepoint = s.aSavepoint
<1>1. /\ Typed(s) /\ JournalOK(s) /\ WriteableOK(s) /\ MarksBound(s)
      /\ CounterOK(s) /\ Below(s)
  BY DEF Sound
<1>2. /\ Typed(t) /\ SameFile(s, t) /\ t.eState = s.eState
      /\ t.dbSize = s.dbSize /\ t.cache = s.cache
      /\ t.journal = s.journal /\ t.journalHdr = s.journalHdr
  BY DEF SubSaves
<1>3. same \/ added
  BY DEF SubSaves
<1>4. s.sub \in Seq(RecordType) /\ s.aSavepoint \in Seq(MarkType)
      /\ Record(s, n) \in RecordType /\ Record(s, n).pgno = n
  BY <1>1, RecordTyped DEF Typed
<1>5. added => BelowRecords(t.sub)
  BY <1>1, <1>4, RecordBelow, BelowAppended DEF Below
<1>6. added => MarksBound(t)
  BY <1>1, <1>4, CoversBound DEF MarksBound
<1>7. added => s.aSavepoint # <<>>
  BY DEF Requiring
<1> HIDE DEF added, same
<1>8. MarksBound(t) /\ BelowRecords(t.sub)
  BY <1>1, <1>3, <1>5, <1>6 DEF same, MarksBound, Below
<1>9. Below(t) /\ JournalOK(t) /\ WriteableOK(t) /\ CounterOK(t)
  BY <1>1, <1>2, <1>8 DEF Below, JournalOK, WriteableOK, CounterOK, SameFile
<1>12. MarksInside(t)
  <2>1. MarksInside(s)
    BY DEF Sound
  <2>2. t.sub = s.sub \/ \E r \in RecordType : t.sub = Append(s.sub, r)
    BY <1>3, <1>4 DEF same, added
  <2>3. t.aSavepoint = s.aSavepoint \/ \E k : Covers(s.aSavepoint, t.aSavepoint, k)
    BY <1>3 DEF same, added
  <2> QED
    BY ONLY <1>1, <1>2, <2>1, <2>2, <2>3, MarksStayInside
<1>10. /\ InTx(t)
       /\ t.eState # PAGER_WRITER_DBMOD => t.dbOrigSize = t.dbFileSize
       /\ ~t.memDb => ~t.changeCountDone
  BY <1>2 DEF Sound, InTx, SameFile
<1>11. s.aSavepoint = <<>> => t.aSavepoint = <<>> /\ t.sub = s.sub
  BY <1>3, <1>7 DEF same
<1> QED
  BY <1>2, <1>8, <1>9, <1>10, <1>11, <1>12 DEF Sound

\* sqlite3PagerWrite.
LEMMA PagerWriteSound ==
    ASSUME NEW s, Sound(s), NEW n \in DOMAIN s.cache
    PROVE  Writable(s, PagerWrite(s, n), n)
<1> DEFINE u == SavedPage(s, n)
           j == SubJournalled(u, n)
           t == [j EXCEPT !.dbSize = Max({j.dbSize, n})]
<1>1. CASE s.cache[n].writeable /\ n <= s.dbSize
  <2>1. PagerWrite(s, n) = SubJournalled(s, n)
    BY <1>1 DEF PagerWrite
  <2>2. s.eState # PAGER_WRITER_LOCKED
    BY <1>1 DEF Sound, Clean
  <2>3. SubSaves(s, SubJournalled(s, n), n)
    BY SubJournalledFacts DEF Sound
  <2>4. s.dbSize \in Nat /\ n \in Nat /\ s.cache[n].dirty
    BY <1>1 DEF Sound, Typed, IsCache, WriteableOK
  <2>5. ~(n > s.dbSize)
    BY <1>1, <2>4
  <2> QED
    BY <2>1, <2>2, <2>3, <2>4, <2>5, SubSavesSound DEF Writable
<1>2. CASE ~(s.cache[n].writeable /\ n <= s.dbSize)
  <2>1. PagerWrite(s, n) = t
    BY <1>2 DEF PagerWrite, pager_write, SavedPage
  <2>2. Saves(s, u, n)
    BY SavedFacts DEF Sound
  <2> HIDE DEF u
  <2>3. /\ Sound(u) /\ SameFile(s, u) /\ SameOthers(s, u, n)
        /\ u.eState = IF s.eState = PAGER_WRITER_LOCKED
                      THEN PAGER_WRITER_CACHEMOD ELSE s.eState
        /\ u.cache[n].c = s.cache[n].c /\ u.cache[n].dirty
        /\ u.dbSize = s.dbSize /\ u.sub = s.sub
        /\ s.aSavepoint = <<>> => u.aSavepoint = <<>>
    BY <2>2, SavesSound
  <2>4. n \in DOMAIN u.cache
    BY <2>3 DEF SameOthers
  <2>5. SubSaves(u, j, n)
    BY <2>3, <2>4, SubJournalledFacts DEF Sound
  <2> HIDE DEF j
  <2>6. /\ Sound(j) /\ SameFile(u, j) /\ j.eState = u.eState
        /\ j.dbSize = u.dbSize /\ j.cache = u.cache
        /\ u.aSavepoint = <<>> => j.aSavepoint = <<>> /\ j.sub = u.sub
    BY <2>3, <2>4, <2>5, SubSavesSound
  <2>7. s.dbSize \in 0..MaxPage /\ n \in 1..MaxPage /\ MaxPage \in Nat
    BY PagerAssumption DEF Sound, Typed, IsCache
  <2>8. Max({j.dbSize, n}) = IF n > s.dbSize THEN n ELSE s.dbSize
    <3>1. j.dbSize = s.dbSize
      BY <2>3, <2>6
    <3>2. Max({s.dbSize, n}) = IF s.dbSize >= n THEN s.dbSize ELSE n
      BY <2>7, MaxOfTwo
    <3> QED
      BY <2>7, <3>1, <3>2
  <2>9. /\ t.dbSize = Max({j.dbSize, n}) /\ Fields \subseteq DOMAIN t
        /\ SameFile(j, t) /\ SameJournals(j, t) /\ t.eState = j.eState
        /\ t.cache = j.cache
    BY <2>6 DEF Sound, Typed, Fields, SameFile, SameJournals
  <2> HIDE DEF t
  <2>10. t.dbSize \in 0..MaxPage
    BY <2>7, <2>8, <2>9
  <2>11. Typed(t)
    BY <2>6, <2>9, <2>10 DEF Sound, Typed, SameFile, SameJournals
  <2>12. Sound(t)
    BY <2>3, <2>6, <2>9, <2>11
       DEF Sound, InTx, SameFile, SameJournals, JournalOK, WriteableOK,
           MarksBound, MarksInside, CounterOK, Below
  <2>13. SameFile(s, t)
    BY <2>3, <2>6, <2>9 DEF SameFile
  <2>14. /\ DOMAIN t.cache = DOMAIN s.cache /\ t.cache[n].dirty
         /\ \A i \in DOMAIN s.cache : t.cache[i].c = s.cache[i].c
    BY <2>3, <2>6, <2>9 DEF SameOthers
  <2>15. s.aSavepoint = <<>> => t.aSavepoint = <<>> /\ t.sub = s.sub
    BY <2>3, <2>6, <2>9 DEF SameJournals
  <2> QED
    BY <2>1, <2>3, <2>6, <2>8, <2>9, <2>12, <2>13, <2>14, <2>15 DEF Writable
<1> QED
  BY <1>1, <1>2
-----------------------------------------------------------------------------
(* The store, and pages read from it.                                      *)

\* m is a store, which a pager may be writing pages of.
StoreTyped(m) ==
    /\ {"pages", "szMax"} \subseteq DOMAIN m
    /\ m.pages \in Seq(Content) /\ Len(m.pages) <= MaxPage
    /\ m.szMax \in Limits

\* From m to k only the pages may change.
SameLimit(m, k) == StoreTyped(k) /\ k.szMax = m.szMax

\* No page of the store is beyond its size limit.
StoreFits(m) == Len(m.pages) <= m.szMax

\* A page of zeros is a page.
LEMMA ZeroContent ==
    /\ Zero \in Content /\ Zero.vers.counter = 0 /\ Zero.vers.nPage = 0
    /\ Zero.val = 0 /\ Zero.vers \in VersType
BY PagerAssumption DEF Zero, Content, VersType

\* So is whatever is read.
LEMMA ReadContent ==
    ASSUME NEW m, StoreTyped(m), NEW n
    PROVE  Read(m, n) \in Content
<1>1. CASE n \in DOMAIN m.pages
  <2>1. DOMAIN m.pages = 1..Len(m.pages)
    BY LenProperties DEF StoreTyped
  <2>2. m.pages[n] \in Content
    BY <1>1, <2>1, ElementOfSeq DEF StoreTyped
  <2> QED
    BY <1>1, <2>2 DEF Read
<1>2. CASE n \notin DOMAIN m.pages
  BY <1>2, ZeroContent DEF Read
<1> QED
  BY <1>1, <1>2

\* A write changes the pages only.
LEMMA WrittenPages ==
    ASSUME NEW m, {"pages", "szMax"} \subseteq DOMAIN m, NEW W, NEW content
    PROVE  /\ Written(m, W, content).pages
                = [n \in 1..Max(W \cup {Len(m.pages)}) |->
                      IF n \in W THEN content[n] ELSE Read(m, n)]
           /\ Written(m, W, content).szMax = m.szMax
           /\ {"pages", "szMax"} \subseteq DOMAIN Written(m, W, content)
BY DEF Written

\* memdbWrite.
LEMMA WrittenFacts ==
    ASSUME NEW m, StoreTyped(m), NEW W \in SUBSET (1..MaxPage), NEW content,
           \A n \in W : content[n] \in Content
    PROVE  /\ SameLimit(m, Written(m, W, content))
           /\ Len(Written(m, W, content).pages) = Max(W \cup {Len(m.pages)})
           /\ \A n \in 1..Len(Written(m, W, content).pages) :
                 Written(m, W, content).pages[n]
                    = IF n \in W THEN content[n] ELSE Read(m, n)
           /\ StoreFits(m) /\ (\A n \in W : Fits(m, n))
                 => StoreFits(Written(m, W, content))
<1> DEFINE S == W \cup {Len(m.pages)}
           top == Max(S)
           f == [n \in 1..top |-> IF n \in W THEN content[n] ELSE Read(m, n)]
           r == Written(m, W, content)
<1>1. r.pages = f /\ r.szMax = m.szMax /\ {"pages", "szMax"} \subseteq DOMAIN r
  BY WrittenPages DEF StoreTyped
<1>2. S \in SUBSET (0..MaxPage) /\ S # {} /\ MaxPage \in Nat
      /\ Len(m.pages) \in Nat
  <2>1. Len(m.pages) \in Nat /\ Len(m.pages) <= MaxPage /\ MaxPage \in Nat
    BY PagerAssumption, LenProperties DEF StoreTyped
  <2>2. Len(m.pages) \in 0..MaxPage
    BY <2>1
  <2>3. W \in SUBSET (0..MaxPage)
    BY <2>1
  <2> QED
    BY <2>1, <2>2, <2>3
<1>3. top \in S /\ \A x \in S : x <= top
  BY <1>2, MaxFacts
<1> HIDE DEF top
<1>4. top \in 0..MaxPage /\ top \in Nat
  BY <1>2, <1>3
<1>5. f \in [1..top -> Content]
  BY ReadContent
<1>6. f \in Seq(Content) /\ Len(f) = top
  <2> HIDE DEF f
  <2> QED BY <1>4, <1>5, FunctionIsSeq
<1>7. \A n \in 1..top : f[n] = IF n \in W THEN content[n] ELSE Read(m, n)
  OBVIOUS
<1> HIDE DEF f
<1> HIDE DEF r
<1>9. SameLimit(m, r)
  BY <1>4, <1>6, <1>1 DEF SameLimit, StoreTyped
<1>10. StoreFits(m) /\ (\A n \in W : Fits(m, n)) => StoreFits(r)
  BY <1>3, <1>6, <1>1 DEF StoreFits, Fits
<1> QED
  BY <1>1, <1>6, <1>7, <1>9, <1>10 DEF top, r

\* memdbTruncate.
LEMMA ResizedFacts ==
    ASSUME NEW m, StoreTyped(m), NEW n \in 0..MaxPage
    PROVE  /\ SameLimit(m, Resized(m, n)) /\ Len(Resized(m, n).pages) = n
           /\ \A i \in 1..n : Resized(m, n).pages[i] = Read(m, i)
<1> DEFINE f == [i \in 1..n |-> Read(m, i)]
           r == [m EXCEPT !.pages = f]
<1>1. f \in [1..n -> Content] /\ n \in Nat
  BY ReadContent, PagerAssumption
<1>2. \A i \in 1..n : f[i] = Read(m, i)
  OBVIOUS
<1>3. Resized(m, n) = r
  BY DEF Resized
<1> HIDE DEF f
<1>4. f \in Seq(Content) /\ Len(f) = n
  BY <1>1, FunctionIsSeq
<1>5. r.pages = f /\ r.szMax = m.szMax /\ {"pages", "szMax"} \subseteq DOMAIN r
  BY DEF StoreTyped
<1> HIDE DEF r
<1> QED
  BY <1>2, <1>3, <1>4, <1>5 DEF SameLimit, StoreTyped

\* memdbLock leaves the pages alone.
LEMMA LockedFacts ==
    ASSUME NEW m, StoreTyped(m), NEW have, NEW want
    PROVE  SameLimit(m, Locked(m, have, want))
           /\ Locked(m, have, want).pages = m.pages
<1> DEFINE a == CASE want > SHARED_LOCK -> 1
                  [] want <= SHARED_LOCK /\ have > SHARED_LOCK -> 0
                  [] OTHER -> m.nWrLock
           b == CASE want = SHARED_LOCK /\ have = NO_LOCK -> m.nRdLock + 1
                  [] want = NO_LOCK /\ have # NO_LOCK -> m.nRdLock - 1
                  [] OTHER -> m.nRdLock
           k == [m EXCEPT !.nWrLock = a, !.nRdLock = b]
<1>1. Locked(m, have, want) = k
  BY DEF Locked
<1> HIDE DEF a, b
<1>2. k.pages = m.pages /\ k.szMax = m.szMax /\ {"pages", "szMax"} \subseteq DOMAIN k
  BY DEF StoreTyped
<1> HIDE DEF k
<1> QED
  BY <1>1, <1>2 DEF SameLimit, StoreTyped

\* From s to t page n is read into the cache.
Fetches(s, m, t, n) ==
    /\ Typed(t) /\ SameJournals(s, t)
    /\ t.eState = s.eState /\ t.memDb = s.memDb /\ t.eLock = s.eLock
    /\ t.hasHeldSharedLock = s.hasHeldSharedLock
    /\ t.changeCountDone = s.changeCountDone
    /\ t.dbSize = s.dbSize
    /\ t.dbOrigSize = s.dbOrigSize /\ t.dbFileSize = s.dbFileSize
    /\ DOMAIN t.cache = DOMAIN s.cache \cup {n}
    /\ \A i \in DOMAIN s.cache : t.cache[i] = s.cache[i]
    /\ n \notin DOMAIN s.cache =>
          t.cache[n] = CleanPage(IF ~s.memDb /\ n <= s.dbSize
                                 THEN Read(m, n) ELSE Zero)
    /\ t.dbFileVers = IF n \notin DOMAIN s.cache /\ n = 1
                         /\ ~s.memDb /\ n <= s.dbSize
                      THEN Read(m, n).vers ELSE s.dbFileVers

\* getPageNormal.
LEMMA FetchedFacts ==
    ASSUME NEW s, Typed(s), NEW m, StoreTyped(m), NEW n \in 1..MaxPage
    PROVE  Fetches(s, m, Fetched(s, m, n), n)
<1>1. CASE n \in DOMAIN s.cache
  <2>1. Fetched(s, m, n) = s
    BY <1>1 DEF Fetched
  <2> QED
    BY <1>1, <2>1 DEF Fetches, SameJournals
<1>2. CASE n \notin DOMAIN s.cache
  <2> DEFINE onFile == ~s.memDb /\ n <= s.dbSize
             c == IF onFile THEN Read(m, n) ELSE Zero
             cache == [i \in DOMAIN s.cache \cup {n} |->
                          IF i = n THEN CleanPage(c) ELSE s.cache[i]]
             vers == IF onFile /\ n = 1 THEN c.vers ELSE s.dbFileVers
             t == [s EXCEPT !.cache = cache, !.dbFileVers = vers]
  <2>1. Fetched(s, m, n) = t
    BY <1>2 DEF Fetched
  <2>2. c \in Content /\ c.vers \in VersType
    BY ReadContent, ZeroContent DEF Content
  <2>3. vers \in VersType
        /\ vers = IF n \notin DOMAIN s.cache /\ n = 1 /\ ~s.memDb /\ n <= s.dbSize
                  THEN Read(m, n).vers ELSE s.dbFileVers
    BY <1>2, <2>2 DEF Typed
  <2>4. CleanPage(c) \in PageType
    BY <2>2 DEF CleanPage, PageType
  <2>5. /\ DOMAIN cache = DOMAIN s.cache \cup {n} /\ cache[n] = CleanPage(c)
        /\ \A i \in DOMAIN s.cache : cache[i] = s.cache[i]
    BY <1>2
  <2> HIDE DEF cache, vers, c
  <2>6. IsCache(cache)
    BY <2>4, <2>5 DEF Typed, IsCache
  <2>7. /\ t.cache = cache /\ t.dbFileVers = vers /\ SameJournals(s, t)
        /\ t.eState = s.eState /\ t.memDb = s.memDb /\ t.eLock = s.eLock
        /\ t.hasHeldSharedLock = s.hasHeldSharedLock
        /\ t.changeCountDone = s.changeCountDone
        /\ t.dbSize = s.dbSize /\ Fields \subseteq DOMAIN t
        /\ t.dbOrigSize = s.dbOrigSize /\ t.dbFileSize = s.dbFileSize
    BY DEF Typed, Fields, SameJournals
  <2> HIDE DEF t
  <2>8. Typed(t)
    BY <2>3, <2>6, <2>7 DEF Typed, SameJournals
  <2> QED
    BY <1>2, <2>1, <2>3, <2>5, <2>7, <2>8 DEF Fetches, c
<1> QED
  BY <1>1, <1>2

\* In a transaction, page 1 is there, so a page read only joins the cache.
LEMMA FetchedSound ==
    ASSUME NEW s, Sound(s), NEW m, StoreTyped(m), NEW n \in 1..MaxPage,
           1 \in DOMAIN s.cache \/ s.dbSize = 0
    PROVE  /\ Sound(Fetched(s, m, n)) /\ SameFile(s, Fetched(s, m, n))
           /\ SameJournals(s, Fetched(s, m, n))
           /\ Fetched(s, m, n).eState = s.eState
           /\ Fetched(s, m, n).dbSize = s.dbSize
           /\ DOMAIN Fetched(s, m, n).cache = DOMAIN s.cache \cup {n}
           /\ \A i \in DOMAIN s.cache : Fetched(s, m, n).cache[i] = s.cache[i]
<1> DEFINE t == Fetched(s, m, n)
<1>1. Typed(s)
  BY DEF Sound
<1>2. Fetches(s, m, t, n)
  BY <1>1, FetchedFacts
<1> HIDE DEF t
<1>3. SameFile(s, t) /\ SameJournals(s, t) /\ t.eState = s.eState
      /\ t.dbSize = s.dbSize /\ Typed(t)
      /\ DOMAIN t.cache = DOMAIN s.cache \cup {n}
      /\ \A i \in DOMAIN s.cache : t.cache[i] = s.cache[i]
  BY <1>1, <1>2 DEF Fetches, SameFile
<1>4. \A i \in DOMAIN t.cache :
         i \in DOMAIN s.cache \/
         (~t.cache[i].dirty /\ ~t.cache[i].writeable /\ ~t.cache[i].needSync)
  BY <1>2 DEF Fetches, CleanPage
<1>5. (Clean(s) => Clean(t)) /\ WriteableOK(t)
  BY <1>3, <1>4 DEF Clean, WriteableOK, Sound
<1>6. CounterOK(t)
  <2>1. CASE 1 \in DOMAIN s.cache
    BY <1>3, <2>1 DEF Sound, CounterOK, SameFile
  <2>2. CASE 1 \notin DOMAIN s.cache /\ n = 1
    <3>1. t.cache[1].c = Zero
      BY <1>2, <2>2 DEF Fetches, CleanPage
    <3>2. t.dbFileVers.counter \in Nat
      BY <1>3 DEF Typed, VersType
    <3> QED
      BY <3>1, <3>2, ZeroContent DEF CounterOK
  <2>3. CASE 1 \notin DOMAIN s.cache /\ n # 1
    BY <1>3, <2>3 DEF CounterOK
  <2> QED
    BY <2>1, <2>2, <2>3
<1>7. Sound(t)
  BY <1>1, <1>3, <1>5, <1>6
     DEF Sound, InTx, Blank, SameFile, SameJournals, JournalOK, MarksBound,
         MarksInside, Below
<1> QED
  BY <1>3, <1>7 DEF t

\* The content of page n changes, its flags do not.
Edits(s, t, n, c) ==
    /\ Fields \subseteq DOMAIN t /\ SameFile(s, t) /\ SameJournals(s, t)
    /\ SameOthers(s, t, n)
    /\ t.eState = s.eState /\ t.dbSize = s.dbSize
    /\ t.cache[n] = [s.cache[n] EXCEPT !.c = c]

\* Assigning the content of a page.
LEMMA EditFacts ==
    ASSUME NEW s, Typed(s), NEW n \in DOMAIN s.cache, NEW c
    PROVE  Edits(s, [s EXCEPT !.cache[n].c = c], n, c)
<1> DEFINE cache == [s.cache EXCEPT ![n] = [s.cache[n] EXCEPT !.c = c]]
           t == [s EXCEPT !.cache = cache]
<1>1. [s EXCEPT !.cache[n].c = c] = t
  OBVIOUS
<1>2. /\ DOMAIN cache = DOMAIN s.cache
      /\ cache[n] = [s.cache[n] EXCEPT !.c = c]
      /\ \A i \in DOMAIN s.cache \ {n} : cache[i] = s.cache[i]
  OBVIOUS
<1> HIDE DEF cache
<1>3. /\ Fields \subseteq DOMAIN t /\ SameFile(s, t) /\ SameJournals(s, t)
      /\ t.eState = s.eState /\ t.dbSize = s.dbSize /\ t.cache = cache
  BY DEF Typed, Fields, SameFile, SameJournals
<1> HIDE DEF t
<1> QED
  BY <1>1, <1>2, <1>3 DEF Edits, SameOthers

\* A writable page of a transaction gets another content.
LEMMA EditSound ==
    ASSUME NEW s, Sound(s), s.eState # PAGER_WRITER_LOCKED,
           NEW n \in DOMAIN s.cache, NEW c \in Content, NEW t, Edits(s, t, n, c),
           n = 1 => c.vers.counter <= s.dbFileVers.counter
    PROVE  /\ Sound(t) /\ SameFile(s, t) /\ SameJournals(s, t)
           /\ t.eState = s.eState /\ t.dbSize = s.dbSize
           /\ DOMAIN t.cache = DOMAIN s.cache
           /\ t.cache[n].c = c /\ t.cache[n].dirty = s.cache[n].dirty
           /\ \A i \in DOMAIN s.cache \ {n} : t.cache[i] = s.cache[i]
<1>1. Typed(s) /\ WriteableOK(s) /\ s.cache[n] \in PageType /\ IsCache(s.cache)
  BY DEF Sound, Typed, IsCache
<1>2. /\ t.cache[n] \in PageType /\ t.cache[n].c = c
      /\ t.cache[n].dirty = s.cache[n].dirty
      /\ t.cache[n].writeable = s.cache[n].writeable
  BY <1>1 DEF Edits, PageType
<1>3. IsCache(t.cache)
  BY <1>1, <1>2, CacheExcept DEF Edits, SameOthers
<1>4. Typed(t)
  BY <1>1, <1>3 DEF Edits, Typed, SameFile, SameJournals
<1>5. WriteableOK(t)
  BY <1>1, <1>2 DEF WriteableOK, Edits, SameOthers
<1>6. CounterOK(t)
  BY <1>2 DEF CounterOK, Sound, Edits, SameOthers, SameFile
<1>7. Sound(t)
  BY <1>4, <1>5, <1>6
     DEF Sound, Edits, InTx, SameFile, SameJournals, JournalOK, MarksBound,
         MarksInside, Below
<1> QED
  BY <1>2, <1>7 DEF Edits, SameOthers
-----------------------------------------------------------------------------
(* The calls that write page 1 on the way.                                 *)

\* Page 1 is read and made writable.
FirstPage(s, m) == PagerWrite(Fetched(s, m, 1), 1)

\* It stays a transaction, which now has page 1 dirty in its cache.
LEMMA FirstPageSound ==
    ASSUME NEW s, Sound(s), NEW m, StoreTyped(m),
           1 \in DOMAIN s.cache \/ s.dbSize = 0
    PROVE  /\ Sound(FirstPage(s, m)) /\ SameFile(s, FirstPage(s, m))
           /\ FirstPage(s, m).eState = IF s.eState = PAGER_WRITER_LOCKED
                                       THEN PAGER_WRITER_CACHEMOD ELSE s.eState
           /\ DOMAIN FirstPage(s, m).cache = DOMAIN s.cache \cup {1}
           /\ FirstPage(s, m).cache[1].dirty
           /\ FirstPage(s, m).dbSize = IF s.dbSize = 0 THEN 1 ELSE s.dbSize
           /\ \A i \in DOMAIN s.cache :
                 FirstPage(s, m).cache[i].c = s.cache[i].c
           /\ s.aSavepoint = <<>> => FirstPage(s, m).aSavepoint = <<>>
                                     /\ FirstPage(s, m).sub = s.sub
<1> DEFINE f == Fetched(s, m, 1)
           t == FirstPage(s, m)
<1>1. 1 \in 1..MaxPage /\ s.dbSize \in Nat
  BY PagerAssumption DEF Sound, Typed
<1>2. /\ Sound(f) /\ SameFile(s, f) /\ SameJournals(s, f)
      /\ f.eState = s.eState /\ f.dbSize = s.dbSize
      /\ DOMAIN f.cache = DOMAIN s.cache \cup {1}
      /\ \A i \in DOMAIN s.cache : f.cache[i] = s.cache[i]
  BY <1>1, FetchedSound
<1>3. t = PagerWrite(f, 1)
  BY DEF FirstPage
<1> HIDE DEF f, t
<1>4. Writable(f, t, 1)
  BY <1>2, <1>3, PagerWriteSound
<1>5. t.dbSize = IF s.dbSize = 0 THEN 1 ELSE s.dbSize
  BY <1>1, <1>2, <1>4 DEF Writable
<1>6. SameFile(s, t)
  BY <1>2, <1>4 DEF Writable, SameFile
<1>7. s.aSavepoint = <<>> => t.aSavepoint = <<>> /\ t.sub = s.sub
  BY <1>2, <1>4 DEF Writable, SameJournals
<1> QED
  BY <1>2, <1>4, <1>5, <1>6, <1>7 DEF Writable, t

\* newDatabase.
LEMMA NewDatabaseSound ==
    ASSUME NEW s, Sound(s), NEW m, StoreTyped(m),
           s.dbSize > 0 => 1 \in DOMAIN s.cache,
           s.dbSize = 0 => s.aSavepoint = <<>>
    PROVE  /\ Sound(NewDatabase(s, m)) /\ SameFile(s, NewDatabase(s, m))
           /\ 1 \in DOMAIN NewDatabase(s, m).cache
           /\ NewDatabase(s, m).sub = s.sub
           /\ NewDatabase(s, m).dbSize = IF s.dbSize = 0 THEN 1 ELSE s.dbSize
           /\ NewDatabase(s, m).eState
                 = IF s.dbSize = 0 /\ s.eState = PAGER_WRITER_LOCKED
                   THEN PAGER_WRITER_CACHEMOD ELSE s.eState
<1> DEFINE w == FirstPage(s, m)
           c == [val |-> 0, vers |-> [counter |-> 0, nPage |-> 1]]
           t == [w EXCEPT !.cache[1].c = c]
<1>1. s.dbSize \in Nat
  BY DEF Sound, Typed
<1>2. CASE s.dbSize > 0
  <2>1. NewDatabase(s, m) = s
    BY <1>2 DEF NewDatabase
  <2> QED
    BY <1>1, <1>2, <2>1 DEF SameFile
<1>3. CASE s.dbSize = 0
  <2>1. NewDatabase(s, m) = t
    BY <1>3 DEF NewDatabase, FirstPage
  <2>2. /\ Sound(w) /\ SameFile(s, w)
        /\ w.eState = IF s.eState = PAGER_WRITER_LOCKED
                      THEN PAGER_WRITER_CACHEMOD ELSE s.eState
        /\ DOMAIN w.cache = DOMAIN s.cache \cup {1}
        /\ w.dbSize = IF s.dbSize = 0 THEN 1 ELSE s.dbSize
        /\ s.aSavepoint = <<>> => w.aSavepoint = <<>> /\ w.sub = s.sub
    BY <1>3, FirstPageSound
  <2> HIDE DEF w
  <2>3. c \in Content /\ c.vers.counter = 0
    BY PagerAssumption DEF Content, VersType
  <2>4. 1 \in DOMAIN w.cache /\ w.eState # PAGER_WRITER_LOCKED
        /\ w.dbFileVers.counter \in Nat
    BY <2>2 DEF Sound, Typed, VersType
  <2> HIDE DEF c
  <2>7. c.vers.counter <= w.dbFileVers.counter
    BY <2>3, <2>4
  <2>5. Edits(w, t, 1, c)
    BY <2>2, <2>4, EditFacts DEF Sound
  <2> HIDE DEF t
  <2>6. /\ Sound(t) /\ SameFile(w, t) /\ SameJournals(w, t)
        /\ t.eState = w.eState /\ t.dbSize = w.dbSize
        /\ DOMAIN t.cache = DOMAIN w.cache
    <3>1. c \in Content /\ Sound(w) /\ w.eState # PAGER_WRITER_LOCKED
          /\ 1 \in DOMAIN w.cache
      BY <2>2, <2>3, <2>4
    <3> QED
      BY ONLY <3>1, <2>5, <2>7, EditSound
  <2> QED
    BY <1>3, <2>1, <2>2, <2>4, <2>6 DEF SameFile, SameJournals
<1> QED
  BY <1>1, <1>2, <1>3

\* autoVacuumCommit.
LEMMA VacuumedSound ==
    ASSUME NEW s, Sound(s), s.eState # PAGER_WRITER_LOCKED,
           1 \in DOMAIN s.cache, NEW m, StoreTyped(m),
           NEW size \in 1..MaxPage, 1 <= s.dbSize
    PROVE  /\ Sound(Vacuumed(s, m, size)) /\ SameFile(s, Vacuumed(s, m, size))
           /\ 1 \in DOMAIN Vacuumed(s, m, size).cache
           /\ Vacuumed(s, m, size).dbSize = size
           /\ Vacuumed(s, m, size).eState = s.eState
<1> DEFINE w == FirstPage(s, m)
           c == [w.cache[1].c EXCEPT !.vers.nPage = size]
           e == [w EXCEPT !.cache[1].c = c]
           t == [e EXCEPT !.dbSize = size]
<1>1. CASE size = s.dbSize
  BY <1>1 DEF Vacuumed, SameFile
<1>2. CASE size # s.dbSize
  <2>1. Vacuumed(s, m, size) = t
    BY <1>2 DEF Vacuumed, FirstPage
  <2>2. /\ Sound(w) /\ SameFile(s, w) /\ w.eState = s.eState
        /\ DOMAIN w.cache = DOMAIN s.cache \cup {1}
    BY FirstPageSound
  <2> HIDE DEF w
  <2>3. w.cache[1].c \in Content /\ 1 \in DOMAIN w.cache
    BY <2>2 DEF Sound, Typed, IsCache, PageType
  <2>4. c \in Content /\ c.vers.counter = w.cache[1].c.vers.counter
    BY <2>3 DEF Content, VersType
  <2>5. c.vers.counter <= w.dbFileVers.counter
    BY <2>2, <2>3, <2>4 DEF Sound, CounterOK
  <2> HIDE DEF c
  <2>6. Edits(w, e, 1, c)
    BY <2>2, <2>3, EditFacts DEF Sound
  <2> HIDE DEF e
  <2>7. /\ Sound(e) /\ SameFile(w, e) /\ e.eState = w.eState
        /\ DOMAIN e.cache = DOMAIN w.cache
    BY <2>2, <2>3, <2>4, <2>5, <2>6, EditSound
  <2>8. /\ SameFile(e, t) /\ SameJournals(e, t) /\ t.eState = e.eState
        /\ t.dbSize = size /\ t.cache = e.cache /\ Fields \subseteq DOMAIN t
    BY <2>7 DEF Sound, Typed, Fields, SameFile, SameJournals
  <2> HIDE DEF t
  <2>11. t.dbSize \in 0..MaxPage
    BY <2>8
  <2>12. Typed(t)
    BY <2>7, <2>8, <2>11 DEF Sound, Typed, SameFile, SameJournals
  <2>9. Sound(t)
    BY <2>2, <2>7, <2>8, <2>12
       DEF Sound, InTx, SameFile, SameJournals, JournalOK, WriteableOK,
           MarksBound, MarksInside, CounterOK, Below
  <2>10. SameFile(s, t)
    BY <2>2, <2>7, <2>8 DEF SameFile
  <2> QED
    BY <2>1, <2>2, <2>3, <2>7, <2>8, <2>9, <2>10
<1> QED
  BY <1>1, <1>2
-----------------------------------------------------------------------------
(* Writing to the store.                                                   *)

\* A pager that writes its pages to the store at the end of a transaction.
Committing(s) ==
    /\ Typed(s) /\ ~s.memDb
    /\ JournalOK(s) /\ MarksBound(s)
    /\ 1 \in DOMAIN s.cache /\ s.cache[1].dirty
    /\ s.dbFileVers.counter < MaxVer

\* pager_incr_changecounter.
LEMMA CountedFacts ==
    ASSUME NEW s, Sound(s), s.eState # PAGER_WRITER_LOCKED, ~s.memDb,
           1 \in DOMAIN s.cache, NEW m, StoreTyped(m), 1 <= s.dbSize
    PROVE  /\ Committing(Counted(s, m)) /\ Counted(s, m).eState = s.eState
           /\ Counted(s, m).dbSize = s.dbSize
           /\ Counted(s, m).dbOrigSize = s.dbOrigSize
           /\ Counted(s, m).dbFileSize = s.dbFileSize
<1> DEFINE w == FirstPage(s, m)
           c == [w.cache[1].c EXCEPT !.vers.counter = w.dbFileVers.counter + 1]
           e == [w EXCEPT !.cache[1].c = c]
           t == [e EXCEPT !.changeCountDone = TRUE]
<1>1. ~s.changeCountDone /\ s.dbSize \in Nat
  BY DEF Sound, Typed
<1>2. Counted(s, m) = t
  BY <1>1 DEF Counted, ChangeCounter, FirstPage
<1>3. /\ Sound(w) /\ SameFile(s, w) /\ w.eState = s.eState
      /\ 1 \in DOMAIN w.cache /\ w.cache[1].dirty /\ w.dbSize = s.dbSize
  BY <1>1, FirstPageSound
<1> HIDE DEF w
<1>4. w.cache[1] \in PageType /\ w.cache[1].c \in Content
  BY <1>3 DEF Sound, Typed, IsCache, PageType
<1>5. w.dbFileVers.counter + 1 \in 0..MaxVer /\ w.dbFileVers.counter < MaxVer
  <2>1. w.dbFileVers.counter \in 0..MaxVer /\ w.dbFileVers.counter < MaxVer
    BY <1>3 DEF Sound, Below, Typed, VersType
  <2> QED
    BY <2>1, PagerAssumption
<1>6. c \in Content
  BY <1>4, <1>5 DEF Content, VersType
<1> HIDE DEF c
<1>7. Edits(w, e, 1, c)
  BY <1>3, EditFacts DEF Sound
<1> HIDE DEF e
<1>8. e.cache[1] \in PageType /\ e.cache[1].dirty
  BY <1>3, <1>4, <1>6, <1>7 DEF Edits, PageType
<1>9. IsCache(e.cache) /\ 1 \in DOMAIN e.cache
  BY <1>3, <1>7, <1>8, CacheExcept DEF Sound, Typed, Edits, SameOthers
<1>10. Typed(e) /\ e.eState = s.eState /\ e.dbSize = s.dbSize
  BY <1>3, <1>7, <1>9 DEF Sound, Typed, Edits, SameFile, SameJournals
<1>11. /\ t.memDb = e.memDb /\ t.eLock = e.eLock
       /\ t.hasHeldSharedLock = e.hasHeldSharedLock /\ t.changeCountDone = TRUE
       /\ t.dbFileVers = e.dbFileVers /\ t.dbOrigSize = e.dbOrigSize
       /\ t.dbFileSize = e.dbFileSize /\ SameJournals(e, t)
       /\ t.eState = e.eState /\ t.dbSize = e.dbSize /\ t.cache = e.cache
       /\ Fields \subseteq DOMAIN t
  BY <1>10 DEF Typed, Fields, SameJournals
<1> HIDE DEF t
<1>12. Typed(t)
  BY <1>10, <1>11 DEF Typed, SameJournals
<1>13. JournalOK(t) /\ MarksBound(t)
  BY <1>3, <1>7, <1>11
     DEF Sound, Edits, SameJournals, SameFile, JournalOK, MarksBound
<1>14. t.dbOrigSize = s.dbOrigSize /\ t.dbFileSize = s.dbFileSize /\ ~t.memDb
       /\ t.dbFileVers = w.dbFileVers
  BY <1>3, <1>7, <1>11 DEF Edits, SameFile
<1> QED
  BY <1>2, <1>5, <1>8, <1>9, <1>10, <1>11, <1>12, <1>13, <1>14 DEF Committing

\* syncJournal.
Syncs(s, m, t, k) ==
    /\ Typed(t) /\ SameLimit(m, k) /\ k.pages = m.pages
    /\ t.eState = PAGER_WRITER_DBMOD /\ t.eLock = EXCLUSIVE_LOCK
    /\ t.memDb = s.memDb /\ t.hasHeldSharedLock = s.hasHeldSharedLock
    /\ t.changeCountDone = s.changeCountDone /\ t.dbFileVers = s.dbFileVers
    /\ t.dbSize = s.dbSize /\ t.dbOrigSize = s.dbOrigSize
    /\ t.dbFileSize = s.dbFileSize
    /\ t.journal = s.journal /\ t.journalHdr = Len(s.journal)
    /\ t.sub = s.sub /\ t.aSavepoint = s.aSavepoint
    /\ DOMAIN t.cache = DOMAIN s.cache
    /\ \A n \in DOMAIN s.cache :
          /\ t.cache[n].c = s.cache[n].c /\ t.cache[n].dirty = s.cache[n].dirty
          /\ t.cache[n].writeable = s.cache[n].writeable
          /\ ~t.cache[n].needSync

\* syncJournal does what Syncs says.
LEMMA SyncFacts ==
    ASSUME NEW s, Typed(s), NEW m, StoreTyped(m)
    PROVE  Syncs(s, m, syncJournal(s, m).s, syncJournal(s, m).m)
<1> DEFINE cache == ClearSyncFlags(s.cache)
           len == Len(s.journal)
           t == [s EXCEPT !.eState = PAGER_WRITER_DBMOD,
                     !.eLock = EXCLUSIVE_LOCK,
                     !.journalHdr = len, !.cache = cache]
           k == Locked(m, s.eLock, EXCLUSIVE_LOCK)
<1>1. syncJournal(s, m) = [s |-> t, m |-> k]
  BY DEF syncJournal
<1>2. SameLimit(m, k) /\ k.pages = m.pages
  BY LockedFacts
<1>3. len \in Nat
  BY LenProperties DEF Typed
<1>4. /\ DOMAIN cache = DOMAIN s.cache
      /\ \A n \in DOMAIN s.cache :
            cache[n] = [s.cache[n] EXCEPT !.needSync = FALSE]
  BY DEF ClearSyncFlags
<1> HIDE DEF cache, k, len
<1>5. \A n \in DOMAIN s.cache :
          /\ cache[n].c = s.cache[n].c /\ cache[n].dirty = s.cache[n].dirty
          /\ cache[n].writeable = s.cache[n].writeable
          /\ ~cache[n].needSync /\ cache[n] \in PageType
  BY <1>4 DEF Typed, IsCache, PageType
<1>6. /\ t.eState = PAGER_WRITER_DBMOD /\ t.eLock = EXCLUSIVE_LOCK
      /\ t.memDb = s.memDb /\ t.hasHeldSharedLock = s.hasHeldSharedLock
      /\ t.changeCountDone = s.changeCountDone /\ t.dbFileVers = s.dbFileVers
      /\ t.dbSize = s.dbSize /\ t.dbOrigSize = s.dbOrigSize
      /\ t.dbFileSize = s.dbFileSize
      /\ t.journal = s.journal /\ t.journalHdr = len
      /\ t.sub = s.sub /\ t.aSavepoint = s.aSavepoint /\ t.cache = cache
      /\ Fields \subseteq DOMAIN t
  BY DEF Typed, Fields
<1> HIDE DEF t
<1>7. IsCache(cache)
  BY <1>4, <1>5 DEF Typed, IsCache
<1>8. t.journalHdr \in 0..Len(t.journal)
  BY <1>3, <1>6 DEF len
<1>9. Typed(t)
  BY <1>6, <1>7, <1>8 DEF Typed
<1> QED
  BY <1>1, <1>2, <1>4, <1>5, <1>6, <1>9 DEF Syncs, len

\* The greatest of some pages and a size.
LEMMA MaxWith ==
    ASSUME NEW W \in SUBSET (1..MaxPage), NEW size \in 0..MaxPage
    PROVE  /\ Max(W \cup {size}) \in 0..MaxPage /\ Max(W \cup {size}) >= size
           /\ \A n \in W : n <= Max(W \cup {size})
           /\ Max(W \cup {size}) \in W \cup {size}
           /\ \A k \in Nat : size <= k /\ (\A n \in W : n <= k)
                             => Max(W \cup {size}) <= k
           /\ W = {} => Max(W \cup {size}) = size
<1> DEFINE S == W \cup {size}
<1>1. MaxPage \in Nat /\ size \in Nat
  BY PagerAssumption
<1>2. S \in SUBSET (0..MaxPage) /\ S # {}
  BY <1>1
<1>3. Max(S) \in S /\ \A x \in S : x <= Max(S)
  BY <1>1, <1>2, MaxFacts
<1>4. Max(S) \in 0..MaxPage
  BY <1>2, <1>3
<1> QED
  BY <1>1, <1>3, <1>4

\* The pages pager_write_pagelist writes.
Wanted(s, pages) == pages \cap 1..s.dbSize

\* Those of them the store takes.
Taken(s, m, pages) == {n \in Wanted(s, pages) : Fits(m, n)}

\* pager_write_pagelist.
WritesPages(s, m, pages, w) ==
    /\ Typed(w.s) /\ SameLimit(m, w.m) /\ SameJournals(s, w.s)
    /\ w.s.eState = s.eState /\ w.s.memDb = s.memDb /\ w.s.eLock = s.eLock
    /\ w.s.hasHeldSharedLock = s.hasHeldSharedLock
    /\ w.s.changeCountDone = s.changeCountDone
    /\ w.s.dbSize = s.dbSize /\ w.s.dbOrigSize = s.dbOrigSize
    /\ w.s.dbFileSize = Max(Taken(s, m, pages) \cup {s.dbFileSize})
    /\ SameOthers(s, w.s, 1)
    /\ 1 \notin Taken(s, m, pages) =>
          w.s.cache = s.cache /\ w.s.dbFileVers = s.dbFileVers
    /\ 1 \in Taken(s, m, pages) =>
          /\ w.s.cache[1] = [s.cache[1] EXCEPT !.c.vers.counter =
                                s.dbFileVers.counter + 1]
          /\ w.s.dbFileVers = w.s.cache[1].c.vers
    /\ w.m = Written(m, Taken(s, m, pages),
                     [n \in Taken(s, m, pages) |-> w.s.cache[n].c])
    /\ w.ok = (Taken(s, m, pages) = Wanted(s, pages))

\* It does what WritesPages says.
LEMMA WritePagesFacts ==
    ASSUME NEW s, Typed(s), NEW m, StoreTyped(m),
           NEW pages, pages \subseteq DOMAIN s.cache,
           1 \in pages => s.dbFileVers.counter < MaxVer
    PROVE  WritesPages(s, m, pages, WritePages(s, m, pages))
<1> DEFINE wanted == pages \cap 1..s.dbSize
           taken == {n \in wanted : Fits(m, n)}
           c == [s.cache[1].c EXCEPT !.vers.counter = s.dbFileVers.counter + 1]
           t == IF 1 \in taken THEN ChangeCounter(s) ELSE s
           size == Max(taken \cup {t.dbFileSize})
           vers == IF 1 \in taken THEN t.cache[1].c.vers ELSE t.dbFileVers
           u == [t EXCEPT !.dbFileVers = vers, !.dbFileSize = size]
           k == Written(m, taken, [n \in taken |-> t.cache[n].c])
           ok == taken = wanted
<1>1. WritePages(s, m, pages) = [s |-> u, m |-> k, ok |-> ok]
  BY DEF WritePages
<1>2. wanted = Wanted(s, pages) /\ taken = Taken(s, m, pages)
  BY DEF Wanted, Taken
<1>3. taken \in SUBSET (1..MaxPage) /\ taken \subseteq DOMAIN s.cache
      /\ taken \subseteq pages
  BY DEF Typed, IsCache
<1> HIDE DEF wanted, taken
<1>4. /\ Typed(t) /\ SameFile(s, t) /\ SameJournals(s, t)
      /\ t.eState = s.eState /\ t.dbSize = s.dbSize /\ SameOthers(s, t, 1)
      /\ 1 \notin taken => t = s
      /\ 1 \in taken => t.cache[1] = [s.cache[1] EXCEPT !.c = c]
  <2>1. CASE 1 \notin taken
    BY <2>1 DEF SameFile, SameJournals, SameOthers
  <2>2. CASE 1 \in taken
    <3>1. t = [s EXCEPT !.cache[1].c = c]
      BY <2>2 DEF ChangeCounter
    <3>2. 1 \in DOMAIN s.cache /\ s.cache[1] \in PageType
      BY <1>3, <2>2 DEF Typed, IsCache
    <3>3. s.dbFileVers.counter + 1 \in 0..MaxVer
      <4>1. s.dbFileVers.counter \in 0..MaxVer /\ s.dbFileVers.counter < MaxVer
        BY <1>3, <2>2 DEF Typed, VersType
      <4> QED
        BY <4>1, PagerAssumption
    <3>4. c \in Content
      BY <3>2, <3>3 DEF PageType, Content, VersType
    <3> HIDE DEF c
    <3>5. Edits(s, t, 1, c)
      BY <3>1, <3>2, EditFacts
    <3> HIDE DEF t
    <3>6. t.cache[1] \in PageType
      BY <3>2, <3>4, <3>5 DEF Edits, PageType
    <3>7. IsCache(t.cache)
      BY <3>2, <3>5, <3>6, CacheExcept DEF Typed, Edits, SameOthers
    <3> QED
      BY <2>2, <3>5, <3>7 DEF Typed, Edits, SameFile, SameJournals
  <2> QED
    BY <2>1, <2>2
<1>5. 1 \in taken => t.cache[1] = [s.cache[1] EXCEPT !.c.vers.counter =
                                      s.dbFileVers.counter + 1]
  BY <1>4
<1> HIDE DEF t, c
<1>6. vers \in VersType
  <2>1. CASE 1 \notin taken
    BY <1>4, <2>1 DEF Typed
  <2>2. CASE 1 \in taken
    <3>1. t.cache[1] \in PageType
      BY <1>3, <1>4, <2>2 DEF Typed, IsCache, SameOthers
    <3> QED
      BY <2>2, <3>1 DEF PageType, Content
  <2> QED
    BY <2>1, <2>2
<1>7. t.dbFileSize = s.dbFileSize /\ s.dbFileSize \in 0..MaxPage
      /\ t.dbFileVers = s.dbFileVers
  BY <1>4 DEF SameFile, Typed
<1>8. size \in 0..MaxPage /\ size = Max(taken \cup {s.dbFileSize})
  BY <1>3, <1>7, MaxWith
<1>9. vers = IF 1 \in taken THEN t.cache[1].c.vers ELSE s.dbFileVers
  BY <1>7
<1> HIDE DEF size, vers
<1>10. /\ u.dbFileVers = vers /\ u.dbFileSize = size /\ SameJournals(t, u)
       /\ u.cache = t.cache /\ u.memDb = t.memDb /\ u.eLock = t.eLock
       /\ u.hasHeldSharedLock = t.hasHeldSharedLock
       /\ u.changeCountDone = t.changeCountDone /\ u.eState = t.eState
       /\ u.dbSize = t.dbSize /\ u.dbOrigSize = t.dbOrigSize
       /\ Fields \subseteq DOMAIN u
  BY <1>4 DEF Typed, Fields, SameJournals
<1> HIDE DEF u
<1>11. Typed(u)
  BY <1>4, <1>6, <1>8, <1>10 DEF Typed, SameJournals
<1>12. \A n \in taken : t.cache[n].c \in Content
  BY <1>3, <1>4 DEF Typed, IsCache, PageType, SameOthers
<1>13. SameLimit(m, k)
  <2> DEFINE content == [n \in taken |-> t.cache[n].c]
  <2>1. \A n \in taken : content[n] \in Content
    BY <1>12
  <2> HIDE DEF content
  <2>2. SameLimit(m, Written(m, taken, content))
    BY <1>3, <2>1, WrittenFacts
  <2> QED
    BY <2>2 DEF content
<1>14. k = Written(m, taken, [n \in taken |-> u.cache[n].c])
  BY <1>10
<1> HIDE DEF k, ok
<1>15. /\ WritePages(s, m, pages).s = u /\ WritePages(s, m, pages).m = k
       /\ WritePages(s, m, pages).ok = ok
  BY <1>1
<1>16. /\ SameJournals(s, u) /\ SameOthers(s, u, 1)
       /\ u.eState = s.eState /\ u.memDb = s.memDb /\ u.eLock = s.eLock
       /\ u.hasHeldSharedLock = s.hasHeldSharedLock
       /\ u.changeCountDone = s.changeCountDone
       /\ u.dbSize = s.dbSize /\ u.dbOrigSize = s.dbOrigSize
  BY <1>4, <1>10 DEF SameFile, SameJournals, SameOthers
<1>17. /\ 1 \notin taken => u.cache = s.cache /\ u.dbFileVers = s.dbFileVers
       /\ 1 \in taken => /\ u.cache[1] = [s.cache[1] EXCEPT !.c.vers.counter =
                                             s.dbFileVers.counter + 1]
                         /\ u.dbFileVers = u.cache[1].c.vers
  BY <1>4, <1>5, <1>9, <1>10
<1> QED
  BY <1>2, <1>8, <1>10, <1>11, <1>13, <1>14, <1>15, <1>16, <1>17
     DEF WritesPages, ok
-----------------------------------------------------------------------------
(* Playing journals back.                                                  *)

\* A record to be played back.
PlayType == [pgno : 1..MaxPage, c : Content, safe : BOOLEAN]

\* The record of page n that is played back, the later ones being skipped.
First(records, n) ==
    records[Min({i \in DOMAIN records : records[i].pgno = n})]

\* The first record of a page is a record of it, before all others of it.
LEMMA FirstFacts ==
    ASSUME NEW records \in Seq(PlayType), NEW n \in PagesIn(records)
    PROVE  /\ \E i \in DOMAIN records :
                 /\ First(records, n) = records[i]
                 /\ \A j \in DOMAIN records : records[j].pgno = n => i <= j
           /\ First(records, n) \in PlayType /\ First(records, n).pgno = n
<1> DEFINE S == {i \in DOMAIN records : records[i].pgno = n}
<1>1. DOMAIN records = 1..Len(records) /\ Len(records) \in Nat
  BY LenProperties
<1>2. S \in SUBSET Nat /\ S # {}
  BY <1>1 DEF PagesIn
<1>3. Min(S) \in S /\ \A x \in S : Min(S) <= x
  BY <1>2, MinFacts
<1>4. records[Min(S)] \in PlayType
  BY <1>1, <1>3, ElementOfSeq
<1> QED
  BY <1>3, <1>4 DEF First

\* The pages that are played back.
Pages(s, records) == PagesIn(records) \cap 1..s.dbSize

\* Those that are written to the store.
StoredPages(s, records) ==
    {n \in Pages(s, records) : First(records, n).safe /\ ~s.memDb
                               /\ s.eState >= PAGER_WRITER_DBMOD}

\* pager_playback_one_page.
Plays(s, m, records, r) ==
    /\ Typed(r.s) /\ SameLimit(m, r.m) /\ SameJournals(s, r.s)
    /\ r.s.eState = s.eState /\ r.s.memDb = s.memDb /\ r.s.eLock = s.eLock
    /\ r.s.hasHeldSharedLock = s.hasHeldSharedLock
    /\ r.s.changeCountDone = s.changeCountDone
    /\ r.s.dbSize = s.dbSize /\ r.s.dbOrigSize = s.dbOrigSize
    /\ r.s.dbFileSize = Max(StoredPages(s, records) \cup {s.dbFileSize})
    /\ DOMAIN r.s.cache = DOMAIN s.cache
    /\ \A n \in DOMAIN s.cache :
          r.s.cache[n] = IF n \in Pages(s, records)
                         THEN [s.cache[n] EXCEPT !.c = First(records, n).c]
                         ELSE s.cache[n]
    /\ r.s.dbFileVers = IF 1 \in Pages(s, records)
                        THEN First(records, 1).c.vers ELSE s.dbFileVers
    /\ r.m = Written(m, StoredPages(s, records),
                     [n \in StoredPages(s, records) |-> First(records, n).c])
    /\ r.ok = \A n \in StoredPages(s, records) : Fits(m, n)

\* Playing back does what Plays says.
LEMMA PlaybackFacts ==
    ASSUME NEW s, Typed(s), NEW m, StoreTyped(m), NEW records \in Seq(PlayType)
    PROVE  Plays(s, m, records, Playback(s, m, records))
<1> DEFINE pages == Pages(s, records)
           stored == StoredPages(s, records)
           cache == [n \in DOMAIN s.cache |->
                        IF n \in pages
                        THEN [s.cache[n] EXCEPT !.c = First(records, n).c]
                        ELSE s.cache[n]]
           size == Max(stored \cup {s.dbFileSize})
           vers == IF 1 \in pages THEN First(records, 1).c.vers ELSE s.dbFileVers
           u == [s EXCEPT !.cache = cache, !.dbFileSize = size,
                          !.dbFileVers = vers]
           content == [n \in stored |-> First(records, n).c]
           k == Written(m, stored, content)
           ok == \A n \in stored : Fits(m, n)
<1>1. Playback(s, m, records) = [s |-> u, m |-> k, ok |-> ok]
  BY DEF Playback, Pages, StoredPages, First
<1>2. stored \subseteq pages /\ pages \subseteq PagesIn(records)
  BY DEF Pages, StoredPages
<1>3. \A n \in pages : First(records, n).c \in Content
                       /\ n \in 1..MaxPage
                       /\ First(records, n).c.vers \in VersType
  <2> SUFFICES ASSUME NEW n \in pages
               PROVE  First(records, n).c \in Content /\ n \in 1..MaxPage
                      /\ First(records, n).c.vers \in VersType
    OBVIOUS
  <2>1. First(records, n) \in PlayType /\ First(records, n).pgno = n
    BY <1>2, FirstFacts
  <2> QED
    BY <2>1 DEF PlayType, Content
<1> HIDE DEF pages, stored
<1>4. stored \in SUBSET (1..MaxPage) /\ \A n \in stored : content[n] \in Content
  BY <1>2, <1>3
<1>5. /\ DOMAIN cache = DOMAIN s.cache
      /\ \A n \in DOMAIN s.cache :
            cache[n] = IF n \in pages
                       THEN [s.cache[n] EXCEPT !.c = First(records, n).c]
                       ELSE s.cache[n]
  OBVIOUS
<1> HIDE DEF cache
<1>6. IsCache(cache)
  <2>1. ASSUME NEW n \in DOMAIN s.cache PROVE cache[n] \in PageType
    <3>1. s.cache[n] \in PageType
      BY DEF Typed, IsCache
    <3>2. CASE n \in pages
      <4> DEFINE c == First(records, n).c
      <4>1. c \in Content
        BY <1>3, <3>2
      <4>2. cache[n] = [s.cache[n] EXCEPT !.c = c]
        BY <1>5, <3>2
      <4> HIDE DEF c
      <4> QED
        BY <3>1, <4>1, <4>2 DEF PageType
    <3>3. CASE n \notin pages
      BY <1>5, <3>1, <3>3
    <3> QED
      BY <3>2, <3>3
  <2> QED
    BY <1>5, <2>1 DEF Typed, IsCache
<1>7. vers \in VersType
  BY <1>3 DEF Typed
<1>8. size \in 0..MaxPage
  BY <1>4, MaxWith DEF Typed
<1>9. SameLimit(m, k)
  <2> HIDE DEF content
  <2> QED BY <1>4, WrittenFacts
<1> HIDE DEF size, vers, k, ok
<1>10. /\ SameJournals(s, u)
       /\ u.eState = s.eState /\ u.memDb = s.memDb /\ u.eLock = s.eLock
       /\ u.hasHeldSharedLock = s.hasHeldSharedLock
       /\ u.changeCountDone = s.changeCountDone
       /\ u.dbSize = s.dbSize /\ u.dbOrigSize = s.dbOrigSize
       /\ u.dbFileSize = size /\ u.cache = cache /\ u.dbFileVers = vers
       /\ Fields \subseteq DOMAIN u
  BY DEF Typed, Fields, SameJournals
<1> HIDE DEF u
<1>11. Typed(u)
  BY <1>6, <1>7, <1>8, <1>10 DEF Typed, SameJournals
<1>12. /\ Playback(s, m, records).s = u /\ Playback(s, m, records).m = k
       /\ Playback(s, m, records).ok = ok
  BY <1>1
<1> QED
  BY <1>5, <1>9, <1>10, <1>11, <1>12 DEF Plays, pages, stored, size, vers, k, ok

\* The records to play back.
LEMMA JournalFromFacts ==
    ASSUME NEW s, Typed(s), NEW k \in 0..Len(s.journal)
    PROVE  /\ JournalFrom(s, k) \in Seq(PlayType)
           /\ Len(JournalFrom(s, k)) = Len(s.journal) - k
           /\ \A i \in 1..(Len(s.journal) - k) :
                 /\ JournalFrom(s, k)[i].pgno = s.journal[k + i].pgno
                 /\ JournalFrom(s, k)[i].c = s.journal[k + i].c
                 /\ JournalFrom(s, k)[i].safe = (k + i <= s.journalHdr)
<1> DEFINE e(i) == [pgno |-> s.journal[k + i].pgno, c |-> s.journal[k + i].c,
                    safe |-> k + i <= s.journalHdr]
           n == Len(s.journal) - k
           f == [i \in 1..n |-> e(i)]
<1>1. Len(s.journal) \in Nat /\ n \in Nat
      /\ \A i \in 1..Len(s.journal) : s.journal[i] \in RecordType
  BY LenProperties, ElementOfSeq DEF Typed
<1>2. \A i \in 1..n : k + i \in 1..Len(s.journal)
  BY <1>1
<1>3. \A i \in 1..n : e(i) \in PlayType
  BY <1>1, <1>2 DEF RecordType, PlayType
<1>4. \A i \in 1..n : /\ e(i).pgno = s.journal[k + i].pgno
                      /\ e(i).c = s.journal[k + i].c
                      /\ e(i).safe = (k + i <= s.journalHdr)
  OBVIOUS
<1>5. JournalFrom(s, k) = f
  BY DEF JournalFrom
<1> HIDE DEF e, n
<1>6. f \in [1..n -> PlayType] /\ \A i \in 1..n : f[i] = e(i)
  BY <1>3
<1> HIDE DEF f
<1>7. f \in Seq(PlayType) /\ Len(f) = n
  BY <1>1, <1>6, FunctionIsSeq
<1> QED
  BY <1>4, <1>5, <1>6, <1>7 DEF n

\* The sub-journal from record k on.
LEMMA SubFromFacts ==
    ASSUME NEW s, Typed(s), NEW k \in 0..Len(s.sub)
    PROVE  /\ SubFrom(s, k) \in Seq(PlayType)
           /\ Len(SubFrom(s, k)) = Len(s.sub) - k
           /\ \A i \in 1..(Len(s.sub) - k) :
                 /\ SubFrom(s, k)[i].pgno = s.sub[k + i].pgno
                 /\ SubFrom(s, k)[i].c = s.sub[k + i].c
                 /\ SubFrom(s, k)[i].safe
                       = (s.sub[k + i].pgno \notin DOMAIN s.cache
                          \/ ~s.cache[s.sub[k + i].pgno].needSync)
<1> DEFINE e(i) == [pgno |-> s.sub[k + i].pgno, c |-> s.sub[k + i].c,
                    safe |-> s.sub[k + i].pgno \notin DOMAIN s.cache
                             \/ ~s.cache[s.sub[k + i].pgno].needSync]
           n == Len(s.sub) - k
           f == [i \in 1..n |-> e(i)]
<1>1. Len(s.sub) \in Nat /\ n \in Nat
      /\ \A i \in 1..Len(s.sub) : s.sub[i] \in RecordType
  BY LenProperties, ElementOfSeq DEF Typed
<1>2. \A i \in 1..n : k + i \in 1..Len(s.sub)
  BY <1>1
<1>3. \A i \in 1..n : e(i) \in PlayType
  BY <1>1, <1>2 DEF RecordType, PlayType
<1>4. \A i \in 1..n : /\ e(i).pgno = s.sub[k + i].pgno
                      /\ e(i).c = s.sub[k + i].c
                      /\ e(i).safe = (s.sub[k + i].pgno \notin DOMAIN s.cache
                             \/ ~s.cache[s.sub[k + i].pgno].needSync)
  OBVIOUS
<1>5. SubFrom(s, k) = f
  BY DEF SubFrom
<1> HIDE DEF e, n
<1>6. f \in [1..n -> PlayType] /\ \A i \in 1..n : f[i] = e(i)
  BY <1>3
<1> HIDE DEF f
<1>7. f \in Seq(PlayType) /\ Len(f) = n
  BY <1>1, <1>6, FunctionIsSeq
<1> QED
  BY <1>4, <1>5, <1>6, <1>7 DEF n
-----------------------------------------------------------------------------
(* A pager between two calls.  k is the size limit of the store.           *)

\* A pager without a transaction.
Idle(s) ==
    /\ Typed(s)
    /\ Clean(s) /\ Blank(s) /\ s.aSavepoint = <<>>
    /\ CounterOK(s)
    /\ ~s.memDb => ~s.changeCountDone

\* A pager that reads nothing.
Waiting(s) == Idle(s) /\ s.eState = PAGER_OPEN

\* A reader, whose database fits in the store.
Reading(s, k) ==
    /\ Idle(s) /\ s.eState = PAGER_READER
    /\ ~s.memDb \/ s.dbSize > 0 => 1 \in DOMAIN s.cache
    /\ ~s.memDb => s.dbSize <= k

\* A writer before the commit.  What it found in the store fits there; what
\* it has added may not, which its commit finds out.
Changing(s, k) ==
    /\ Sound(s)
    /\ 1 \in DOMAIN s.cache /\ 1 <= s.dbSize
    /\ s.eState = PAGER_WRITER_LOCKED => s.dbSize = s.dbOrigSize
    /\ ~s.memDb => s.dbOrigSize <= k /\ s.dbFileSize <= k
    /\ Len(s.sub) <= MaxSub

\* A writer after phase one.
Finished(s, k) ==
    /\ Typed(s) /\ s.eState = PAGER_WRITER_FINISHED
    /\ MarksBound(s) /\ CounterOK(s) /\ 1 \in DOMAIN s.cache
    /\ ~s.memDb => s.dbOrigSize <= k /\ s.dbSize <= k

\* A pager after a rollback that failed.
Failed(s) ==
    Typed(s) /\ s.eState = PAGER_ERROR /\ MarksBound(s) /\ ~s.memDb

\* What every pager is by itself.
LocalOK(s, k) ==
    \/ s = NotOpen \/ Waiting(s) \/ Reading(s, k) \/ Changing(s, k)
    \/ Finished(s, k) \/ Failed(s)
-----------------------------------------------------------------------------
(* The end of a transaction.                                               *)

\* Page x is clean and holds c.
CleanWith(x, c) ==
    x.c = c /\ ~x.dirty /\ ~x.writeable /\ ~x.needSync /\ x \in PageType

\* CleanPage makes such a page.
LEMMA CleanPageFacts ==
    ASSUME NEW c \in Content
    PROVE  CleanWith(CleanPage(c), c)
BY DEF CleanPage, CleanWith, PageType

\* sqlite3PcacheTruncate of a cache without flags.
LEMMA CleanedFacts ==
    ASSUME NEW c, IsCache(c), NEW size \in 0..MaxPage
    PROVE  LET d == PcacheTruncate(CleanAll(c), size)
           IN  /\ IsCache(d)
               /\ DOMAIN d = DOMAIN c \cap 1..(IF size >= 1 THEN size ELSE 1)
               /\ \A n \in DOMAIN d :
                     CleanWith(d[n], IF n > size THEN Zero ELSE c[n].c)
<1> DEFINE e == CleanAll(c)
           top == Max({size, 1})
           d == PcacheTruncate(e, size)
<1>1. MaxPage \in Nat /\ size \in Nat
  BY PagerAssumption
<1>2. top = IF size >= 1 THEN size ELSE 1
  BY <1>1, MaxOfTwo
<1>3. DOMAIN e = DOMAIN c /\ \A n \in DOMAIN c : e[n] = CleanPage(c[n].c)
  BY DEF CleanAll
<1>4. d = [n \in DOMAIN e \cap 1..top |->
              IF n > size THEN [e[n] EXCEPT !.c = Zero] ELSE e[n]]
  BY DEF PcacheTruncate
<1> HIDE DEF e, top, d
<1>5. DOMAIN d = DOMAIN c \cap 1..top
  BY <1>3, <1>4
<1>6. ASSUME NEW n \in DOMAIN d
      PROVE  CleanWith(d[n], IF n > size THEN Zero ELSE c[n].c)
  <2>1. n \in DOMAIN c /\ c[n] \in PageType /\ n \in DOMAIN e
    BY <1>3, <1>5 DEF IsCache
  <2>2. c[n].c \in Content
    BY <2>1 DEF PageType
  <2>3. CleanWith(e[n], c[n].c)
    BY <1>3, <2>1, <2>2, CleanPageFacts
  <2>4. d[n] = IF n > size THEN [e[n] EXCEPT !.c = Zero] ELSE e[n]
    BY <1>4, <1>5, <2>1, <1>3
  <2>5. CleanWith([e[n] EXCEPT !.c = Zero], Zero)
    BY <2>3, ZeroContent DEF CleanWith, PageType
  <2> QED
    BY <2>3, <2>4, <2>5
<1>7. IsCache(d)
  BY <1>5, <1>6 DEF IsCache, CleanWith
<1> QED
  BY <1>2, <1>5, <1>6, <1>7 DEF d, e

\* pager_end_transaction.
Ends(s, m, bCommit, r) ==
    /\ Typed(r.s) /\ SameLimit(m, r.m)
    /\ r.s.eState = PAGER_READER /\ r.s.memDb = s.memDb
    /\ r.s.hasHeldSharedLock = s.hasHeldSharedLock
    /\ r.s.changeCountDone = (s.memDb /\ s.changeCountDone)
    /\ r.s.dbFileVers = s.dbFileVers /\ r.s.dbSize = s.dbSize
    /\ Clean(r.s) /\ Blank(r.s) /\ r.s.aSavepoint = <<>>
    /\ DOMAIN r.s.cache
          = DOMAIN s.cache \cap 1..(IF s.dbSize >= 1 THEN s.dbSize ELSE 1)
    /\ \A n \in DOMAIN r.s.cache :
          CleanWith(r.s.cache[n], IF n > s.dbSize THEN Zero ELSE s.cache[n].c)
    /\ r.m.pages = IF ~s.memDb /\ bCommit /\ s.eState >= PAGER_WRITER_DBMOD
                      /\ s.dbFileSize > s.dbSize
                   THEN Resized(m, s.dbSize).pages ELSE m.pages

\* pager_end_transaction does what Ends says.
LEMMA EndedFacts ==
    ASSUME NEW s, Typed(s), NEW m, StoreTyped(m), NEW bCommit \in BOOLEAN
    PROVE  Ends(s, m, bCommit, Ended(s, m, bCommit))
<1> DEFINE cache == PcacheTruncate(CleanAll(s.cache), s.dbSize)
           reader == [s EXCEPT
            !.eState = PAGER_READER,
            !.cache = cache,
            !.journal = <<>>, !.journalHdr = 0, !.sub = <<>>,
            !.aSavepoint = <<>>, !.dbOrigSize = 0, !.dbFileSize = 0]
           cut == bCommit /\ s.eState >= PAGER_WRITER_DBMOD
                          /\ s.dbFileSize > s.dbSize
           file == IF cut THEN Resized(m, s.dbSize) ELSE m
           t == [reader EXCEPT !.eLock = SHARED_LOCK, !.changeCountDone = FALSE]
           k == Locked(file, s.eLock, SHARED_LOCK)
           u == IF s.memDb THEN reader ELSE t
           l == IF s.memDb THEN m ELSE k
<1>1. Ended(s, m, bCommit) = [s |-> u, m |-> l]
  BY DEF Ended
<1>2. IsCache(s.cache) /\ s.dbSize \in 0..MaxPage
  BY DEF Typed
<1>3. /\ IsCache(cache)
      /\ DOMAIN cache = DOMAIN s.cache \cap 1..(IF s.dbSize >= 1 THEN s.dbSize ELSE 1)
      /\ \A n \in DOMAIN cache :
            CleanWith(cache[n], IF n > s.dbSize THEN Zero ELSE s.cache[n].c)
  BY <1>2, CleanedFacts
<1> HIDE DEF cache
<1>4. /\ reader.eState = PAGER_READER /\ reader.memDb = s.memDb
      /\ reader.eLock = s.eLock
      /\ reader.hasHeldSharedLock = s.hasHeldSharedLock
      /\ reader.changeCountDone = s.changeCountDone
      /\ reader.dbFileVers = s.dbFileVers /\ reader.dbSize = s.dbSize
      /\ reader.dbOrigSize = 0 /\ reader.dbFileSize = 0
      /\ reader.cache = cache
      /\ reader.journal = <<>> /\ reader.journalHdr = 0 /\ reader.sub = <<>>
      /\ reader.aSavepoint = <<>> /\ Fields \subseteq DOMAIN reader
  BY DEF Typed, Fields
<1> HIDE DEF reader
<1>5. /\ t.eState = PAGER_READER /\ t.memDb = s.memDb
      /\ t.eLock = SHARED_LOCK
      /\ t.hasHeldSharedLock = s.hasHeldSharedLock
      /\ t.changeCountDone = FALSE
      /\ t.dbFileVers = s.dbFileVers /\ t.dbSize = s.dbSize
      /\ t.dbOrigSize = 0 /\ t.dbFileSize = 0 /\ t.cache = cache
      /\ t.journal = <<>> /\ t.journalHdr = 0 /\ t.sub = <<>>
      /\ t.aSavepoint = <<>> /\ Fields \subseteq DOMAIN t
  BY <1>4 DEF Fields
<1> HIDE DEF t
<1>6. /\ <<>> \in Seq(RecordType) /\ <<>> \in Seq(MarkType)
      /\ 0 \in 0..Len(<<>>) /\ 0 \in 0..MaxPage
  BY PagerAssumption, EmptySeq
<1>7. Typed(reader) /\ Typed(t)
  <2>1. Typed(reader)
    BY <1>3, <1>4, <1>6 DEF Typed
  <2>2. t.changeCountDone \in BOOLEAN
    BY <1>5
  <2>4. t.eState \in NOT_OPEN..PAGER_ERROR
    BY <1>5
  <2>5. t.eLock \in {NO_LOCK, SHARED_LOCK, RESERVED_LOCK, EXCLUSIVE_LOCK}
    BY <1>5
  <2>6. t.memDb \in BOOLEAN /\ t.hasHeldSharedLock \in BOOLEAN
    BY <1>5 DEF Typed
  <2>7. t.dbFileVers \in VersType /\ t.dbSize \in 0..MaxPage
    BY <1>5 DEF Typed
  <2>8. t.dbOrigSize \in 0..MaxPage /\ t.dbFileSize \in 0..MaxPage
    BY <1>5, <1>6
  <2>3. /\ IsCache(t.cache) /\ t.journal \in Seq(RecordType)
        /\ t.journalHdr \in 0..Len(t.journal) /\ t.sub \in Seq(RecordType)
        /\ t.aSavepoint \in Seq(MarkType) /\ Fields \subseteq DOMAIN t
    BY <1>3, <1>5, <1>6
  <2> QED
    BY <2>1, <2>2, <2>3, <2>4, <2>5, <2>6, <2>7, <2>8 DEF Typed
<1>8. SameLimit(m, file) /\ file.pages = IF cut THEN Resized(m, s.dbSize).pages
                                                ELSE m.pages
  BY <1>2, ResizedFacts DEF SameLimit
<1> HIDE DEF file
<1>9. SameLimit(m, k) /\ k.pages = file.pages
  BY <1>8, LockedFacts DEF SameLimit
<1> HIDE DEF k
<1>10. SameLimit(m, l) /\ l.pages = IF ~s.memDb /\ cut
                                    THEN Resized(m, s.dbSize).pages ELSE m.pages
  BY <1>8, <1>9 DEF SameLimit
<1>11. /\ Typed(u) /\ u.eState = PAGER_READER /\ u.memDb = s.memDb
       /\ u.hasHeldSharedLock = s.hasHeldSharedLock
       /\ u.changeCountDone = (s.memDb /\ s.changeCountDone)
       /\ u.dbFileVers = s.dbFileVers /\ u.dbSize = s.dbSize
       /\ u.cache = cache /\ u.aSavepoint = <<>> /\ Blank(u)
  BY <1>4, <1>5, <1>7 DEF Blank, Typed
<1> HIDE DEF u, l
<1>12. Clean(u)
  BY <1>3, <1>11 DEF Clean, CleanWith
<1>13. Ended(s, m, bCommit).s = u /\ Ended(s, m, bCommit).m = l
  BY <1>1
<1> QED
  BY <1>3, <1>10, <1>11, <1>12, <1>13 DEF Ends

\* A pager at the end of its transaction becomes a reader.
LEMMA EndedReads ==
    ASSUME NEW s, Typed(s), NEW m, StoreTyped(m), StoreFits(m),
           NEW bCommit \in BOOLEAN,
           1 \in DOMAIN s.cache, CounterOK(s), ~s.memDb => s.dbSize <= m.szMax
    PROVE  /\ Reading(Ended(s, m, bCommit).s, m.szMax)
           /\ SameLimit(m, Ended(s, m, bCommit).m)
           /\ StoreFits(Ended(s, m, bCommit).m)
<1> DEFINE r == Ended(s, m, bCommit)
<1>1. Ends(s, m, bCommit, r)
  BY EndedFacts
<1> HIDE DEF r
<1>2. s.dbSize \in 0..MaxPage /\ s.dbFileVers.counter \in Nat
  BY DEF Typed, VersType
<1>3. 1 \in DOMAIN r.s.cache
  BY <1>1, <1>2 DEF Ends
<1>4. r.s.cache[1].c = IF 1 > s.dbSize THEN Zero ELSE s.cache[1].c
  BY <1>1, <1>3 DEF Ends, CleanWith
<1>5. CounterOK(r.s)
  <2>1. r.s.dbFileVers = s.dbFileVers
    BY <1>1 DEF Ends
  <2> QED
    BY <1>2, <1>4, <2>1, ZeroContent DEF CounterOK
<1>6. Idle(r.s)
  BY <1>1, <1>5 DEF Idle, Ends
<1>7. Reading(r.s, m.szMax)
  BY <1>1, <1>3, <1>6 DEF Reading, Ends
<1>8. StoreFits(r.m)
  <2>1. CASE r.m.pages = m.pages
    BY <1>1, <2>1 DEF StoreFits, Ends, SameLimit
  <2>2. CASE ~s.memDb /\ r.m.pages = Resized(m, s.dbSize).pages
    <3>1. Len(Resized(m, s.dbSize).pages) = s.dbSize
      BY <1>2, ResizedFacts
    <3> QED
      BY <1>1, <2>2, <3>1 DEF StoreFits, Ends, SameLimit
  <2> QED
    BY <1>1, <2>1, <2>2 DEF Ends
<1> QED
  BY <1>1, <1>7, <1>8 DEF Ends, r

\* A pager that can be rolled back.
Undoable(s, k) ==
    /\ Typed(s)
    /\ s.eState \in PAGER_WRITER_LOCKED..PAGER_WRITER_FINISHED
    /\ s.eState = PAGER_WRITER_LOCKED => s.dbSize = s.dbOrigSize
    /\ 1 \in DOMAIN s.cache /\ CounterOK(s)
    /\ ~s.memDb => s.dbOrigSize <= k

\* The transaction may have written to the store.
OnFile(s) == ~s.memDb /\ s.eState >= PAGER_WRITER_DBMOD

\* The pager that pager_playback plays back to, and the store.
CutBack(s) ==
    [s EXCEPT !.dbSize = s.dbOrigSize, !.changeCountDone = s.memDb,
              !.dbFileSize = IF OnFile(s) THEN s.dbOrigSize ELSE @]

\* The store, cut back to the size it had.
FileBack(s, m) == IF OnFile(s) THEN Resized(m, s.dbOrigSize) ELSE m

\* CutBack changes the sizes only.
LEMMA CutBackFacts ==
    ASSUME NEW s, Typed(s)
    PROVE  /\ Typed(CutBack(s)) /\ SameJournals(s, CutBack(s))
           /\ CutBack(s).eState = s.eState /\ CutBack(s).memDb = s.memDb
           /\ CutBack(s).hasHeldSharedLock = s.hasHeldSharedLock
           /\ CutBack(s).eLock = s.eLock /\ CutBack(s).dbSize = s.dbOrigSize
           /\ CutBack(s).dbOrigSize = s.dbOrigSize
           /\ CutBack(s).dbFileVers = s.dbFileVers
           /\ CutBack(s).cache = s.cache
           /\ CutBack(s).dbFileSize = IF OnFile(s) THEN s.dbOrigSize
                                                   ELSE s.dbFileSize
<1> DEFINE t == CutBack(s)
<1>1. /\ SameJournals(s, t) /\ t.eState = s.eState /\ t.memDb = s.memDb
      /\ t.hasHeldSharedLock = s.hasHeldSharedLock
      /\ t.eLock = s.eLock /\ t.dbSize = s.dbOrigSize
      /\ t.dbOrigSize = s.dbOrigSize /\ t.dbFileVers = s.dbFileVers
      /\ t.cache = s.cache /\ t.changeCountDone = s.memDb
      /\ t.dbFileSize = IF OnFile(s) THEN s.dbOrigSize ELSE s.dbFileSize
      /\ Fields \subseteq DOMAIN t
  BY DEF Typed, Fields, SameJournals, CutBack
<1> HIDE DEF t
<1>2. Typed(t)
  BY <1>1 DEF Typed, SameJournals
<1> QED
  BY <1>1, <1>2 DEF t

\* sqlite3PagerRollback.
LEMMA RolledBackReads ==
    ASSUME NEW s, NEW m, StoreTyped(m), Undoable(s, m.szMax),
           ~OnFile(s) => StoreFits(m)
    PROVE  /\ Reading(RolledBack(s, m).s, m.szMax)
           /\ SameLimit(m, RolledBack(s, m).m)
           /\ StoreFits(RolledBack(s, m).m)
<1> DEFINE cut == CutBack(s)
           file == FileBack(s, m)
           records == JournalFrom(cut, 0)
           played == Playback(cut, file, records)
<1>1. CASE s.eState = PAGER_WRITER_LOCKED
  <2>1. RolledBack(s, m) = Ended(s, m, FALSE)
    BY <1>1 DEF RolledBack
  <2>2. /\ Typed(s) /\ 1 \in DOMAIN s.cache /\ CounterOK(s)
        /\ ~s.memDb => s.dbSize <= m.szMax
        /\ StoreFits(m)
    BY <1>1 DEF Undoable, OnFile
  <2> QED
    BY <2>1, <2>2, EndedReads
<1>2. CASE s.eState # PAGER_WRITER_LOCKED
  <2>1. RolledBack(s, m) = Ended(played.s, played.m, FALSE)
    BY <1>2 DEF RolledBack, OnFile, CutBack, FileBack
  <2>2. Typed(s) /\ 1 \in DOMAIN s.cache /\ CounterOK(s)
        /\ s.dbOrigSize \in 0..MaxPage
    BY DEF Undoable, Typed
  <2>3. /\ Typed(cut) /\ SameJournals(s, cut) /\ cut.eState = s.eState
        /\ cut.memDb = s.memDb /\ cut.dbSize = s.dbOrigSize
        /\ cut.dbFileVers = s.dbFileVers /\ cut.cache = s.cache
    BY <2>2, CutBackFacts
  <2>4. SameLimit(m, file) /\ StoreTyped(file) /\ StoreFits(file)
    <3>1. CASE OnFile(s)
      <4>1. SameLimit(m, file) /\ Len(file.pages) = s.dbOrigSize
        BY <2>2, <3>1, ResizedFacts DEF FileBack
      <4> QED
        BY <3>1, <4>1 DEF Undoable, OnFile, StoreFits, SameLimit
    <3>2. CASE ~OnFile(s)
      BY <3>2 DEF FileBack, SameLimit
    <3> QED
      BY <3>1, <3>2
  <2> HIDE DEF cut, file
  <2>5. records \in Seq(PlayType)
    <3>1. 0 \in 0..Len(cut.journal)
      BY <2>3, LenProperties DEF Typed
    <3> QED
      BY <2>3, <3>1, JournalFromFacts
  <2> HIDE DEF records
  <2>6. Plays(cut, file, records, played)
    BY <2>3, <2>4, <2>5, PlaybackFacts
  <2> HIDE DEF played
  <2>7. /\ Typed(played.s) /\ SameLimit(m, played.m)
        /\ played.s.memDb = s.memDb /\ played.s.dbSize = s.dbOrigSize
        /\ 1 \in DOMAIN played.s.cache
    BY <2>2, <2>3, <2>4, <2>6 DEF Plays, SameLimit
  <2>8. CounterOK(played.s)
    <3>1. played.s.dbFileVers.counter \in Nat
      BY <2>7 DEF Typed, VersType
    <3>2. CASE 1 \in Pages(cut, records)
      <4> DEFINE c == First(records, 1).c
      <4>1. s.cache[1] \in PageType
        BY <2>2 DEF Typed, IsCache
      <4>2. played.s.cache[1] = [s.cache[1] EXCEPT !.c = c]
        BY <2>2, <2>3, <2>6, <3>2 DEF Plays
      <4>3. played.s.dbFileVers = c.vers
        BY <2>6, <3>2 DEF Plays
      <4> HIDE DEF c
      <4>4. played.s.cache[1].c = c
        BY <4>1, <4>2 DEF PageType
      <4> QED
        BY <3>1, <4>3, <4>4 DEF CounterOK
    <3>3. CASE 1 \notin Pages(cut, records)
      BY <2>2, <2>3, <2>6, <3>3 DEF Plays, CounterOK
    <3> QED
      BY <3>2, <3>3
  <2>9. StoreFits(played.m)
    <3> DEFINE W == StoredPages(cut, records)
               content == [n \in W |-> First(records, n).c]
    <3>1. W \in SUBSET (1..MaxPage)
      <4>1. W \subseteq 1..s.dbOrigSize
        BY <2>3 DEF StoredPages, Pages
      <4> QED
        BY <2>2, <4>1, PagerAssumption
    <3>2. \A n \in W : Fits(file, n)
      <4>1. \A n \in W : n \in 1..s.dbOrigSize /\ ~s.memDb
        BY <2>3 DEF StoredPages, Pages
      <4>2. ~s.memDb => s.dbOrigSize <= m.szMax
        BY DEF Undoable
      <4>3. file.szMax = m.szMax /\ m.szMax \in Nat
        BY <2>4, PagerAssumption DEF SameLimit, StoreTyped
      <4> QED
        BY <2>2, <4>1, <4>2, <4>3 DEF Fits
    <3>3. played.m = Written(file, W, content)
      BY <2>6 DEF Plays
    <3>4. \A n \in W : content[n] \in Content
      <4>1. \A n \in W : n \in PagesIn(records)
        BY DEF StoredPages, Pages
      <4>2. \A n \in W : First(records, n) \in PlayType
        BY <2>5, <4>1, FirstFacts
      <4>3. \A n \in W : content[n] = First(records, n).c
        OBVIOUS
      <4>4. \A n \in W : First(records, n).c \in Content
        BY ONLY <4>2 DEF PlayType
      <4> HIDE DEF W, content
      <4> QED
        BY ONLY <4>3, <4>4
    <3> HIDE DEF W, content
    <3>5. StoreFits(file) /\ (\A n \in W : Fits(file, n))
             => StoreFits(Written(file, W, content))
      BY <2>4, <3>1, <3>4, WrittenFacts
    <3> QED
      BY ONLY <2>4, <3>2, <3>3, <3>5
  <2>10. ~played.s.memDb => played.s.dbSize <= played.m.szMax
    BY <2>7 DEF Undoable, SameLimit
  <2>11. StoreTyped(played.m)
    BY <2>7 DEF SameLimit
  <2>12. /\ Reading(Ended(played.s, played.m, FALSE).s, played.m.szMax)
         /\ SameLimit(played.m, Ended(played.s, played.m, FALSE).m)
         /\ StoreFits(Ended(played.s, played.m, FALSE).m)
    BY <2>7, <2>8, <2>9, <2>10, <2>11, EndedReads
  <2> QED
    BY <2>1, <2>7, <2>12 DEF SameLimit
<1> QED
  BY <1>1, <1>2
-----------------------------------------------------------------------------
(* Phase one of a commit.                                                  *)

\* d is the outcome of phase one of the commit of s to m.
PhaseOneDone(s, m, d) ==
    /\ Typed(d.s) /\ SameLimit(m, d.m)
    /\ d.s.eState = PAGER_WRITER_FINISHED /\ d.s.memDb = s.memDb
    /\ d.s.dbSize = s.dbSize /\ d.s.dbOrigSize = s.dbOrigSize
    /\ MarksBound(d.s) /\ CounterOK(d.s) /\ 1 \in DOMAIN d.s.cache
    /\ d.ok => StoreFits(d.m) /\ s.dbSize <= m.szMax

\* sqlite3PcacheCleanAll.
LEMMA CleanAllFacts ==
    ASSUME NEW c, IsCache(c)
    PROVE  /\ IsCache(CleanAll(c)) /\ DOMAIN CleanAll(c) = DOMAIN c
           /\ \A n \in DOMAIN c : CleanAll(c)[n].c = c[n].c
<1>1. DOMAIN CleanAll(c) = DOMAIN c /\ \A n \in DOMAIN c : CleanAll(c)[n] = CleanPage(c[n].c)
  BY DEF CleanAll
<1>2. \A n \in DOMAIN c : c[n].c \in Content
  BY DEF IsCache, PageType
<1>3. \A n \in DOMAIN c : CleanWith(CleanAll(c)[n], c[n].c)
  BY <1>1, <1>2, CleanPageFacts
<1> QED
  BY <1>1, <1>3 DEF IsCache, CleanWith

\* sqlite3PagerCommitPhaseOne writes page 1, so the counter the pager
\* remembers is the one on it; and if every page fits, the store holds them.
LEMMA PhaseOneFacts ==
    ASSUME NEW s, Sound(s), s.eState # PAGER_WRITER_LOCKED, ~s.memDb,
           1 \in DOMAIN s.cache, 1 <= s.dbSize, NEW m, StoreTyped(m),
           StoreFits(m), s.dbFileSize <= m.szMax
    PROVE  PhaseOneDone(s, m, PhaseOne(s, m))
<1> DEFINE a == Counted(s, m)
           b == syncJournal(a, m)
           W == Taken(b.s, b.m, Dirty(b.s))
           w == WritePages(b.s, b.m, Dirty(b.s))
           grows == w.s.dbSize > w.s.dbFileSize
           t == [w.s EXCEPT
                   !.eState = PAGER_WRITER_FINISHED, !.cache = CleanAll(@),
                   !.dbFileSize = Max({@, w.s.dbSize})]
           k == IF grows THEN Resized(w.m, w.s.dbSize) ELSE w.m
           ok == w.ok /\ (grows => Fits(w.m, w.s.dbSize))
           d == PhaseOne(s, m)
<1>1. d = [s |-> t, m |-> k, ok |-> ok]
  BY DEF PhaseOne
<1>2. d.s = t /\ d.m = k /\ d.ok = ok
  BY <1>1
<1> HIDE DEF d
<1>3. /\ Committing(a) /\ a.dbSize = s.dbSize /\ a.dbOrigSize = s.dbOrigSize
      /\ a.dbFileSize = s.dbFileSize
  BY CountedFacts
<1> HIDE DEF a
<1>4. Syncs(a, m, b.s, b.m)
  BY <1>3, SyncFacts DEF Committing
<1> HIDE DEF b
<1>5. /\ Typed(b.s) /\ StoreTyped(b.m) /\ 1 \in Dirty(b.s)
      /\ Dirty(b.s) \subseteq DOMAIN b.s.cache
      /\ b.s.dbFileVers.counter < MaxVer
      /\ b.s.dbSize = s.dbSize /\ b.s.dbOrigSize = s.dbOrigSize
      /\ b.s.dbFileSize = s.dbFileSize /\ ~b.s.memDb
      /\ b.m.szMax = m.szMax /\ b.m.pages = m.pages
  BY <1>3, <1>4 DEF Syncs, Committing, SameLimit, Dirty
<1>6. WritesPages(b.s, b.m, Dirty(b.s), w)
  BY <1>5, WritePagesFacts
<1> HIDE DEF w
<1>7. s.dbSize \in 0..MaxPage /\ s.dbFileSize \in 0..MaxPage
      /\ MaxPage \in Nat /\ m.szMax \in Nat \ {0}
  BY PagerAssumption DEF Sound, Typed, StoreTyped
<1>8. 1 \in W
  BY <1>5, <1>7 DEF Taken, Wanted, Fits
<1>9. W \in SUBSET (1..MaxPage) /\ (\A n \in W : Fits(b.m, n))
      /\ \A n \in W : n <= m.szMax
  BY <1>5, <1>7 DEF Taken, Wanted, Fits
<1>10. /\ Typed(w.s) /\ w.s.dbFileSize = Max(W \cup {s.dbFileSize})
       /\ w.s.dbSize = s.dbSize /\ w.s.dbOrigSize = s.dbOrigSize
       /\ ~w.s.memDb /\ w.s.memDb = s.memDb
       /\ w.s.aSavepoint = b.s.aSavepoint /\ SameLimit(b.m, w.m)
       /\ w.s.dbFileVers = w.s.cache[1].c.vers
       /\ w.m = Written(b.m, W, [n \in W |-> w.s.cache[n].c])
       /\ DOMAIN w.s.cache = DOMAIN b.s.cache
  <2>1. /\ Typed(w.s) /\ w.s.dbFileSize = Max(W \cup {b.s.dbFileSize})
        /\ w.s.dbSize = b.s.dbSize /\ w.s.dbOrigSize = b.s.dbOrigSize
        /\ w.s.memDb = b.s.memDb /\ w.s.aSavepoint = b.s.aSavepoint
        /\ SameLimit(b.m, w.m) /\ SameOthers(b.s, w.s, 1)
    BY <1>6 DEF WritesPages, SameJournals
  <2>2. w.s.dbFileVers = w.s.cache[1].c.vers
    BY <1>6, <1>8 DEF WritesPages
  <2>3. w.m = Written(b.m, W, [n \in W |-> w.s.cache[n].c])
    BY <1>6 DEF WritesPages
  <2>4. DOMAIN w.s.cache = DOMAIN b.s.cache
    BY <2>1 DEF SameOthers
  <2> HIDE DEF W
  <2>5. s.memDb = FALSE /\ w.s.memDb = FALSE
    <3>1. s.memDb \in BOOLEAN /\ b.s.memDb \in BOOLEAN
      BY <1>5 DEF Sound, Typed
    <3> QED
      BY <1>5, <2>1, <3>1
  <2> QED
    BY <1>5, <2>1, <2>2, <2>3, <2>4, <2>5
<1>11. w.s.dbFileSize <= m.szMax /\ w.s.dbFileSize \in Nat
  <2> DEFINE x == Max(W \cup {s.dbFileSize})
  <2>1. w.s.dbFileSize = x
    BY <1>10
  <2> HIDE DEF W
  <2>2. x \in 0..MaxPage
    BY <1>7, <1>9, MaxWith
  <2>3. x <= m.szMax
    BY <1>7, <1>9, MaxWith
  <2> HIDE DEF x
  <2> QED
    BY <1>7, <2>1, <2>2, <2>3
<1>12. /\ IsCache(w.s.cache) /\ 1 \in DOMAIN w.s.cache
       /\ w.s.cache[1].c.vers.counter \in Nat
  <2>1. IsCache(w.s.cache) /\ 1 \in DOMAIN w.s.cache
    BY <1>5, <1>10 DEF Typed
  <2>2. w.s.cache[1] \in PageType
    BY <2>1 DEF IsCache
  <2> QED
    BY <2>1, <2>2 DEF PageType, Content, VersType
<1>13. /\ IsCache(CleanAll(w.s.cache)) /\ 1 \in DOMAIN CleanAll(w.s.cache)
       /\ CleanAll(w.s.cache)[1].c = w.s.cache[1].c
  BY <1>12, CleanAllFacts
<1>14. Max({w.s.dbFileSize, w.s.dbSize}) \in 0..MaxPage
  <2>1. w.s.dbFileSize \in 0..MaxPage /\ w.s.dbSize \in 0..MaxPage
    BY <1>10 DEF Typed
  <2>2. w.s.dbFileSize \in Nat /\ w.s.dbSize \in Nat
    BY <2>1
  <2> QED
    BY <2>1, <2>2, MaxOfTwo
<1>15. /\ t.eState = PAGER_WRITER_FINISHED /\ t.cache = CleanAll(w.s.cache)
       /\ t.dbFileSize = Max({w.s.dbFileSize, w.s.dbSize})
       /\ t.memDb = w.s.memDb /\ t.eLock = w.s.eLock
       /\ t.hasHeldSharedLock = w.s.hasHeldSharedLock
       /\ t.changeCountDone = w.s.changeCountDone
       /\ t.dbFileVers = w.s.dbFileVers /\ t.dbSize = w.s.dbSize
       /\ t.dbOrigSize = w.s.dbOrigSize /\ t.journal = w.s.journal
       /\ t.journalHdr = w.s.journalHdr /\ t.sub = w.s.sub
       /\ t.aSavepoint = w.s.aSavepoint /\ Fields \subseteq DOMAIN t
  BY <1>10 DEF Typed, Fields
<1> HIDE DEF t
<1>16. Typed(t)
  BY <1>10, <1>13, <1>14, <1>15 DEF Typed
<1>17. CounterOK(t)
  BY <1>10, <1>12, <1>13, <1>15 DEF CounterOK
<1>18. MarksBound(t)
  <2>1. MarksBound(a) /\ b.s.aSavepoint = a.aSavepoint
    BY <1>3, <1>4 DEF Committing, Syncs
  <2>2. t.aSavepoint = a.aSavepoint
    BY <2>1, <1>10, <1>15
  <2> QED
    BY ONLY <2>1, <2>2 DEF MarksBound
<1>19. StoreTyped(w.m) /\ w.m.szMax = m.szMax /\ StoreFits(w.m)
  <2>1. \A n \in W : w.s.cache[n].c \in Content
    <3>1. \A n \in W : n \in DOMAIN w.s.cache
      BY <1>5, <1>10 DEF Taken, Wanted
    <3> QED
      BY <1>12, <3>1 DEF IsCache, PageType
  <2>2. StoreFits(b.m)
    BY <1>5 DEF StoreFits
  <2> DEFINE content == [n \in W |-> w.s.cache[n].c]
  <2>3. \A n \in W : content[n] \in Content
    BY <2>1
  <2> HIDE DEF W
  <2>4. w.m = Written(b.m, W, content)
    BY <1>10
  <2> HIDE DEF content
  <2>5. StoreFits(b.m) /\ (\A n \in W : Fits(b.m, n))
           => StoreFits(Written(b.m, W, content))
    BY <1>5, <1>9, <2>3, WrittenFacts
  <2>6. StoreFits(w.m)
    BY ONLY <1>9, <2>2, <2>4, <2>5
  <2> QED
    BY <1>5, <1>10, <2>6 DEF SameLimit
<1>20. SameLimit(m, k)
  <2>1. CASE grows
    <3>1. w.s.dbSize \in 0..MaxPage
      BY <1>10 DEF Typed
    <3>2. SameLimit(w.m, Resized(w.m, w.s.dbSize))
      BY ONLY <1>19, <3>1, ResizedFacts
    <3>3. k = Resized(w.m, w.s.dbSize)
      BY <2>1
    <3> QED
      BY ONLY <1>19, <3>2, <3>3 DEF SameLimit
  <2>2. CASE ~grows
    <3>1. k = w.m
      BY <2>2
    <3> QED
      BY ONLY <1>19, <3>1 DEF SameLimit
  <2> QED
    BY ONLY <2>1, <2>2
<1>21. ASSUME ok PROVE StoreFits(k) /\ s.dbSize <= m.szMax
  <2>1. CASE grows
    <3>1. s.dbSize <= m.szMax
      BY <1>10, <1>19, <1>21, <2>1 DEF Fits
    <3>2. Len(Resized(w.m, w.s.dbSize).pages) = s.dbSize
      BY <1>7, <1>10, <1>19, ResizedFacts
    <3>3. Resized(w.m, w.s.dbSize).szMax = m.szMax
      BY <1>7, <1>10, <1>19, ResizedFacts DEF SameLimit
    <3> QED
      BY <2>1, <3>1, <3>2, <3>3 DEF StoreFits
  <2>2. CASE ~grows
    <3>1. s.dbSize <= w.s.dbFileSize
      BY <1>7, <1>10, <1>11, <2>2
    <3> QED
      BY <1>7, <1>11, <1>19, <2>2, <3>1
  <2> QED
    BY <2>1, <2>2
<1>23. d.ok => StoreFits(k) /\ s.dbSize <= m.szMax
  BY <1>2, <1>21
<1> HIDE DEF k, ok
<1>22. /\ t.eState = PAGER_WRITER_FINISHED /\ t.memDb = s.memDb
       /\ t.dbSize = s.dbSize /\ t.dbOrigSize = s.dbOrigSize
       /\ 1 \in DOMAIN t.cache
  BY <1>10, <1>13, <1>15
<1>24. d.s = t /\ d.m = k
  BY <1>2
<1>25. PhaseOneDone(s, m, d)
  BY ONLY <1>16, <1>17, <1>18, <1>20, <1>22, <1>23, <1>24 DEF PhaseOneDone
<1> QED
  BY <1>25 DEF d
-----------------------------------------------------------------------------
(* The inductive invariant, and the calls that change no page.             *)

\* Every pager is one of these, and the store is within its limit.
DataOK ==
    /\ StoreTyped(store) /\ StoreFits(store)
    /\ \A p \in Pagers : LocalOK(pager[p], store.szMax)

\* The state of a pager tells which it is.
LEMMA LocalCases ==
    ASSUME NEW s, NEW k, LocalOK(s, k)
    PROVE  /\ s.eState = NOT_OPEN => s = NotOpen
           /\ s.eState = PAGER_OPEN => Waiting(s)
           /\ s.eState = PAGER_READER => Reading(s, k)
           /\ InTx(s) => Changing(s, k)
           /\ s.eState = PAGER_WRITER_FINISHED => Finished(s, k)
           /\ s.eState = PAGER_ERROR => Failed(s)
<1>1. NotOpen.eState = NOT_OPEN
  BY DEF NotOpen
<1>2. \/ s = NotOpen /\ s.eState = NOT_OPEN
      \/ Waiting(s) /\ s.eState = PAGER_OPEN
      \/ Reading(s, k) /\ s.eState = PAGER_READER
      \/ Changing(s, k) /\ InTx(s)
      \/ Finished(s, k) /\ s.eState = PAGER_WRITER_FINISHED
      \/ Failed(s) /\ s.eState = PAGER_ERROR
  BY <1>1 DEF LocalOK, Waiting, Reading, Changing, Sound, Finished, Failed
<1> QED
  BY ONLY <1>2 DEF InTx

\* A step of one pager keeps the others as they are.
LEMMA StepOfOne ==
    ASSUME IInv, DataOK, NEW p \in Pagers, NEW t, NEW k,
           pager' = [pager EXCEPT ![p] = t], store' = k,
           LocalOK(t, store.szMax), SameLimit(store, k), StoreFits(k)
    PROVE  DataOK'
<1>1. p \in DOMAIN pager
  BY DEF IInv
<1>2. \A q \in Pagers : pager'[q] = IF q = p THEN t ELSE pager[q]
  BY <1>1
<1>3. store'.szMax = store.szMax /\ StoreTyped(store') /\ StoreFits(store')
  BY DEF SameLimit
<1> QED
  BY <1>2, <1>3 DEF DataOK

\* So does one that leaves the store alone.
LEMMA BecomesOne ==
    ASSUME IInv, DataOK, NEW p \in Pagers, NEW t, Becomes(p, t),
           LocalOK(t, store.szMax)
    PROVE  DataOK'
BY StepOfOne DEF Becomes, DataOK, SameLimit

\* And one that changes both.
LEMMA UpdateOne ==
    ASSUME IInv, DataOK, NEW p \in Pagers, NEW r, Update(p, r),
           LocalOK(r.s, store.szMax), SameLimit(store, r.m), StoreFits(r.m)
    PROVE  DataOK'
BY StepOfOne DEF Update

\* An empty cache and empty journals have their types.
LEMMA EmptyTyped ==
    /\ Typed(NotOpen) /\ Clean(NotOpen) /\ Blank(NotOpen)
    /\ NotOpen.aSavepoint = <<>> /\ NotOpen.cache = <<>>
    /\ NotOpen.eState = NOT_OPEN /\ NotOpen.eLock = NO_LOCK
    /\ NotOpen.memDb = FALSE /\ NotOpen.changeCountDone = FALSE
    /\ NotOpen.dbSize = 0
<1>1. /\ NotOpen.eState = NOT_OPEN /\ NotOpen.memDb = FALSE
      /\ NotOpen.eLock = NO_LOCK /\ NotOpen.hasHeldSharedLock = FALSE
      /\ NotOpen.changeCountDone = FALSE /\ NotOpen.dbFileVers = Zero.vers
      /\ NotOpen.dbSize = 0 /\ NotOpen.dbOrigSize = 0
      /\ NotOpen.dbFileSize = 0 /\ NotOpen.cache = <<>>
      /\ NotOpen.journal = <<>> /\ NotOpen.journalHdr = 0
      /\ NotOpen.sub = <<>> /\ NotOpen.aSavepoint = <<>>
      /\ Fields \subseteq DOMAIN NotOpen
  BY DEF NotOpen, Fields
<1>2. <<>> \in Seq(RecordType) /\ <<>> \in Seq(MarkType)
      /\ 0 \in 0..Len(<<>>) /\ DOMAIN <<>> = {} /\ 0 \in 0..MaxPage
  BY PagerAssumption, EmptySeq
<1>3. IsCache(<<>>)
  BY <1>2 DEF IsCache
<1>4. Typed(NotOpen)
  <2>1. NotOpen.eState \in NOT_OPEN..PAGER_ERROR
        /\ NotOpen.eLock \in {NO_LOCK, SHARED_LOCK, RESERVED_LOCK, EXCLUSIVE_LOCK}
    BY <1>1
  <2>2. /\ NotOpen.memDb \in BOOLEAN /\ NotOpen.changeCountDone \in BOOLEAN
        /\ NotOpen.hasHeldSharedLock \in BOOLEAN
    BY <1>1
  <2>3. /\ NotOpen.dbSize \in 0..MaxPage /\ NotOpen.dbOrigSize \in 0..MaxPage
        /\ NotOpen.dbFileSize \in 0..MaxPage /\ NotOpen.dbFileVers \in VersType
    BY <1>1, <1>2, ZeroContent
  <2>4. /\ IsCache(NotOpen.cache) /\ NotOpen.journal \in Seq(RecordType)
        /\ NotOpen.journalHdr \in 0..Len(NotOpen.journal)
        /\ NotOpen.sub \in Seq(RecordType)
        /\ NotOpen.aSavepoint \in Seq(MarkType)
    BY <1>1, <1>2, <1>3
  <2> QED
    BY <1>1, <2>1, <2>2, <2>3, <2>4 DEF Typed
<1> QED
  BY <1>1, <1>2, <1>4 DEF Clean, Blank

\* sqlite3PagerOpen.
LEMMA OpenKeepsData ==
    ASSUME IInv, DataOK, NEW p \in Pagers, NEW memDb \in BOOLEAN,
           Open(p, memDb)
    PROVE  DataOK'
<1> DEFINE t == OpenedPager(memDb)
           k == CASE memDb -> store
                  [] ~memDb /\ store.nRef = 0 -> Created(store.szMax)
                  [] OTHER -> Shared(store)
<1>1. pager' = [pager EXCEPT ![p] = t] /\ store' = k
  BY DEF Open
<1>2. /\ t.eState = IF memDb THEN PAGER_READER ELSE PAGER_OPEN
      /\ t.eLock = IF memDb THEN EXCLUSIVE_LOCK ELSE NO_LOCK
      /\ t.memDb = memDb /\ t.changeCountDone = memDb
      /\ t.hasHeldSharedLock = NotOpen.hasHeldSharedLock
      /\ t.dbFileVers = NotOpen.dbFileVers /\ t.dbSize = NotOpen.dbSize
      /\ t.dbOrigSize = NotOpen.dbOrigSize
      /\ t.dbFileSize = NotOpen.dbFileSize /\ t.cache = NotOpen.cache
      /\ t.journal = NotOpen.journal /\ t.journalHdr = NotOpen.journalHdr
      /\ t.sub = NotOpen.sub /\ t.aSavepoint = NotOpen.aSavepoint
      /\ Fields \subseteq DOMAIN t
  BY DEF OpenedPager, NotOpen, Fields
<1> HIDE DEF t
<1>3. Typed(t)
  BY <1>2, EmptyTyped DEF Typed
<1>4. DOMAIN t.cache = {}
  BY <1>2, EmptyTyped, EmptySeq
<1>5. Idle(t)
  BY <1>2, <1>3, <1>4, EmptyTyped DEF Idle, Clean, Blank, CounterOK
<1>6. LocalOK(t, store.szMax)
  BY <1>2, <1>5, EmptyTyped DEF LocalOK, Waiting, Reading
<1>7. StoreTyped(store) /\ StoreFits(store)
  BY DEF DataOK
<1>8. SameLimit(store, k) /\ StoreFits(k)
  <2>1. CASE k = store
    BY <1>7, <2>1 DEF SameLimit
  <2>2. CASE k = Created(store.szMax)
    <3>1. /\ k.pages = <<>> /\ k.szMax = store.szMax
          /\ {"pages", "szMax"} \subseteq DOMAIN k
      BY <2>2 DEF Created
    <3>2. <<>> \in Seq(Content) /\ Len(<<>>) = 0
      BY EmptySeq
    <3>3. store.szMax \in Limits /\ store.szMax \in Nat /\ MaxPage \in Nat
      BY <1>7, PagerAssumption DEF StoreTyped
    <3> HIDE DEF k
    <3> QED
      BY <3>1, <3>2, <3>3 DEF SameLimit, StoreTyped, StoreFits
  <2>3. CASE k = Shared(store)
    <3>1. /\ k.pages = store.pages /\ k.szMax = store.szMax
          /\ {"pages", "szMax"} \subseteq DOMAIN k
      BY <1>7, <2>3 DEF Shared, StoreTyped
    <3> HIDE DEF k
    <3> QED
      BY <1>7, <3>1 DEF SameLimit, StoreTyped, StoreFits
  <2> QED
    BY <2>1, <2>2, <2>3
<1> HIDE DEF k
<1> QED
  BY ONLY IInv, DataOK, p \in Pagers, <1>1, <1>6, <1>8, StepOfOne

\* sqlite3PagerClose.
LEMMA CloseKeepsData ==
    ASSUME IInv, DataOK, NEW p \in Pagers, Close(p)
    PROVE  DataOK'
<1> DEFINE k == IF pager[p].memDb THEN store ELSE Closed(store)
<1>1. pager' = [pager EXCEPT ![p] = NotOpen] /\ store' = k
  BY DEF Close
<1>2. LocalOK(NotOpen, store.szMax)
  BY DEF LocalOK
<1>3. StoreTyped(store) /\ StoreFits(store)
  BY DEF DataOK
<1>4. /\ {"pages", "szMax"} \subseteq DOMAIN k /\ k.szMax = store.szMax
      /\ k.pages = store.pages \/ k.pages = <<>>
  BY <1>3 DEF Closed, Created, StoreTyped
<1> HIDE DEF k
<1>5. <<>> \in Seq(Content) /\ Len(<<>>) = 0
  BY EmptySeq
<1>6. store.szMax \in Limits /\ store.szMax \in Nat /\ MaxPage \in Nat
  BY <1>3, PagerAssumption DEF StoreTyped
<1>7. SameLimit(store, k) /\ StoreFits(k)
  <2>1. CASE k.pages = store.pages
    BY <1>3, <1>4, <2>1 DEF SameLimit, StoreTyped, StoreFits
  <2>2. CASE k.pages = <<>>
    BY <1>4, <1>5, <1>6, <2>2 DEF SameLimit, StoreTyped, StoreFits
  <2> QED
    BY <1>4, <2>1, <2>2
<1> QED
  BY ONLY IInv, DataOK, p \in Pagers, <1>1, <1>2, <1>7, StepOfOne

\* The cache without page n.
Without(s, n) == [s EXCEPT !.cache = [i \in DOMAIN @ \ {n} |-> @[i]]]

\* Only the cache loses the page.
LEMMA WithoutFacts ==
    ASSUME NEW s, Typed(s), NEW n
    PROVE  /\ Typed(Without(s, n)) /\ SameFile(s, Without(s, n))
           /\ SameJournals(s, Without(s, n))
           /\ Without(s, n).eState = s.eState
           /\ Without(s, n).dbSize = s.dbSize
           /\ DOMAIN Without(s, n).cache = DOMAIN s.cache \ {n}
           /\ \A i \in DOMAIN s.cache \ {n} :
                 Without(s, n).cache[i] = s.cache[i]
<1> DEFINE c == [i \in DOMAIN s.cache \ {n} |-> s.cache[i]]
           t == [s EXCEPT !.cache = c]
<1>1. Without(s, n) = t
  BY DEF Without
<1>2. DOMAIN c = DOMAIN s.cache \ {n} /\ \A i \in DOMAIN c : c[i] = s.cache[i]
  OBVIOUS
<1> HIDE DEF c
<1>3. IsCache(c)
  BY <1>2 DEF Typed, IsCache
<1>4. /\ SameFile(s, t) /\ SameJournals(s, t) /\ t.eState = s.eState
      /\ t.dbSize = s.dbSize /\ t.cache = c /\ Fields \subseteq DOMAIN t
  BY DEF Typed, Fields, SameFile, SameJournals
<1> HIDE DEF t
<1>5. Typed(t)
  BY <1>3, <1>4 DEF Typed, SameFile, SameJournals
<1> QED
  BY <1>1, <1>2, <1>4, <1>5

\* The cache drops a page.
LEMMA EvictKeepsData ==
    ASSUME IInv, DataOK, NEW p \in Pagers, NEW n, Evict(p, n)
    PROVE  DataOK'
<1> DEFINE s == pager[p]
           t == Without(s, n)
           k == store.szMax
<1>1. /\ ~s.memDb /\ n \in DOMAIN s.cache
      /\ n = 1 => s.eState = PAGER_OPEN
      /\ Becomes(p, t)
  BY DEF Evict, Without
<1>2. LocalOK(s, k)
  BY DEF DataOK
<1> HIDE DEF s, t, k
<1>3. s # NotOpen
  BY <1>1, EmptyTyped, EmptySeq
<1>4. Typed(s)
  BY <1>2, <1>3
     DEF LocalOK, Waiting, Reading, Idle, Changing, Sound, Finished, Failed
<1>5. /\ Typed(t) /\ SameFile(s, t) /\ SameJournals(s, t)
      /\ t.eState = s.eState /\ t.dbSize = s.dbSize
      /\ DOMAIN t.cache = DOMAIN s.cache \ {n}
      /\ \A i \in DOMAIN s.cache \ {n} : t.cache[i] = s.cache[i]
  BY <1>4, WithoutFacts DEF t
<1>6. Idle(s) => Idle(t)
  BY <1>5 DEF Idle, Clean, Blank, CounterOK, SameFile, SameJournals
<1>7. Waiting(s) => Waiting(t)
  BY <1>5, <1>6 DEF Waiting
<1>8. Reading(s, k) => Reading(t, k)
  BY <1>1, <1>5, <1>6 DEF Reading, SameFile
<1>9. Sound(s) => Sound(t)
  <2> SUFFICES ASSUME Sound(s) PROVE Sound(t)
    OBVIOUS
  <2>1. (Clean(s) => Clean(t)) /\ WriteableOK(t) /\ CounterOK(t)
    BY <1>5 DEF Clean, WriteableOK, CounterOK, Sound, SameFile
  <2> QED
    BY <1>5, <2>1
       DEF Sound, InTx, Blank, SameFile, SameJournals, JournalOK, MarksBound,
           MarksInside, Below
<1>10. Changing(s, k) => Changing(t, k)
  <2> SUFFICES ASSUME Changing(s, k) PROVE Changing(t, k)
    OBVIOUS
  <2>1. 1 \in DOMAIN t.cache
    BY <1>1, <1>5 DEF Changing, Sound, InTx
  <2> QED
    BY <1>5, <1>9, <2>1 DEF Changing, SameFile, SameJournals
<1>11. Finished(s, k) => Finished(t, k)
  <2> SUFFICES ASSUME Finished(s, k) PROVE Finished(t, k)
    OBVIOUS
  <2>1. 1 \in DOMAIN t.cache /\ t.cache[1] = s.cache[1]
    BY <1>1, <1>5 DEF Finished
  <2> QED
    BY <1>5, <2>1 DEF Finished, SameFile, SameJournals, MarksBound, CounterOK
<1>12. Failed(s) => Failed(t)
  BY <1>5 DEF Failed, MarksBound, SameFile, SameJournals
<1>13. LocalOK(t, k)
  BY <1>2, <1>3, <1>7, <1>8, <1>10, <1>11, <1>12 DEF LocalOK
<1> QED
  BY <1>1, <1>13, BecomesOne DEF k
-----------------------------------------------------------------------------
(* The calls that begin and end a transaction, or read a page.             *)

\* sqlite3PagerSharedLock, and the first page a reader reads.
LEMMA BeginReadKeepsData ==
    ASSUME IInv, DataOK, NEW p \in Pagers, BeginRead(p)
    PROVE  DataOK'
<1> DEFINE s == pager[p]
           stale == s.hasHeldSharedLock /\ s.dbFileVers # Read(store, 1).vers
           cache == IF stale THEN <<>> ELSE s.cache
           r == [s EXCEPT
            !.eState = PAGER_READER, !.eLock = SHARED_LOCK,
            !.hasHeldSharedLock = TRUE, !.dbSize = Len(store.pages),
            !.cache = cache]
           t == Fetched(r, store, 1)
           k == Locked(store, NO_LOCK, SHARED_LOCK)
<1>1. s.eState = PAGER_OPEN /\ pager' = [pager EXCEPT ![p] = t] /\ store' = k
  BY DEF BeginRead
<1>2. StoreTyped(store) /\ StoreFits(store) /\ LocalOK(s, store.szMax)
  BY DEF DataOK
<1> HIDE DEF s
<1>3. Idle(s)
  BY <1>1, <1>2, LocalCases DEF Waiting
<1>4. Typed(s) /\ Clean(s) /\ CounterOK(s) /\ Blank(s) /\ s.aSavepoint = <<>>
      /\ (~s.memDb => ~s.changeCountDone)
  BY <1>3 DEF Idle
<1>5. cache = s.cache \/ cache = <<>>
  OBVIOUS
<1> HIDE DEF cache
<1>6. IsCache(cache) /\ DOMAIN cache \subseteq DOMAIN s.cache
      /\ \A n \in DOMAIN cache : cache[n] = s.cache[n]
  BY <1>4, <1>5, EmptyTyped, EmptySeq DEF Typed
<1>7. Len(store.pages) \in 0..MaxPage /\ Len(store.pages) <= store.szMax
  <2>1. Len(store.pages) \in Nat /\ Len(store.pages) <= MaxPage
    BY <1>2, LenProperties DEF StoreTyped
  <2> QED
    BY <1>2, <2>1, PagerAssumption DEF StoreFits
<1>8. /\ r.eState = PAGER_READER /\ r.eLock = SHARED_LOCK
      /\ r.hasHeldSharedLock = TRUE /\ r.dbSize = Len(store.pages)
      /\ r.cache = cache /\ r.memDb = s.memDb
      /\ r.changeCountDone = s.changeCountDone
      /\ r.dbFileVers = s.dbFileVers /\ r.dbOrigSize = s.dbOrigSize
      /\ r.dbFileSize = s.dbFileSize /\ SameJournals(s, r)
      /\ Fields \subseteq DOMAIN r
  BY <1>4 DEF Typed, Fields, SameJournals
<1> HIDE DEF r
<1>9. Typed(r)
  <2>1. r.eState \in NOT_OPEN..PAGER_ERROR
        /\ r.eLock \in {NO_LOCK, SHARED_LOCK, RESERVED_LOCK, EXCLUSIVE_LOCK}
    BY <1>8
  <2>2. r.hasHeldSharedLock \in BOOLEAN
    BY <1>8
  <2>3. /\ r.memDb \in BOOLEAN /\ r.changeCountDone \in BOOLEAN
        /\ r.dbSize \in 0..MaxPage /\ r.dbOrigSize \in 0..MaxPage
        /\ r.dbFileSize \in 0..MaxPage /\ r.dbFileVers \in VersType
        /\ IsCache(r.cache)
    BY <1>4, <1>6, <1>7, <1>8 DEF Typed
  <2>4. /\ r.journal \in Seq(RecordType) /\ r.journalHdr \in 0..Len(r.journal)
        /\ r.sub \in Seq(RecordType) /\ r.aSavepoint \in Seq(MarkType)
    BY <1>4, <1>8 DEF Typed, SameJournals
  <2> QED
    BY <1>8, <2>1, <2>2, <2>3, <2>4 DEF Typed
<1>10. Fetches(r, store, t, 1)
  BY <1>2, <1>9, PagerAssumption, FetchedFacts
<1> HIDE DEF t
<1>11. /\ Typed(t) /\ SameJournals(r, t) /\ t.eState = PAGER_READER
       /\ t.memDb = s.memDb /\ t.changeCountDone = s.changeCountDone
       /\ t.dbSize = Len(store.pages) /\ DOMAIN t.cache = DOMAIN cache \cup {1}
       /\ \A n \in DOMAIN cache : t.cache[n] = s.cache[n]
  BY <1>6, <1>8, <1>10 DEF Fetches
<1>12. 1 \notin DOMAIN cache =>
         t.cache[1] = CleanPage(IF ~s.memDb /\ 1 <= t.dbSize
                                THEN Read(store, 1) ELSE Zero)
  BY <1>8, <1>10, <1>11 DEF Fetches
<1>13. Clean(t)
  <2>1. \A n \in DOMAIN cache : ~t.cache[n].dirty /\ ~t.cache[n].writeable
                                /\ ~t.cache[n].needSync
    BY <1>4, <1>6, <1>11 DEF Clean
  <2>2. 1 \notin DOMAIN cache =>
           ~t.cache[1].dirty /\ ~t.cache[1].writeable /\ ~t.cache[1].needSync
    BY <1>12 DEF CleanPage
  <2> QED
    BY <1>11, <2>1, <2>2 DEF Clean
<1>14. CounterOK(t)
  <2>1. t.dbFileVers.counter \in Nat
    BY <1>11 DEF Typed, VersType
  <2>2. CASE 1 \in DOMAIN cache
    <3>1. t.dbFileVers = s.dbFileVers
      BY <1>8, <1>10, <2>2 DEF Fetches
    <3> QED
      BY <1>4, <1>6, <1>11, <2>2, <3>1 DEF CounterOK
  <2>3. CASE 1 \notin DOMAIN cache /\ ~s.memDb /\ 1 <= t.dbSize
    <3>1. t.cache[1].c = Read(store, 1)
      BY <1>12, <2>3 DEF CleanPage
    <3>2. t.dbFileVers = Read(store, 1).vers
      BY <1>8, <1>10, <1>11, <2>3 DEF Fetches
    <3> QED
      BY <2>1, <3>1, <3>2 DEF CounterOK
  <2>4. CASE 1 \notin DOMAIN cache /\ ~(~s.memDb /\ 1 <= t.dbSize)
    <3>1. t.cache[1].c = Zero
      BY <1>12, <2>4 DEF CleanPage
    <3> QED
      BY <2>1, <3>1, ZeroContent DEF CounterOK
  <2> QED
    BY <2>2, <2>3, <2>4
<1>15. Blank(t) /\ t.aSavepoint = <<>>
  BY <1>4, <1>8, <1>11 DEF Blank, SameJournals
<1>16. Idle(t)
  BY <1>4, <1>11, <1>13, <1>14, <1>15 DEF Idle
<1>17. LocalOK(t, store.szMax)
  BY <1>7, <1>11, <1>16 DEF LocalOK, Reading
<1>18. SameLimit(store, k) /\ k.pages = store.pages
  BY <1>2, LockedFacts
<1> HIDE DEF k
<1>19. StoreFits(k)
  BY <1>2, <1>18 DEF StoreFits, SameLimit
<1> QED
  BY ONLY IInv, DataOK, p \in Pagers, <1>1, <1>17, <1>18, <1>19, StepOfOne

\* pagerUnlockAndRollback.
LEMMA EndReadKeepsData ==
    ASSUME IInv, DataOK, NEW p \in Pagers, EndRead(p)
    PROVE  DataOK'
<1> DEFINE s == pager[p]
           cache == IF s.eState = PAGER_ERROR THEN <<>> ELSE s.cache
           t == [s EXCEPT !.eState = PAGER_OPEN, !.eLock = NO_LOCK,
                     !.changeCountDone = FALSE,
                     !.cache = cache,
                     !.dbSize = 0, !.dbOrigSize = 0, !.dbFileSize = 0,
                     !.journal = <<>>, !.journalHdr = 0,
                     !.sub = <<>>, !.aSavepoint = <<>>]
           k == Locked(store, s.eLock, NO_LOCK)
<1>1. /\ s.eState \in {PAGER_READER, PAGER_ERROR} /\ ~s.memDb
      /\ pager' = [pager EXCEPT ![p] = t] /\ store' = k
  BY DEF EndRead, Update, Unlocked
<1>2. StoreTyped(store) /\ StoreFits(store) /\ LocalOK(s, store.szMax)
  BY DEF DataOK
<1> HIDE DEF s
<1>3. Typed(s) /\ (s.eState = PAGER_READER => Idle(s))
  <2>1. CASE s.eState = PAGER_READER
    <3>1. Idle(s)
      BY <1>2, <2>1, LocalCases DEF Reading
    <3> QED
      BY <3>1 DEF Idle
  <2>2. CASE s.eState = PAGER_ERROR
    BY <1>2, <2>2, LocalCases DEF Failed
  <2> QED
    BY <1>1, <2>1, <2>2
<1>4. cache = <<>> \/ (cache = s.cache /\ Idle(s))
  <2>1. CASE s.eState = PAGER_READER
    <3>1. cache = s.cache
      BY <2>1
    <3> HIDE DEF cache
    <3> QED
      BY <1>3, <2>1, <3>1
  <2>2. CASE s.eState = PAGER_ERROR
    BY <2>2
  <2> QED
    BY <1>1, <2>1, <2>2
<1> HIDE DEF cache
<1>5. DOMAIN <<>> = {} /\ IsCache(<<>>)
  BY EmptyTyped, EmptySeq DEF Typed
<1>6. /\ t.eState = PAGER_OPEN /\ t.eLock = NO_LOCK
      /\ t.changeCountDone = FALSE /\ t.cache = cache
      /\ t.dbSize = 0 /\ t.dbOrigSize = 0 /\ t.dbFileSize = 0
      /\ t.journal = <<>> /\ t.journalHdr = 0 /\ t.sub = <<>>
      /\ t.aSavepoint = <<>> /\ t.memDb = s.memDb
      /\ t.hasHeldSharedLock = s.hasHeldSharedLock
      /\ t.dbFileVers = s.dbFileVers /\ Fields \subseteq DOMAIN t
  BY <1>3 DEF Typed, Fields
<1> HIDE DEF t
<1>7. IsCache(t.cache)
  BY <1>3, <1>4, <1>5, <1>6 DEF Typed
<1>8. Typed(t)
  <2>1. <<>> \in Seq(RecordType) /\ <<>> \in Seq(MarkType)
        /\ 0 \in 0..Len(<<>>) /\ 0 \in 0..MaxPage
    BY PagerAssumption, EmptySeq
  <2>2. t.eState \in NOT_OPEN..PAGER_ERROR
        /\ t.eLock \in {NO_LOCK, SHARED_LOCK, RESERVED_LOCK, EXCLUSIVE_LOCK}
    BY <1>6
  <2>3. /\ t.memDb \in BOOLEAN /\ t.changeCountDone \in BOOLEAN
        /\ t.hasHeldSharedLock \in BOOLEAN
    BY <1>3, <1>6 DEF Typed
  <2>4. /\ t.dbSize \in 0..MaxPage /\ t.dbOrigSize \in 0..MaxPage
        /\ t.dbFileSize \in 0..MaxPage /\ t.dbFileVers \in VersType
    BY <1>3, <1>6, <2>1 DEF Typed
  <2>5. /\ t.journal \in Seq(RecordType) /\ t.journalHdr \in 0..Len(t.journal)
        /\ t.sub \in Seq(RecordType) /\ t.aSavepoint \in Seq(MarkType)
    BY <1>6, <2>1
  <2> QED
    BY <1>6, <1>7, <2>2, <2>3, <2>4, <2>5 DEF Typed
<1>9. Clean(t) /\ CounterOK(t)
  BY <1>4, <1>5, <1>6 DEF Idle, Clean, CounterOK
<1>10. LocalOK(t, store.szMax)
  BY <1>6, <1>8, <1>9 DEF LocalOK, Waiting, Idle, Blank
<1>11. SameLimit(store, k) /\ k.pages = store.pages
  BY <1>2, LockedFacts
<1> HIDE DEF k
<1>12. StoreFits(k)
  BY <1>2, <1>11 DEF StoreFits, SameLimit
<1> QED
  BY ONLY IInv, DataOK, p \in Pagers, <1>1, <1>10, <1>11, <1>12, StepOfOne

\* A page other than the first joins the cache of a pager in a transaction.
LEMMA FetchedChanges ==
    ASSUME NEW s, NEW k, Changing(s, k), NEW m, StoreTyped(m), NEW n \in 1..MaxPage
    PROVE  /\ Changing(Fetched(s, m, n), k)
           /\ Fetched(s, m, n).eState = s.eState
           /\ Fetched(s, m, n).dbSize = s.dbSize
           /\ n \in DOMAIN Fetched(s, m, n).cache
<1> DEFINE t == Fetched(s, m, n)
<1>1. /\ Sound(t) /\ SameFile(s, t) /\ SameJournals(s, t)
      /\ t.eState = s.eState /\ t.dbSize = s.dbSize
      /\ DOMAIN t.cache = DOMAIN s.cache \cup {n}
  BY FetchedSound DEF Changing
<1> HIDE DEF t
<1>2. Changing(t, k)
  BY <1>1 DEF Changing, SameFile, SameJournals
<1> QED
  BY <1>1, <1>2 DEF t

\* sqlite3PagerGet.
LEMMA GetKeepsData ==
    ASSUME IInv, DataOK, NEW p \in Pagers, NEW n \in 1..MaxPage, Get(p, n)
    PROVE  DataOK'
<1> DEFINE s == pager[p]
           t == Fetched(s, store, n)
           k == store.szMax
<1>1. /\ s.eState \in PAGER_READER..PAGER_WRITER_DBMOD
      /\ n \in 1..s.dbSize /\ n \notin DOMAIN s.cache /\ Becomes(p, t)
  BY DEF Get
<1>2. StoreTyped(store) /\ LocalOK(s, k)
  BY DEF DataOK
<1> HIDE DEF s, k
<1>3. CASE s.eState = PAGER_READER
  <2>1. Reading(s, k)
    BY <1>2, <1>3, LocalCases
  <2>2. Typed(s) /\ s.dbSize \in Nat
    BY <2>1 DEF Reading, Idle, Typed
  <2>3. 1 \in DOMAIN s.cache /\ n # 1
    BY <1>1, <2>1, <2>2 DEF Reading
  <2>4. Fetches(s, store, t, n)
    BY <1>2, <2>2, FetchedFacts
  <2> HIDE DEF t
  <2>5. Clean(t)
    <3>1. \A i \in DOMAIN t.cache :
             i \in DOMAIN s.cache \/
             (~t.cache[i].dirty /\ ~t.cache[i].writeable /\ ~t.cache[i].needSync)
      BY <1>1, <2>4 DEF Fetches, CleanPage
    <3> QED
      BY <2>1, <2>4, <3>1 DEF Clean, Reading, Idle, Fetches
  <2>6. CounterOK(t)
    BY <2>1, <2>3, <2>4 DEF Reading, Idle, CounterOK, Fetches
  <2>7. Idle(t)
    BY <2>1, <2>4, <2>5, <2>6 DEF Reading, Idle, Fetches, SameJournals, Blank
  <2>8. Reading(t, k)
    BY <2>1, <2>3, <2>4, <2>7 DEF Reading, Fetches
  <2> QED
    BY <1>1, <2>8, BecomesOne DEF LocalOK, k
<1>4. CASE InTx(s)
  <2>1. Changing(s, k)
    BY <1>2, <1>4, LocalCases
  <2>2. Changing(t, k)
    BY <1>2, <2>1, FetchedChanges
  <2> QED
    BY <1>1, <2>2, BecomesOne DEF LocalOK, k
<1> QED
  BY <1>1, <1>3, <1>4 DEF InTx

\* sqlite3BtreeBeginTrans: an empty database gets its first page.
LEMMA BeginWriteKeepsData ==
    ASSUME IInv, DataOK, NEW p \in Pagers, NEW exFlag \in BOOLEAN,
           BeginWrite(p, exFlag)
    PROVE  DataOK'
<1> DEFINE s == pager[p]
           want == IF exFlag THEN EXCLUSIVE_LOCK ELSE RESERVED_LOCK
           lock == IF s.memDb THEN s.eLock ELSE want
           w == [s EXCEPT !.eState = PAGER_WRITER_LOCKED, !.eLock = lock,
                          !.dbOrigSize = s.dbSize, !.dbFileSize = s.dbSize]
           t == NewDatabase(w, store)
           l == IF s.memDb THEN store ELSE Locked(store, s.eLock, want)
           k == store.szMax
<1>1. /\ s.eState = PAGER_READER /\ s.dbFileVers.counter < MaxVer
      /\ pager' = [pager EXCEPT ![p] = t] /\ store' = l
  BY DEF BeginWrite, Update
<1>2. StoreTyped(store) /\ StoreFits(store) /\ LocalOK(s, k)
  BY DEF DataOK
<1>3. SameLimit(store, l) /\ l.pages = store.pages
  BY <1>2, LockedFacts DEF SameLimit
<1>4. StoreFits(l)
  BY <1>2, <1>3 DEF StoreFits, SameLimit
<1> HIDE DEF s, k, l
<1>5. Reading(s, k)
  BY <1>1, <1>2, LocalCases
<1>6. Typed(s) /\ Clean(s) /\ Blank(s) /\ s.aSavepoint = <<>> /\ CounterOK(s)
      /\ (~s.memDb => ~s.changeCountDone)
  BY <1>5 DEF Reading, Idle
<1>7. lock \in {NO_LOCK, SHARED_LOCK, RESERVED_LOCK, EXCLUSIVE_LOCK}
  BY <1>6 DEF Typed
<1> HIDE DEF lock
<1>8. /\ w.eState = PAGER_WRITER_LOCKED /\ w.eLock = lock
      /\ w.dbOrigSize = s.dbSize /\ w.dbFileSize = s.dbSize
      /\ w.memDb = s.memDb /\ w.hasHeldSharedLock = s.hasHeldSharedLock
      /\ w.changeCountDone = s.changeCountDone /\ w.dbFileVers = s.dbFileVers
      /\ w.dbSize = s.dbSize /\ w.cache = s.cache /\ SameJournals(s, w)
      /\ Fields \subseteq DOMAIN w
  BY <1>6 DEF Typed, Fields, SameJournals
<1> HIDE DEF w
<1>9. Typed(w)
  BY <1>6, <1>7, <1>8 DEF Typed, SameJournals
<1>10. w.journal = <<>> /\ w.sub = <<>> /\ w.aSavepoint = <<>>
       /\ w.journalHdr = 0
  BY <1>6, <1>8 DEF Blank, SameJournals
<1>11. JournalOK(w) /\ MarksBound(w) /\ MarksInside(w)
       /\ BelowRecords(w.journal) /\ BelowRecords(w.sub)
  <2>1. DOMAIN <<>> = {}
    BY EmptySeq
  <2> QED
    BY <1>10, <2>1 DEF JournalOK, MarksBound, MarksInside, BelowRecords
<1>12. Clean(w) /\ WriteableOK(w) /\ CounterOK(w)
  BY <1>6, <1>8 DEF Clean, WriteableOK, CounterOK
<1>13. Sound(w)
  BY <1>1, <1>6, <1>8, <1>9, <1>10, <1>11, <1>12
     DEF Sound, InTx, Blank, Below
<1>14. s.dbSize \in 0..MaxPage
  BY <1>6 DEF Typed
<1>15. w.dbSize > 0 => 1 \in DOMAIN w.cache
  BY <1>5, <1>8 DEF Reading
<1>16. /\ Sound(t) /\ SameFile(w, t) /\ 1 \in DOMAIN t.cache /\ t.sub = w.sub
       /\ t.dbSize = IF w.dbSize = 0 THEN 1 ELSE w.dbSize
       /\ t.eState = IF w.dbSize = 0 /\ w.eState = PAGER_WRITER_LOCKED
                     THEN PAGER_WRITER_CACHEMOD ELSE w.eState
  BY <1>2, <1>10, <1>13, <1>15, NewDatabaseSound
<1> HIDE DEF t
<1>17. Len(t.sub) <= MaxSub
  BY <1>10, <1>16, EmptySeq, PagerAssumption
<1>18. /\ 1 <= t.dbSize
       /\ t.eState = PAGER_WRITER_LOCKED => t.dbSize = t.dbOrigSize
       /\ ~t.memDb => t.dbOrigSize <= k /\ t.dbFileSize <= k
  BY <1>5, <1>8, <1>14, <1>16 DEF SameFile, Reading
<1>19. LocalOK(t, k)
  BY <1>16, <1>17, <1>18 DEF LocalOK, Changing
<1>20. LocalOK(t, store.szMax)
  BY <1>19 DEF k
<1> QED
  BY ONLY IInv, DataOK, p \in Pagers, <1>1, <1>3, <1>4, <1>20, StepOfOne
-----------------------------------------------------------------------------
(* The calls that change pages.                                            *)

\* A pager in the middle of a call that changes pages.
Altering(s, k) ==
    /\ Sound(s) /\ s.eState # PAGER_WRITER_LOCKED
    /\ 1 \in DOMAIN s.cache /\ 1 <= s.dbSize
    /\ ~s.memDb => s.dbOrigSize <= k /\ s.dbFileSize <= k

\* Page n is read and made writable.
WritablePage(s, m, n) == PagerWrite(Fetched(s, m, n), n)

\* From there on the pager is changing pages.
LEMMA WritablePageAlters ==
    ASSUME NEW s, NEW k, Altering(s, k) \/ Changing(s, k),
           NEW m, StoreTyped(m), NEW n \in 1..MaxPage
    PROVE  /\ Altering(WritablePage(s, m, n), k)
           /\ n \in DOMAIN WritablePage(s, m, n).cache
<1> DEFINE f == Fetched(s, m, n)
           t == WritablePage(s, m, n)
<1>1. /\ Sound(s) /\ 1 \in DOMAIN s.cache /\ 1 <= s.dbSize
      /\ ~s.memDb => s.dbOrigSize <= k /\ s.dbFileSize <= k
  BY DEF Altering, Changing
<1>2. /\ Sound(f) /\ SameFile(s, f) /\ f.eState = s.eState
      /\ f.dbSize = s.dbSize /\ DOMAIN f.cache = DOMAIN s.cache \cup {n}
  BY <1>1, FetchedSound
<1>3. t = PagerWrite(f, n)
  BY DEF WritablePage
<1> HIDE DEF f, t
<1>4. Writable(f, t, n)
  BY <1>2, <1>3, PagerWriteSound
<1>5. s.dbSize \in Nat
  BY <1>1 DEF Sound, Typed
<1>6. /\ Sound(t) /\ SameFile(s, t) /\ t.eState # PAGER_WRITER_LOCKED
      /\ DOMAIN t.cache = DOMAIN s.cache \cup {n}
      /\ t.dbSize = IF n > s.dbSize THEN n ELSE s.dbSize
  BY <1>2, <1>4 DEF Writable, SameFile
<1>7. 1 <= t.dbSize
  BY <1>1, <1>5, <1>6
<1> QED
  BY <1>1, <1>6, <1>7 DEF Altering, SameFile, t

\* A page that keeps its counter is edited.
LEMMA EditAlters ==
    ASSUME NEW s, NEW k, Altering(s, k), NEW n \in DOMAIN s.cache,
           NEW c \in Content, n = 1 => c.vers.counter = s.cache[1].c.vers.counter,
           NEW t, t = [s EXCEPT !.cache[n].c = c]
    PROVE  /\ Altering(t, k) /\ t.sub = s.sub /\ t.dbSize = s.dbSize
           /\ DOMAIN t.cache = DOMAIN s.cache
<1>1. Sound(s) /\ Typed(s) /\ s.eState # PAGER_WRITER_LOCKED /\ CounterOK(s)
  BY DEF Altering, Sound
<1>2. Edits(s, t, n, c)
  BY <1>1, EditFacts
<1>3. n = 1 => c.vers.counter <= s.dbFileVers.counter
  BY <1>1 DEF CounterOK
<1>4. /\ Sound(t) /\ SameFile(s, t) /\ SameJournals(s, t)
      /\ t.eState = s.eState /\ t.dbSize = s.dbSize
      /\ DOMAIN t.cache = DOMAIN s.cache
  BY ONLY n \in DOMAIN s.cache, c \in Content, <1>1, <1>2, <1>3, EditSound
<1> QED
  BY <1>4 DEF Altering, SameFile, SameJournals

\* A page that was edited within the bounds.
LEMMA AlteredLocal ==
    ASSUME NEW s, NEW k, Altering(s, k), Len(s.sub) <= MaxSub
    PROVE  LocalOK(s, k)
BY DEF Altering, Changing, LocalOK

\* The b-tree writes a page.
LEMMA WriteKeepsData ==
    ASSUME IInv, DataOK, NEW p \in Pagers, NEW n \in 1..MaxPage, NEW v \in Vals,
           Write(p, n, v)
    PROVE  DataOK'
<1> DEFINE k == store.szMax
           s == WritablePage(pager[p], store, n)
           c == [s.cache[n].c EXCEPT !.val = v]
           t == [s EXCEPT !.cache[n].c = c]
<1>1. Becomes(p, t) /\ Len(s.sub) <= MaxSub /\ Writing(p)
  BY DEF Write, WritablePage
<1>2. Changing(pager[p], k) /\ StoreTyped(store)
  BY <1>1, LocalCases DEF DataOK, Writing, InTx
<1>3. Altering(s, k) /\ n \in DOMAIN s.cache
  BY <1>2, WritablePageAlters
<1> HIDE DEF s
<1>4. s.cache[n].c \in Content
  BY <1>3 DEF Altering, Sound, Typed, IsCache, PageType
<1>5. c \in Content /\ c.vers = s.cache[n].c.vers
  BY <1>4 DEF Content
<1> HIDE DEF c
<1>6. t = [s EXCEPT !.cache[n].c = c]
  OBVIOUS
<1> HIDE DEF t
<1>7. Altering(t, k) /\ t.sub = s.sub
  BY <1>3, <1>5, <1>6, EditAlters
<1>8. LocalOK(t, k)
  BY <1>1, <1>7, AlteredLocal
<1> QED
  BY <1>1, <1>8, BecomesOne DEF k

\* allocateBtreePage.
LEMMA AllocateKeepsData ==
    ASSUME IInv, DataOK, NEW p \in Pagers, NEW v \in Vals, Allocate(p, v)
    PROVE  DataOK'
<1> DEFINE k == store.szMax
           n == pager[p].dbSize + 1
           one == WritablePage(pager[p], store, 1)
           b == [one.cache[1].c EXCEPT !.vers.nPage = n]
           counted == [one EXCEPT !.cache[1].c = b]
           s == WritablePage(counted, store, n)
           c == [s.cache[n].c EXCEPT !.val = v]
           t == [s EXCEPT !.cache[n].c = c]
<1>1. Becomes(p, t) /\ Len(s.sub) <= MaxSub /\ Writing(p)
  BY DEF Allocate, WritablePage
<1>0. n <= MaxPage
  BY DEF Allocate
<1>2. Changing(pager[p], k) /\ StoreTyped(store)
  BY <1>1, LocalCases DEF DataOK, Writing, InTx
<1>3. n \in 1..MaxPage /\ n # 1 /\ 1 \in 1..MaxPage
  <2>1. pager[p].dbSize \in Nat /\ 1 <= pager[p].dbSize
    BY <1>2 DEF Changing, Sound, Typed
  <2> QED
    BY <1>0, <2>1, PagerAssumption
<1>4. Altering(one, k) /\ 1 \in DOMAIN one.cache
  BY <1>2, <1>3, WritablePageAlters
<1> HIDE DEF one, n
<1>5. one.cache[1].c \in Content
  BY <1>4 DEF Altering, Sound, Typed, IsCache, PageType
<1>6. b \in Content /\ b.vers.counter = one.cache[1].c.vers.counter
  BY <1>3, <1>5 DEF Content, VersType
<1> HIDE DEF b
<1>7. counted = [one EXCEPT !.cache[1].c = b]
  OBVIOUS
<1> HIDE DEF counted
<1>8. Altering(counted, k)
  BY <1>4, <1>6, <1>7, EditAlters
<1>9. Altering(s, k) /\ n \in DOMAIN s.cache
  BY <1>2, <1>3, <1>8, WritablePageAlters
<1> HIDE DEF s
<1>10. s.cache[n].c \in Content
  BY <1>9 DEF Altering, Sound, Typed, IsCache, PageType
<1>11. c \in Content /\ c.vers = s.cache[n].c.vers
  BY <1>10 DEF Content
<1> HIDE DEF c
<1>12. t = [s EXCEPT !.cache[n].c = c]
  OBVIOUS
<1> HIDE DEF t
<1>13. Altering(t, k) /\ t.sub = s.sub
  BY <1>3, <1>9, <1>11, <1>12, EditAlters
<1>14. LocalOK(t, k)
  BY <1>1, <1>13, AlteredLocal
<1> QED
  BY <1>1, <1>14, BecomesOne DEF k

\* pagerStress: the page it writes is clean afterwards; if the page does not
\* fit, the pager is in error.
LEMMA SpillKeepsData ==
    ASSUME IInv, DataOK, NEW p \in Pagers, NEW n \in 1..MaxPage, Spill(p, n)
    PROVE  DataOK'
<1> DEFINE k == store.szMax
           s == pager[p]
           unsynced == s.cache[n].needSync \/ s.eState = PAGER_WRITER_CACHEMOD
           y == IF unsynced THEN syncJournal(s, store)
                            ELSE [s |-> s, m |-> store]
           w == WritePages(y.s, y.m, {n})
           x == CleanPage(w.s.cache[n].c)
           t == [w.s EXCEPT !.cache[n] = CleanPage(@.c)]
           size == IF n > w.s.dbFileSize THEN n ELSE w.s.dbFileSize
           e == [w.s EXCEPT !.eState = PAGER_ERROR,
                            !.dbFileSize = IF n > @ THEN n ELSE @]
           r == [s |-> IF w.ok THEN t ELSE e, m |-> w.m]
<1>1. /\ s.eState \in {PAGER_WRITER_CACHEMOD, PAGER_WRITER_DBMOD} /\ ~s.memDb
      /\ n \in Dirty(s) /\ n # 1
  BY ONLY Spill(p, n), Zenon DEF Spill
<1>0. Update(p, r)
  BY ONLY Spill(p, n), Zenon DEF Spill
<1>25. t = [w.s EXCEPT !.cache[n] = x]
  OBVIOUS
<1>2. StoreTyped(store) /\ StoreFits(store) /\ Changing(s, k)
  BY <1>1, LocalCases DEF DataOK, InTx
<1> HIDE DEF s
<1>3. Sound(s) /\ Typed(s) /\ s.dbOrigSize <= k /\ s.dbFileSize <= k
      /\ 1 \in DOMAIN s.cache /\ 1 <= s.dbSize /\ Len(s.sub) <= MaxSub
  BY <1>1, <1>2 DEF Changing, Sound
<1>4. /\ Typed(y.s) /\ SameLimit(store, y.m) /\ y.m.pages = store.pages
      /\ y.s.eState = PAGER_WRITER_DBMOD
      /\ y.s.memDb = s.memDb /\ y.s.changeCountDone = s.changeCountDone
      /\ y.s.dbFileVers = s.dbFileVers /\ y.s.dbSize = s.dbSize
      /\ y.s.dbOrigSize = s.dbOrigSize /\ y.s.dbFileSize = s.dbFileSize
      /\ y.s.journal = s.journal /\ y.s.sub = s.sub
      /\ y.s.aSavepoint = s.aSavepoint /\ DOMAIN y.s.cache = DOMAIN s.cache
      /\ \A i \in DOMAIN s.cache :
            /\ y.s.cache[i].c = s.cache[i].c
            /\ y.s.cache[i].dirty = s.cache[i].dirty
            /\ y.s.cache[i].writeable = s.cache[i].writeable
  <2>1. CASE unsynced
    <3>1. y = syncJournal(s, store)
      BY <2>1
    <3>2. Syncs(s, store, y.s, y.m)
      BY <1>2, <1>3, <3>1, SyncFacts
    <3> HIDE DEF y, unsynced
    <3> QED
      BY <3>2 DEF Syncs
  <2>2. CASE ~unsynced
    <3>1. y.s = s /\ y.m = store /\ s.eState = PAGER_WRITER_DBMOD
      BY <1>1, <2>2
    <3> HIDE DEF y, unsynced
    <3> QED
      BY <1>2, <1>3, <3>1 DEF SameLimit
  <2> HIDE DEF y, unsynced
  <2> QED
    BY <2>1, <2>2
<1> HIDE DEF y
<1> DEFINE W == Taken(y.s, y.m, {n})
<1>5. n \in DOMAIN y.s.cache /\ StoreTyped(y.m)
  BY <1>1, <1>4 DEF Dirty, SameLimit
<1>6. WritesPages(y.s, y.m, {n}, w)
  BY <1>1, <1>4, <1>5, WritePagesFacts
<1> HIDE DEF w
<1>7. 1 \notin W /\ W \subseteq {n} /\ W \in SUBSET (1..MaxPage)
  BY <1>1 DEF Taken, Wanted
<1>8. /\ Typed(w.s) /\ SameJournals(y.s, w.s)
      /\ w.s.eState = PAGER_WRITER_DBMOD /\ w.s.memDb = s.memDb
      /\ w.s.changeCountDone = s.changeCountDone
      /\ w.s.dbSize = s.dbSize /\ w.s.dbOrigSize = s.dbOrigSize
      /\ w.s.dbFileSize = Max(W \cup {s.dbFileSize})
      /\ w.s.cache = y.s.cache /\ w.s.dbFileVers = s.dbFileVers
      /\ w.m = Written(y.m, W, [i \in W |-> w.s.cache[i].c])
      /\ SameLimit(y.m, w.m)
  BY <1>4, <1>6, <1>7 DEF WritesPages
<1>9. \A i \in W : Fits(y.m, i) /\ i <= k
  BY <1>4 DEF Taken, Fits, SameLimit
<1> HIDE DEF W
<1>10. SameLimit(store, w.m)
  BY <1>4, <1>8 DEF SameLimit
<1>11. StoreFits(w.m)
  <2> DEFINE content == [i \in W |-> w.s.cache[i].c]
  <2>1. \A i \in W : w.s.cache[i].c \in Content
    BY <1>5, <1>7, <1>8 DEF Typed, IsCache, PageType
  <2>2. \A i \in W : content[i] \in Content
    BY <2>1
  <2>3. w.m = Written(y.m, W, content)
    BY <1>8
  <2> HIDE DEF content
  <2>4. StoreFits(y.m)
    BY <1>2, <1>4 DEF StoreFits, SameLimit
  <2>5. StoreFits(y.m) /\ (\A i \in W : Fits(y.m, i))
           => StoreFits(Written(y.m, W, content))
    BY <1>5, <1>7, <2>2, WrittenFacts
  <2> QED
    BY ONLY <1>9, <2>3, <2>4, <2>5
<1>12. k \in Nat /\ s.dbFileSize \in 0..MaxPage
  BY <1>2, <1>3, PagerAssumption DEF StoreTyped, Typed
<1>13. w.s.dbFileSize <= k
  <2>1. Max(W \cup {s.dbFileSize}) <= k
    BY <1>3, <1>7, <1>9, <1>12, MaxWith
  <2> QED
    BY <1>8, <2>1
<1>14. r.s = IF w.ok THEN t ELSE e
  OBVIOUS
<1>15. r.m = w.m
  OBVIOUS
<1>16. n \in DOMAIN w.s.cache /\ w.s.cache[n].c \in Content
  BY <1>5, <1>8 DEF Typed, IsCache, PageType
<1>17. CleanWith(x, w.s.cache[n].c)
  BY <1>16, CleanPageFacts
<1> HIDE DEF x
<1>18. /\ SameFile(w.s, t) /\ SameJournals(w.s, t) /\ t.eState = w.s.eState
       /\ t.dbSize = w.s.dbSize /\ Fields \subseteq DOMAIN t
       /\ SameOthers(w.s, t, n) /\ t.cache[n] = x
  BY <1>8, <1>16, <1>25 DEF Typed, Fields, SameFile, SameJournals, SameOthers
<1>26. size \in 0..MaxPage
  BY <1>8 DEF Typed
<1>27. e = [w.s EXCEPT !.eState = PAGER_ERROR, !.dbFileSize = size]
  OBVIOUS
<1> HIDE DEF size
<1>19. /\ e.memDb = w.s.memDb /\ e.eLock = w.s.eLock
       /\ e.hasHeldSharedLock = w.s.hasHeldSharedLock
       /\ e.changeCountDone = w.s.changeCountDone
       /\ e.dbFileVers = w.s.dbFileVers /\ e.dbOrigSize = w.s.dbOrigSize
       /\ e.dbFileSize = size
       /\ SameJournals(w.s, e) /\ e.eState = PAGER_ERROR
       /\ e.dbSize = w.s.dbSize /\ Fields \subseteq DOMAIN e
       /\ e.cache = w.s.cache
  BY <1>8, <1>27 DEF Typed, Fields, SameJournals
<1> HIDE DEF t, e, r
<1>20. Failed(e)
  <2>1. Typed(e)
    <3>1. e.eState \in NOT_OPEN..PAGER_ERROR
      BY <1>19
    <3> QED
      BY <1>8, <1>19, <1>26, <3>1 DEF Typed, SameJournals
  <2>2. MarksBound(e)
    BY <1>3, <1>4, <1>8, <1>19 DEF MarksBound, SameJournals, Sound
  <2> QED
    BY <1>1, <1>8, <1>19, <2>1, <2>2 DEF Failed
<1>21. Changing(t, k)
  <2>1. IsCache(t.cache)
    BY <1>8, <1>16, <1>17, <1>18, CacheExcept DEF Typed, SameOthers, CleanWith
  <2>2. Typed(t)
    BY <1>8, <1>18, <2>1 DEF Typed, SameFile, SameJournals
  <2>3. WriteableOK(t)
    <3>1. \A i \in DOMAIN s.cache : s.cache[i].writeable => s.cache[i].dirty
      BY <1>3 DEF Sound, WriteableOK
    <3>2. \A i \in DOMAIN w.s.cache : w.s.cache[i].writeable => w.s.cache[i].dirty
      BY <1>4, <1>8, <3>1
    <3>3. ~t.cache[n].writeable
      BY <1>17, <1>18 DEF CleanWith
    <3> QED
      BY <1>18, <3>2, <3>3 DEF WriteableOK, SameOthers
  <2>4. CounterOK(t) /\ 1 \in DOMAIN t.cache
    <3>1. 1 \in DOMAIN t.cache /\ t.cache[1].c = s.cache[1].c
      <4>1. w.s.cache = y.s.cache
        BY <1>8
      <4>2. DOMAIN w.s.cache = DOMAIN s.cache /\ w.s.cache[1].c = s.cache[1].c
        BY <1>3, <1>4, <4>1
      <4>3. /\ DOMAIN t.cache = DOMAIN w.s.cache
            /\ \A i \in DOMAIN w.s.cache \ {n} : t.cache[i] = w.s.cache[i]
        BY <1>18 DEF SameOthers
      <4>4. n # 1 /\ 1 \in DOMAIN s.cache
        BY <1>1, <1>3
      <4> QED
        BY ONLY <4>2, <4>3, <4>4
    <3>2. t.dbFileVers = s.dbFileVers
      BY <1>8, <1>18 DEF SameFile
    <3> QED
      BY <1>3, <3>1, <3>2 DEF Sound, CounterOK
  <2>5. /\ t.journal = s.journal /\ t.sub = s.sub
        /\ t.aSavepoint = s.aSavepoint /\ t.dbOrigSize = s.dbOrigSize
        /\ t.dbFileVers = s.dbFileVers /\ t.dbSize = s.dbSize
        /\ t.eState = PAGER_WRITER_DBMOD /\ t.memDb = s.memDb
        /\ t.changeCountDone = s.changeCountDone
        /\ t.dbFileSize = w.s.dbFileSize
    BY <1>4, <1>8, <1>18 DEF SameFile, SameJournals
  <2>6. JournalOK(t) /\ MarksBound(t) /\ MarksInside(t) /\ Below(t)
    BY <1>3, <2>5 DEF Sound, JournalOK, MarksBound, MarksInside, Below
  <2>7. Sound(t)
    BY <1>3, <2>2, <2>3, <2>4, <2>5, <2>6 DEF Sound, InTx
  <2> QED
    BY <1>3, <1>13, <2>4, <2>5, <2>7 DEF Changing
<1>22. LocalOK(r.s, k)
  BY <1>14, <1>20, <1>21 DEF LocalOK
<1>23. SameLimit(store, r.m) /\ StoreFits(r.m)
  BY <1>10, <1>11, <1>15
<1>24. LocalOK(r.s, store.szMax)
  BY <1>22 DEF k
<1> QED
  BY ONLY IInv, DataOK, p \in Pagers, <1>0, <1>23, <1>24, UpdateOne
-----------------------------------------------------------------------------
(* Savepoints.                                                             *)

\* The first n elements of a sequence.
LEMMA FirstOf ==
    ASSUME NEW T, NEW q \in Seq(T), NEW n \in 0..Len(q)
    PROVE  /\ SubSeq(q, 1, n) \in Seq(T) /\ Len(SubSeq(q, 1, n)) = n
           /\ DOMAIN SubSeq(q, 1, n) = 1..n
           /\ \A i \in 1..n : SubSeq(q, 1, n)[i] = q[i]
<1>1. Len(q) \in Nat
  BY LenProperties
<1>2. n \in Int /\ 1 \in Int /\ n \in Nat /\ n <= Len(q)
  BY <1>1
<1>3. \A i \in 1..n : i \in 1..Len(q)
  BY <1>1, <1>2
<1>4. \A i \in 1..n : q[i] \in T
  BY <1>3, ElementOfSeq
<1> DEFINE r == SubSeq(q, 1, n)
<1>5. /\ r \in Seq(T) /\ Len(r) = IF 1 <= n THEN n - 1 + 1 ELSE 0
      /\ \A i \in 1..(n - 1 + 1) : r[i] = q[1 + i - 1]
  BY <1>2, <1>4, SubSeqProperties
<1> HIDE DEF r
<1>6. Len(r) = n
  BY <1>2, <1>5
<1>7. \A i \in 1..n : r[i] = q[i]
  BY <1>2, <1>5
<1>8. DOMAIN r = 1..n
  BY <1>5, <1>6, LenProperties
<1> QED
  BY <1>5, <1>6, <1>7, <1>8 DEF r

\* The journal has at most one record of each page of the original database.
LEMMA JournalShort ==
    ASSUME NEW s, Typed(s), JournalOK(s)
    PROVE  Len(s.journal) \in 0..MaxPage
<1> DEFINE j == s.journal
           n == Len(j)
           f == [i \in 1..n |-> j[i].pgno]
<1>1. j \in Seq(RecordType) /\ s.dbOrigSize \in 0..MaxPage /\ MaxPage \in Nat
  BY PagerAssumption DEF Typed
<1>2. n \in Nat /\ DOMAIN j = 1..n
  BY <1>1, LenProperties
<1>3. \A i \in 1..n : j[i].pgno \in 1..MaxPage
  <2>1. \A i \in 1..n : j[i] \in RecordType
    BY <1>1, ElementOfSeq
  <2> QED
    BY <2>1 DEF RecordType
<1>4. /\ \A i \in 1..n : j[i].pgno <= s.dbOrigSize
      /\ \A a, b \in 1..n : j[a].pgno = j[b].pgno => a = b
  BY <1>2 DEF JournalOK
<1> HIDE DEF n, j
<1>5. f \in [1..n -> 1..s.dbOrigSize]
  BY <1>1, <1>3, <1>4
<1>6. \A a, b \in 1..n : f[a] = f[b] => a = b
  BY <1>4
<1> HIDE DEF f
<1>9. s.dbOrigSize \in Nat /\ n \in Nat
  BY <1>1, <1>2
<1>7. n <= s.dbOrigSize
  BY ONLY <1>5, <1>6, <1>9, Pigeons
<1>8. n \in 0..MaxPage
  BY <1>1, <1>2, <1>7
<1> QED
  BY <1>8 DEF n, j

\* From s to t the savepoints change, and the sub-journal may be cut.
Marked(s, t) ==
    /\ Fields \subseteq DOMAIN t /\ SameFile(s, t)
    /\ t.eState = s.eState /\ t.dbSize = s.dbSize /\ t.cache = s.cache
    /\ t.journal = s.journal /\ t.journalHdr = s.journalHdr
    /\ t.sub \in Seq(RecordType) /\ Len(t.sub) <= Len(s.sub)
    /\ \A i \in 1..Len(t.sub) : t.sub[i] = s.sub[i]
    /\ t.aSavepoint \in Seq(MarkType)

\* A pager with other savepoints is still changing its database.
LEMMA MarkedChanges ==
    ASSUME NEW s, NEW k, Changing(s, k), NEW t, Marked(s, t),
           MarksBound(t), MarksInside(t)
    PROVE  Changing(t, k)
<1>1. Sound(s) /\ Typed(s) /\ Len(s.sub) <= MaxSub
  BY DEF Changing, Sound
<1>2. Typed(t)
  BY <1>1 DEF Typed, Marked, SameFile
<1>3. /\ Len(s.sub) \in Nat /\ Len(t.sub) \in Nat
      /\ DOMAIN s.sub = 1..Len(s.sub) /\ DOMAIN t.sub = 1..Len(t.sub)
  BY <1>1, <1>2, LenProperties DEF Typed
<1>4. s.eState = PAGER_WRITER_LOCKED => Clean(t) /\ Blank(t)
  <2> SUFFICES ASSUME s.eState = PAGER_WRITER_LOCKED PROVE Clean(t) /\ Blank(t)
    OBVIOUS
  <2>1. Clean(s) /\ Blank(s)
    BY <1>1 DEF Sound
  <2>2. s.sub = <<>> /\ Len(s.sub) = 0
    BY <2>1, EmptySeq DEF Blank
  <2>3. Len(t.sub) = 0
    BY <1>3, <2>2 DEF Marked
  <2>4. t.sub = <<>>
    BY <2>3, EmptySeq DEF Marked
  <2> QED
    BY <2>1, <2>4 DEF Clean, Blank, Marked
<1>5. BelowRecords(t.sub) /\ BelowRecords(t.journal)
  <2>1. \A i \in DOMAIN t.sub : i \in DOMAIN s.sub /\ t.sub[i] = s.sub[i]
    BY <1>3 DEF Marked
  <2> QED
    BY <1>1, <2>1 DEF Sound, Below, BelowRecords, Marked
<1>6. JournalOK(t) /\ WriteableOK(t) /\ CounterOK(t) /\ Below(t)
  BY <1>1, <1>5
     DEF Sound, JournalOK, WriteableOK, CounterOK, Below, Marked, SameFile
<1>7. /\ InTx(t) /\ t.eState = s.eState
      /\ t.eState # PAGER_WRITER_DBMOD => t.dbOrigSize = t.dbFileSize
      /\ ~t.memDb => ~t.changeCountDone
  BY <1>1 DEF Sound, InTx, Marked, SameFile
<1>8. Sound(t)
  BY <1>2, <1>4, <1>6, <1>7 DEF Sound
<1>9. Len(t.sub) <= MaxSub
  BY <1>1, <1>3, PagerAssumption DEF Marked
<1> QED
  BY <1>8, <1>9 DEF Changing, Marked, SameFile

\* pagerOpenSavepoint.
LEMMA OpenSavepointKeepsData ==
    ASSUME IInv, DataOK, NEW p \in Pagers, NEW n \in 1..MaxSavepoints,
           OpenSavepoint(p, n)
    PROVE  DataOK'
<1> DEFINE k == store.szMax
           s == pager[p]
           A == s.aSavepoint
           more == n - Len(A)
           x == Savepoint(s)
           new == [i \in 1..more |-> x]
           B == A \o new
           t == [s EXCEPT !.aSavepoint = B]
<1>1. Writing(p) /\ more > 0 /\ Becomes(p, t)
  BY DEF OpenSavepoint
<1>2. Changing(s, k)
  BY <1>1, LocalCases DEF DataOK, Writing, InTx
<1> HIDE DEF s
<1>3. Sound(s) /\ Typed(s) /\ 1 <= s.dbSize /\ Len(s.sub) <= MaxSub
      /\ JournalOK(s) /\ MarksBound(s) /\ MarksInside(s)
  BY <1>2 DEF Changing, Sound
<1>4. /\ A \in Seq(MarkType) /\ Len(A) \in Nat /\ DOMAIN A = 1..Len(A)
      /\ more \in Nat /\ more > 0 /\ Len(s.journal) \in 0..MaxPage
      /\ Len(s.sub) \in 0..MaxSub /\ s.dbSize \in 0..MaxPage
  <2>1. A \in Seq(MarkType) /\ s.sub \in Seq(RecordType) /\ s.dbSize \in 0..MaxPage
    BY <1>3 DEF Typed
  <2>2. Len(A) \in Nat /\ DOMAIN A = 1..Len(A) /\ Len(s.sub) \in Nat
    BY <2>1, LenProperties
  <2>3. more \in Nat
    BY <1>1, <2>2, PagerAssumption
  <2>4. Len(s.sub) \in 0..MaxSub
    BY <1>3, <2>2, PagerAssumption
  <2> QED
    BY <1>1, <1>3, <2>1, <2>2, <2>3, <2>4, JournalShort
<1>5. /\ x.nOrig = s.dbSize /\ x.iOffset = Len(s.journal)
      /\ x.iSubRec = Len(s.sub) /\ x.inSavepoint = {}
      /\ x.bTruncateOnRelease = TRUE
      /\ x = [nOrig |-> s.dbSize, iOffset |-> Len(s.journal),
              iSubRec |-> Len(s.sub), inSavepoint |-> {},
              bTruncateOnRelease |-> TRUE]
  BY DEF Savepoint
<1> HIDE DEF more
<1>6. x \in MarkType /\ x \in SavepointType /\ 1 <= x.nOrig
  BY <1>3, <1>4, <1>5, PagerAssumption DEF MarkType, SavepointType
<1> HIDE DEF x
<1>7. new \in Seq(MarkType) /\ Len(new) = more /\ \A i \in 1..more : new[i] = x
  <2>1. new \in [1..more -> MarkType]
    BY <1>6
  <2>2. \A i \in 1..more : new[i] = x
    OBVIOUS
  <2> HIDE DEF new
  <2> QED
    BY <1>4, <2>1, <2>2, FunctionIsSeq
<1> HIDE DEF new
<1>8. /\ B \in Seq(MarkType) /\ Len(B) = Len(A) + more
      /\ \A i \in 1..(Len(A) + more) :
            B[i] = IF i <= Len(A) THEN A[i] ELSE new[i - Len(A)]
  <2>1. B = A \o new
    OBVIOUS
  <2> HIDE DEF A, B
  <2>2. Len(B) = Len(A) + Len(new)
    BY ONLY <1>4, <1>7, <2>1, ConcatProperties
  <2>3. \A i \in 1..(Len(A) + Len(new)) :
           B[i] = IF i <= Len(A) THEN A[i] ELSE new[i - Len(A)]
    BY ONLY <1>4, <1>7, <2>1, ConcatProperties
  <2>4. B \in Seq(MarkType)
    BY ONLY <1>4, <1>7, <2>1, ConcatProperties
  <2> QED
    BY ONLY <1>7, <2>2, <2>3, <2>4
<1>9. DOMAIN B = 1..(Len(A) + more)
  BY <1>8, LenProperties
<1> HIDE DEF B
<1>10. \A i \in DOMAIN B :
          (i \in DOMAIN A /\ B[i] = A[i]) \/ (i > Len(A) /\ B[i] = x)
  <2> SUFFICES ASSUME NEW i \in DOMAIN B
               PROVE  (i \in DOMAIN A /\ B[i] = A[i]) \/ (i > Len(A) /\ B[i] = x)
    OBVIOUS
  <2>1. i \in 1..(Len(A) + more)
    BY <1>9
  <2>2. CASE i <= Len(A)
    BY <1>4, <1>8, <2>1, <2>2
  <2>3. CASE ~(i <= Len(A))
    <3>1. i - Len(A) \in 1..more
      BY <1>4, <2>1, <2>3
    <3>2. B[i] = new[i - Len(A)]
      BY <1>8, <2>1, <2>3
    <3>3. new[i - Len(A)] = x
      BY <1>7, <3>1
    <3> QED
      BY <1>4, <2>1, <2>3, <3>2, <3>3
  <2> QED
    BY <2>2, <2>3
<1>11. /\ SameFile(s, t) /\ t.eState = s.eState /\ t.dbSize = s.dbSize
       /\ t.cache = s.cache /\ t.journal = s.journal
       /\ t.journalHdr = s.journalHdr /\ t.sub = s.sub /\ t.aSavepoint = B
       /\ Fields \subseteq DOMAIN t
  BY <1>3 DEF Typed, Fields, SameFile
<1> HIDE DEF t
<1>12. Marked(s, t)
  BY <1>3, <1>4, <1>8, <1>11 DEF Marked, Typed
<1>13. MarksBound(t)
  BY <1>3, <1>6, <1>10, <1>11 DEF MarksBound
<1>14. MarksInside(t)
  <2>1. \A i \in DOMAIN A : /\ A[i].iOffset <= x.iOffset
                            /\ A[i].iSubRec <= x.iSubRec
    BY <1>3, <1>5 DEF MarksInside
  <2>2. \A i \in DOMAIN B : /\ B[i].iOffset <= x.iOffset
                            /\ B[i].iSubRec <= x.iSubRec
    BY <1>4, <1>5, <1>10, <2>1
  <2>3. ASSUME NEW i \in DOMAIN B, NEW j \in DOMAIN B, i <= j
        PROVE  B[i].iOffset <= B[j].iOffset /\ B[i].iSubRec <= B[j].iSubRec
    <3>1. CASE j \in DOMAIN A /\ B[j] = A[j]
      <4>1. i \in DOMAIN A /\ i <= Len(A)
        BY <1>4, <1>9, <2>3, <3>1
      <4>2. B[i] = A[i]
        BY <1>4, <1>9, <1>10, <4>1
      <4> QED
        BY <1>3, <2>3, <3>1, <4>1, <4>2 DEF MarksInside
    <3>2. CASE B[j] = x
      BY <2>2, <3>2
    <3> QED
      BY <1>10, <3>1, <3>2
  <2> QED
    BY <1>5, <1>11, <2>2, <2>3 DEF MarksInside
<1>15. LocalOK(t, k)
  BY <1>2, <1>12, <1>13, <1>14, MarkedChanges DEF LocalOK
<1> QED
  BY <1>1, <1>15, BecomesOne DEF k

\* The first n savepoints stay, within the journals they had.
LEMMA FirstMarks ==
    ASSUME NEW s, Typed(s), MarksBound(s), MarksInside(s),
           NEW n \in 0..Len(s.aSavepoint), NEW t, Typed(t),
           t.aSavepoint = SubSeq(s.aSavepoint, 1, n),
           t.journal = s.journal,
           \/ t.sub = s.sub
           \/ n < Len(s.aSavepoint) /\ Len(t.sub) = s.aSavepoint[n + 1].iSubRec
    PROVE  MarksBound(t) /\ MarksInside(t)
<1> DEFINE A == s.aSavepoint
           B == t.aSavepoint
<1>1. A \in Seq(MarkType) /\ n \in 0..Len(A) /\ B = SubSeq(A, 1, n)
  BY DEF Typed
<1>2. Len(A) \in Nat /\ DOMAIN A = 1..Len(A)
  BY <1>1, LenProperties
<1>3. DOMAIN B = 1..n /\ \A i \in 1..n : B[i] = A[i]
  BY <1>1, FirstOf
<1> HIDE DEF A, B
<1>4. \A i \in DOMAIN B : i \in DOMAIN A /\ B[i] = A[i] /\ i <= n
  BY <1>1, <1>2, <1>3
<1>5. MarksBound(t)
  BY <1>4 DEF MarksBound, A, B
<1>6. \A i \in DOMAIN B : B[i].iSubRec <= Len(t.sub)
  <2>1. CASE t.sub = s.sub
    BY <1>4, <2>1 DEF MarksInside, A
  <2>2. CASE n < Len(A) /\ Len(t.sub) = A[n + 1].iSubRec
    <3>1. n + 1 \in DOMAIN A
      BY <1>1, <1>2, <2>2
    <3>2. \A i \in DOMAIN B : i <= n + 1
      BY <1>1, <1>2, <1>3
    <3> QED
      BY <1>4, <2>2, <3>1, <3>2 DEF MarksInside, A
  <2> QED
    BY <2>1, <2>2 DEF A
<1>7. MarksInside(t)
  BY <1>4, <1>6 DEF MarksInside, A, B
<1> QED
  BY <1>5, <1>7

\* sqlite3PagerSavepoint, SAVEPOINT_RELEASE.
LEMMA ReleaseSavepointKeepsData ==
    ASSUME IInv, DataOK, NEW p \in Pagers, NEW n \in 0..MaxSavepoints,
           ReleaseSavepoint(p, n)
    PROVE  DataOK'
<1> DEFINE k == store.szMax
           s == pager[p]
           rel == s.aSavepoint[n + 1]
           B == SubSeq(s.aSavepoint, 1, n)
           sub == IF rel.bTruncateOnRelease THEN SubSeq(s.sub, 1, rel.iSubRec)
                  ELSE s.sub
           t == [s EXCEPT !.aSavepoint = B, !.sub = sub]
<1>1. Writing(p) /\ n < Len(s.aSavepoint) /\ Becomes(p, t)
  BY DEF ReleaseSavepoint
<1>2. Changing(s, k)
  BY <1>1, LocalCases DEF DataOK, Writing, InTx
<1> HIDE DEF s
<1>3. Sound(s) /\ Typed(s) /\ MarksBound(s) /\ MarksInside(s)
  BY <1>2 DEF Changing, Sound
<1>4. /\ s.aSavepoint \in Seq(MarkType) /\ s.sub \in Seq(RecordType)
      /\ Len(s.aSavepoint) \in Nat /\ Len(s.sub) \in Nat
      /\ DOMAIN s.aSavepoint = 1..Len(s.aSavepoint)
  BY <1>3, LenProperties DEF Typed
<1>5. n \in 0..Len(s.aSavepoint) /\ n + 1 \in 1..Len(s.aSavepoint)
  BY <1>1, <1>4, PagerAssumption
<1>6. rel.iSubRec \in 0..Len(s.sub)
  <2>1. rel \in MarkType
    BY <1>4, <1>5, ElementOfSeq
  <2>2. rel.iSubRec \in Nat
    BY <2>1 DEF MarkType
  <2> QED
    BY <1>3, <1>4, <1>5, <2>2 DEF MarksInside
<1> HIDE DEF rel
<1>7. B \in Seq(MarkType)
  BY <1>4, <1>5, FirstOf
<1>8. /\ sub \in Seq(RecordType) /\ Len(sub) <= Len(s.sub)
      /\ \A i \in 1..Len(sub) : sub[i] = s.sub[i]
      /\ sub = s.sub \/ Len(sub) = rel.iSubRec
  <2>1. CASE rel.bTruncateOnRelease
    <3>1. sub = SubSeq(s.sub, 1, rel.iSubRec)
      BY <2>1
    <3> HIDE DEF sub
    <3>2. /\ sub \in Seq(RecordType) /\ Len(sub) = rel.iSubRec
          /\ \A i \in 1..rel.iSubRec : sub[i] = s.sub[i]
      BY <1>4, <1>6, <3>1, FirstOf
    <3> QED
      BY <1>4, <1>6, <3>2
  <2>2. CASE ~rel.bTruncateOnRelease
    BY <1>4, <2>2
  <2> QED
    BY <2>1, <2>2
<1> HIDE DEF B, sub
<1>9. /\ SameFile(s, t) /\ t.eState = s.eState /\ t.dbSize = s.dbSize
      /\ t.cache = s.cache /\ t.journal = s.journal
      /\ t.journalHdr = s.journalHdr /\ t.sub = sub /\ t.aSavepoint = B
      /\ Fields \subseteq DOMAIN t
  BY <1>3 DEF Typed, Fields, SameFile
<1> HIDE DEF t
<1>10. Marked(s, t)
  BY <1>7, <1>8, <1>9 DEF Marked
<1>11. Typed(t)
  BY <1>3, <1>7, <1>8, <1>9 DEF Typed, SameFile
<1>12. MarksBound(t) /\ MarksInside(t)
  <2>1. t.aSavepoint = SubSeq(s.aSavepoint, 1, n)
    BY <1>9 DEF B
  <2>2. \/ t.sub = s.sub
        \/ n < Len(s.aSavepoint) /\ Len(t.sub) = s.aSavepoint[n + 1].iSubRec
    BY <1>1, <1>8, <1>9 DEF rel
  <2> QED
    BY <1>3, <1>5, <1>9, <1>11, <2>1, <2>2, FirstMarks
<1>13. LocalOK(t, k)
  BY <1>2, <1>10, <1>12, MarkedChanges DEF LocalOK
<1> QED
  BY <1>1, <1>13, BecomesOne DEF k
-----------------------------------------------------------------------------
(* Rolling back to a savepoint.                                            *)

\* A transaction played back to sizes it had, before page 1 is checked.
BackTo(s, n, size) ==
    [s EXCEPT !.aSavepoint = SubSeq(@, 1, n), !.dbSize = size,
              !.changeCountDone = s.memDb]

\* Only the savepoints and the size change.
LEMMA BackToFacts ==
    ASSUME NEW s, NEW k, Changing(s, k), NEW n \in 0..Len(s.aSavepoint),
           NEW size \in 0..MaxPage
    PROVE  /\ Typed(BackTo(s, n, size)) /\ SameOthers(s, BackTo(s, n, size), 1)
           /\ BackTo(s, n, size).cache = s.cache
           /\ BackTo(s, n, size).eState = s.eState
           /\ BackTo(s, n, size).memDb = s.memDb
           /\ BackTo(s, n, size).dbSize = size
           /\ BackTo(s, n, size).dbOrigSize = s.dbOrigSize
           /\ BackTo(s, n, size).dbFileSize = s.dbFileSize
           /\ BackTo(s, n, size).dbFileVers = s.dbFileVers
           /\ BackTo(s, n, size).journal = s.journal
           /\ BackTo(s, n, size).journalHdr = s.journalHdr
           /\ BackTo(s, n, size).sub = s.sub
           /\ BackTo(s, n, size).aSavepoint = SubSeq(s.aSavepoint, 1, n)
           /\ BackTo(s, n, size).changeCountDone = s.memDb
<1> DEFINE B == SubSeq(s.aSavepoint, 1, n)
           t == [s EXCEPT !.aSavepoint = B, !.dbSize = size,
                          !.changeCountDone = s.memDb]
<1>1. Typed(s) /\ s.aSavepoint \in Seq(MarkType)
  BY DEF Changing, Sound, Typed
<1>2. B \in Seq(MarkType)
  BY <1>1, FirstOf
<1>3. BackTo(s, n, size) = t
  BY DEF BackTo
<1> HIDE DEF B
<1>4. /\ t.cache = s.cache /\ t.eState = s.eState /\ t.memDb = s.memDb
      /\ t.eLock = s.eLock /\ t.hasHeldSharedLock = s.hasHeldSharedLock
      /\ t.dbSize = size /\ t.dbOrigSize = s.dbOrigSize
      /\ t.dbFileSize = s.dbFileSize /\ t.dbFileVers = s.dbFileVers
      /\ t.journal = s.journal /\ t.journalHdr = s.journalHdr
      /\ t.sub = s.sub /\ t.aSavepoint = B /\ t.changeCountDone = s.memDb
      /\ Fields \subseteq DOMAIN t
  BY <1>1 DEF Typed, Fields
<1> HIDE DEF t
<1>5. Typed(t)
  BY <1>1, <1>2, <1>4 DEF Typed
<1> QED
  BY <1>3, <1>4, <1>5 DEF SameOthers, B

\* Records that a rollback could bring back.
LEMMA PlayedBelow ==
    ASSUME NEW s, Sound(s), NEW i \in Nat, NEW j \in 0..Len(s.sub),
           i \in 0..Len(s.journal),
           NEW records,
           records = JournalFrom(s, i) \/ records = JournalFrom(s, i) \o SubFrom(s, j)
    PROVE  records \in Seq(PlayType) /\ BelowRecords(records)
<1> DEFINE a == JournalFrom(s, i)
           b == SubFrom(s, j)
<1>1. /\ Typed(s) /\ BelowRecords(s.journal) /\ BelowRecords(s.sub)
      /\ s.journal \in Seq(RecordType) /\ s.sub \in Seq(RecordType)
  BY DEF Sound, Below, Typed
<1>2. /\ Len(s.journal) \in Nat /\ DOMAIN s.journal = 1..Len(s.journal)
      /\ Len(s.sub) \in Nat /\ DOMAIN s.sub = 1..Len(s.sub)
  BY <1>1, LenProperties
<1>3. /\ a \in Seq(PlayType) /\ Len(a) = Len(s.journal) - i
      /\ \A x \in 1..(Len(s.journal) - i) : a[x].pgno = s.journal[i + x].pgno
                                            /\ a[x].c = s.journal[i + x].c
  BY <1>1, JournalFromFacts
<1>4. /\ b \in Seq(PlayType) /\ Len(b) = Len(s.sub) - j
      /\ \A x \in 1..(Len(s.sub) - j) : b[x].pgno = s.sub[j + x].pgno
                                        /\ b[x].c = s.sub[j + x].c
  BY <1>1, SubFromFacts
<1> HIDE DEF a, b
<1>5. /\ DOMAIN a = 1..(Len(s.journal) - i) /\ DOMAIN b = 1..(Len(s.sub) - j)
  BY <1>3, <1>4, LenProperties
<1>6. BelowRecords(a)
  <2> SUFFICES ASSUME NEW x \in DOMAIN a, a[x].pgno = 1
               PROVE  a[x].c.vers.counter < MaxVer
    BY DEF BelowRecords
  <2>1. i + x \in DOMAIN s.journal
    BY <1>2, <1>5
  <2>2. a[x].pgno = s.journal[i + x].pgno /\ a[x].c = s.journal[i + x].c
    BY <1>3, <1>5
  <2> QED
    BY <1>1, <2>1, <2>2 DEF BelowRecords
<1>7. BelowRecords(b)
  <2> SUFFICES ASSUME NEW x \in DOMAIN b, b[x].pgno = 1
               PROVE  b[x].c.vers.counter < MaxVer
    BY DEF BelowRecords
  <2>1. j + x \in DOMAIN s.sub
    BY <1>2, <1>5
  <2>2. b[x].pgno = s.sub[j + x].pgno /\ b[x].c = s.sub[j + x].c
    BY <1>4, <1>5
  <2> QED
    BY <1>1, <2>1, <2>2 DEF BelowRecords
<1>8. a \o b \in Seq(PlayType) /\ BelowRecords(a \o b)
  <2> DEFINE c == a \o b
  <2>1. /\ c \in Seq(PlayType) /\ Len(c) = Len(a) + Len(b)
        /\ \A x \in 1..(Len(a) + Len(b)) :
              c[x] = IF x <= Len(a) THEN a[x] ELSE b[x - Len(a)]
    BY <1>3, <1>4, ConcatProperties
  <2>2. DOMAIN c = 1..(Len(a) + Len(b)) /\ Len(a) \in Nat /\ Len(b) \in Nat
        /\ DOMAIN a = 1..Len(a) /\ DOMAIN b = 1..Len(b)
    BY <1>3, <1>4, <2>1, LenProperties
  <2> HIDE DEF c
  <2>3. ASSUME NEW x \in DOMAIN c, c[x].pgno = 1
        PROVE  c[x].c.vers.counter < MaxVer
    <3>1. CASE x <= Len(a)
      <4>1. x \in DOMAIN a /\ c[x] = a[x]
        BY <2>1, <2>2, <3>1
      <4> QED
        BY <1>6, <2>3, <4>1 DEF BelowRecords
    <3>2. CASE ~(x <= Len(a))
      <4>1. x - Len(a) \in DOMAIN b /\ c[x] = b[x - Len(a)]
        BY <2>1, <2>2, <3>2
      <4> QED
        BY <1>7, <2>3, <4>1 DEF BelowRecords
    <3> QED
      BY <3>1, <3>2
  <2> QED
    BY <2>1, <2>3 DEF BelowRecords, c
<1> QED
  BY <1>3, <1>6, <1>8 DEF a, b

\* What playing records back into the transaction `s', cut to n savepoints and
\* `size' pages, over the store m leaves in r.
PlayedOver(s, m, n, size, r) ==
    /\ Typed(r.s) /\ SameLimit(m, r.m) /\ r.s.eState = s.eState
    /\ r.s.dbOrigSize = s.dbOrigSize /\ r.s.dbSize = size
    /\ r.s.sub = s.sub /\ r.s.memDb = s.memDb
    /\ r.s.aSavepoint = SubSeq(s.aSavepoint, 1, n)
    /\ 1 \in DOMAIN r.s.cache
    /\ Sound(r.s)
    /\ r.ok => StoreFits(r.m) /\ (~s.memDb => r.s.dbFileSize <= m.szMax)
    /\ ~r.ok => OnFile(r.s)

\* A transaction whose records were played back is one that still changes its
\* database, if every page fits, and one that can be rolled back if not.
LEMMA PlayedSound ==
    ASSUME NEW s, NEW m, StoreTyped(m), StoreFits(m), Changing(s, m.szMax),
           s.eState # PAGER_WRITER_LOCKED,
           NEW n \in 0..Len(s.aSavepoint), NEW size \in 0..MaxPage,
           NEW records \in Seq(PlayType), BelowRecords(records),
           NEW r, r = Playback(BackTo(s, n, size), m, records)
    PROVE  PlayedOver(s, m, n, size, r)
<1> DEFINE b == BackTo(s, n, size)
           W == StoredPages(b, records)
<1>1. /\ Sound(s) /\ Typed(s) /\ 1 \in DOMAIN s.cache
      /\ ~s.memDb => s.dbOrigSize <= m.szMax /\ s.dbFileSize <= m.szMax
  BY DEF Changing, Sound
<1>2. /\ Typed(b) /\ b.cache = s.cache /\ b.eState = s.eState
      /\ b.memDb = s.memDb /\ b.dbSize = size /\ b.dbOrigSize = s.dbOrigSize
      /\ b.dbFileSize = s.dbFileSize /\ b.dbFileVers = s.dbFileVers
      /\ b.journal = s.journal /\ b.journalHdr = s.journalHdr
      /\ b.sub = s.sub /\ b.aSavepoint = SubSeq(s.aSavepoint, 1, n)
      /\ b.changeCountDone = s.memDb
  BY BackToFacts
<1>0. r = Playback(b, m, records)
  OBVIOUS
<1> HIDE DEF b
<1>3. Plays(b, m, records, r)
  BY <1>0, <1>2, PlaybackFacts
<1>4. /\ W \in SUBSET (1..MaxPage) /\ W \subseteq PagesIn(records)
      /\ W # {} => ~s.memDb /\ s.eState >= PAGER_WRITER_DBMOD
  <2>1. W \subseteq 1..size /\ W \subseteq PagesIn(records)
    BY <1>2 DEF StoredPages, Pages
  <2>2. W # {} => ~s.memDb /\ s.eState >= PAGER_WRITER_DBMOD
    BY <1>2 DEF StoredPages
  <2>3. 1..size \subseteq 1..MaxPage
    BY PagerAssumption
  <2> QED
    BY <2>1, <2>2, <2>3
<1>5. /\ Typed(r.s) /\ SameLimit(m, r.m) /\ SameJournals(b, r.s)
      /\ r.s.eState = s.eState /\ r.s.memDb = s.memDb
      /\ r.s.changeCountDone = s.memDb /\ r.s.dbSize = size
      /\ r.s.dbOrigSize = s.dbOrigSize
      /\ r.s.dbFileSize = Max(W \cup {s.dbFileSize})
      /\ DOMAIN r.s.cache = DOMAIN s.cache
      /\ r.m = Written(m, W, [i \in W |-> First(records, i).c])
      /\ r.ok = \A i \in W : Fits(m, i)
  BY <1>2, <1>3 DEF Plays
<1>6. \A i \in DOMAIN s.cache :
         r.s.cache[i] = IF i \in Pages(b, records)
                        THEN [s.cache[i] EXCEPT !.c = First(records, i).c]
                        ELSE s.cache[i]
  <2>1. \A i \in DOMAIN b.cache :
           r.s.cache[i] = IF i \in Pages(b, records)
                          THEN [b.cache[i] EXCEPT !.c = First(records, i).c]
                          ELSE b.cache[i]
    BY ONLY <1>3 DEF Plays
  <2> QED
    BY ONLY <1>2, <2>1
<1>7. r.s.dbFileVers = IF 1 \in Pages(b, records)
                       THEN First(records, 1).c.vers ELSE s.dbFileVers
  BY <1>2, <1>3 DEF Plays
<1> HIDE DEF W
<1>8. WriteableOK(r.s)
  <2> SUFFICES ASSUME NEW i \in DOMAIN s.cache
               PROVE  r.s.cache[i].writeable => r.s.cache[i].dirty
    BY <1>5 DEF WriteableOK
  <2>1. s.cache[i] \in PageType /\ (s.cache[i].writeable => s.cache[i].dirty)
    BY <1>1 DEF Typed, IsCache, Sound, WriteableOK
  <2>2. /\ r.s.cache[i].writeable = s.cache[i].writeable
        /\ r.s.cache[i].dirty = s.cache[i].dirty
    BY <1>6, <2>1 DEF PageType
  <2> QED
    BY <2>1, <2>2
<1>9. CounterOK(r.s) /\ r.s.dbFileVers.counter < MaxVer
  <2>1. r.s.dbFileVers.counter \in Nat
    BY <1>5 DEF Typed, VersType
  <2>2. CASE 1 \in Pages(b, records)
    <3> DEFINE c == First(records, 1).c
    <3>1. s.cache[1] \in PageType
      BY <1>1 DEF Typed, IsCache
    <3>2. r.s.cache[1] = [s.cache[1] EXCEPT !.c = c]
      BY <1>1, <1>6, <2>2
    <3>3. r.s.dbFileVers = c.vers
      BY <1>7, <2>2
    <3>4. c.vers.counter < MaxVer
      <4>1. 1 \in PagesIn(records)
        BY <2>2 DEF Pages
      <4>2. \E i \in DOMAIN records : First(records, 1) = records[i]
        BY <4>1, FirstFacts
      <4>3. First(records, 1).pgno = 1
        BY <4>1, FirstFacts
      <4> QED
        BY <4>2, <4>3 DEF BelowRecords
    <3> HIDE DEF c
    <3>5. r.s.cache[1].c = c
      BY <3>1, <3>2 DEF PageType
    <3> QED
      BY <2>1, <3>3, <3>4, <3>5 DEF CounterOK
  <2>3. CASE 1 \notin Pages(b, records)
    BY <1>1, <1>6, <1>7, <2>3 DEF Sound, CounterOK, Below
  <2> QED
    BY <2>2, <2>3
<1>10. MarksBound(r.s) /\ MarksInside(r.s)
  <2>1. MarksBound(s) /\ MarksInside(s)
    BY <1>1 DEF Sound
  <2>2. r.s.aSavepoint = SubSeq(s.aSavepoint, 1, n) /\ r.s.journal = s.journal
        /\ r.s.sub = s.sub
    BY <1>2, <1>5 DEF SameJournals
  <2> QED
    BY <1>1, <1>5, <2>1, <2>2, FirstMarks
<1>11. s.dbFileSize \in 0..MaxPage
  BY <1>1 DEF Typed
<1>12. s.eState # PAGER_WRITER_DBMOD => r.s.dbFileSize = s.dbFileSize
  <2>1. InTx(s)
    BY <1>1 DEF Sound
  <2>2. s.eState # PAGER_WRITER_DBMOD => W = {}
    BY <1>4, <2>1 DEF InTx
  <2>3. W = {} => Max(W \cup {s.dbFileSize}) = s.dbFileSize
    BY <1>4, <1>11, MaxWith
  <2> QED
    BY <1>5, <2>2, <2>3
<1>13. JournalOK(r.s) /\ BelowRecords(r.s.journal) /\ BelowRecords(r.s.sub)
  BY <1>1, <1>2, <1>5 DEF SameJournals, Sound, JournalOK, Below
<1>14. /\ InTx(r.s)
       /\ ~r.s.memDb => ~r.s.changeCountDone
       /\ r.s.eState # PAGER_WRITER_DBMOD => r.s.dbOrigSize = r.s.dbFileSize
  BY <1>1, <1>5, <1>12 DEF Sound, InTx
<1>15. Sound(r.s)
  BY <1>5, <1>8, <1>9, <1>10, <1>13, <1>14 DEF Sound, Below
<1>16. ASSUME r.ok
       PROVE  StoreFits(r.m) /\ (~s.memDb => r.s.dbFileSize <= m.szMax)
  <2>1. \A i \in W : Fits(m, i)
    BY <1>5, <1>16
  <2> DEFINE content == [i \in W |-> First(records, i).c]
  <2>2. \A i \in W : content[i] \in Content
    <3>1. \A i \in W : First(records, i) \in PlayType
      BY <1>4, FirstFacts
    <3>2. \A i \in W : First(records, i).c \in Content
      BY ONLY <3>1 DEF PlayType
    <3>3. \A i \in W : content[i] = First(records, i).c
      OBVIOUS
    <3> HIDE DEF content
    <3> QED
      BY ONLY <3>2, <3>3
  <2>3. r.m = Written(m, W, content)
    BY <1>5
  <2> HIDE DEF content
  <2>4. StoreFits(m) /\ (\A i \in W : Fits(m, i))
           => StoreFits(Written(m, W, content))
    BY <1>4, <2>2, WrittenFacts
  <2>5. StoreFits(r.m)
    BY <2>1, <2>3, <2>4
  <2>6. m.szMax \in Nat /\ \A i \in W : i <= m.szMax
    BY <2>1, PagerAssumption DEF Fits, StoreTyped
  <2>7. ~s.memDb => Max(W \cup {s.dbFileSize}) <= m.szMax
    BY <1>1, <1>4, <1>11, <2>6, MaxWith
  <2> QED
    BY <1>5, <2>5, <2>7
<1>17. ~r.ok => OnFile(r.s)
  <2>1. ~r.ok => W # {}
    BY <1>5
  <2> QED
    BY <1>4, <1>5, <2>1 DEF OnFile
<1>18. r.s.sub = s.sub /\ r.s.aSavepoint = SubSeq(s.aSavepoint, 1, n)
  BY <1>2, <1>5 DEF SameJournals
<1>19. 1 \in DOMAIN r.s.cache
  BY <1>1, <1>5
<1> QED
  BY <1>5, <1>15, <1>16, <1>17, <1>18, <1>19 DEF PlayedOver
\* sqlite3BtreeSavepoint, SAVEPOINT_ROLLBACK.
LEMMA RollbackToSavepointKeepsData ==
    ASSUME IInv, DataOK, NEW p \in Pagers, NEW n \in 0..MaxSavepoints,
           RollbackToSavepoint(p, n)
    PROVE  DataOK'
<1> DEFINE k == store.szMax
           s == pager[p]
           kept == [s EXCEPT !.aSavepoint = SubSeq(@, 1, n)]
           sp == s.aSavepoint[n]
           size == IF n = 0 THEN s.dbOrigSize ELSE sp.nOrig
           back == [kept EXCEPT !.dbSize = size, !.changeCountDone = s.memDb]
           records == IF n = 0 THEN JournalFrom(s, 0)
                      ELSE JournalFrom(s, sp.iOffset) \o SubFrom(s, sp.iSubRec)
           played == Playback(back, store, records)
<1>1. /\ Writing(p) /\ n <= Len(s.aSavepoint)
      /\ \/ s.eState = PAGER_WRITER_LOCKED /\ Becomes(p, kept)
         \/ /\ s.eState # PAGER_WRITER_LOCKED /\ played.ok
            /\ Update(p, [s |-> NewDatabase(played.s, played.m),
                          m |-> played.m])
         \/ /\ s.eState # PAGER_WRITER_LOCKED /\ ~played.ok
            /\ Update(p, RolledBack(played.s, played.m))
  BY DEF RollbackToSavepoint
<1>2. Changing(s, k) /\ StoreTyped(store) /\ StoreFits(store)
  BY <1>1, LocalCases DEF DataOK, Writing, InTx
<1>3. back = BackTo(s, n, size)
  BY DEF BackTo
<1> HIDE DEF s, back
<1>4. Sound(s) /\ Typed(s) /\ MarksBound(s) /\ MarksInside(s)
  BY <1>2 DEF Changing, Sound
<1>5. /\ s.aSavepoint \in Seq(MarkType) /\ Len(s.aSavepoint) \in Nat
      /\ DOMAIN s.aSavepoint = 1..Len(s.aSavepoint)
      /\ Len(s.journal) \in Nat /\ Len(s.sub) \in Nat
      /\ s.dbOrigSize \in 0..MaxPage
  BY <1>4, LenProperties DEF Typed
<1>6. n \in 0..Len(s.aSavepoint)
  BY <1>1, <1>5, PagerAssumption
<1>7. n # 0 => /\ n \in DOMAIN s.aSavepoint /\ sp \in MarkType
               /\ sp.nOrig \in 0..MaxPage /\ 1 <= sp.nOrig
               /\ sp.iOffset \in 0..Len(s.journal)
               /\ sp.iSubRec \in 0..Len(s.sub)
  <2> SUFFICES ASSUME n # 0
               PROVE  /\ n \in DOMAIN s.aSavepoint /\ sp \in MarkType
                      /\ sp.nOrig \in 0..MaxPage /\ 1 <= sp.nOrig
                      /\ sp.iOffset \in 0..Len(s.journal)
                      /\ sp.iSubRec \in 0..Len(s.sub)
    OBVIOUS
  <2>1. n \in 1..Len(s.aSavepoint)
    BY <1>6
  <2>2. sp \in MarkType
    BY <1>5, <2>1, ElementOfSeq
  <2>3. /\ sp.nOrig \in 0..MaxPage /\ sp.iOffset \in Nat /\ sp.iSubRec \in Nat
    BY <2>2 DEF MarkType
  <2>4. /\ 1 <= sp.nOrig /\ sp.iOffset <= Len(s.journal)
        /\ sp.iSubRec <= Len(s.sub)
    BY <1>4, <1>5, <2>1 DEF MarksBound, MarksInside
  <2> QED
    BY <1>5, <2>1, <2>2, <2>3, <2>4
<1> HIDE DEF sp
<1>8. size \in 0..MaxPage /\ (size = 0 => n = 0)
  BY <1>5, <1>7
<1>9. records \in Seq(PlayType) /\ BelowRecords(records)
  <2>1. CASE n = 0
    <3>1. records = JournalFrom(s, 0)
      BY <2>1
    <3>2. 0 \in Nat /\ 0 \in 0..Len(s.journal) /\ 0 \in 0..Len(s.sub)
      BY <1>5
    <3> HIDE DEF records
    <3> QED
      BY <1>4, <3>1, <3>2, PlayedBelow
  <2>2. CASE n # 0
    <3>1. records = JournalFrom(s, sp.iOffset) \o SubFrom(s, sp.iSubRec)
      BY <2>2
    <3>2. sp.iOffset \in Nat /\ sp.iOffset \in 0..Len(s.journal)
          /\ sp.iSubRec \in 0..Len(s.sub)
      BY <1>7, <2>2
    <3> HIDE DEF records
    <3> QED
      BY <1>4, <3>1, <3>2, PlayedBelow
  <2> HIDE DEF records
  <2> QED
    BY <2>1, <2>2
<1> HIDE DEF records, size
<1>10. CASE s.eState = PAGER_WRITER_LOCKED /\ Becomes(p, kept)
  <2>1. SubSeq(s.aSavepoint, 1, n) \in Seq(MarkType)
    BY <1>5, <1>6, FirstOf
  <2>2. /\ SameFile(s, kept) /\ kept.eState = s.eState
        /\ kept.dbSize = s.dbSize /\ kept.cache = s.cache
        /\ kept.journal = s.journal /\ kept.journalHdr = s.journalHdr
        /\ kept.sub = s.sub /\ kept.aSavepoint = SubSeq(s.aSavepoint, 1, n)
        /\ Fields \subseteq DOMAIN kept
    BY <1>4 DEF Typed, Fields, SameFile
  <2> HIDE DEF kept
  <2>3. Marked(s, kept)
    BY <1>4, <1>5, <2>1, <2>2 DEF Marked, Typed
  <2>4. Typed(kept)
    BY <1>4, <2>1, <2>2 DEF Typed, SameFile
  <2>5. MarksBound(kept) /\ MarksInside(kept)
    BY <1>4, <1>6, <2>2, <2>4, FirstMarks
  <2>6. LocalOK(kept, k)
    BY <1>2, <2>3, <2>5, MarkedChanges DEF LocalOK
  <2> QED
    BY <1>10, <2>6, BecomesOne DEF k
<1> HIDE DEF kept
<1>11. ASSUME s.eState # PAGER_WRITER_LOCKED
       PROVE  /\ Typed(played.s) /\ SameLimit(store, played.m)
              /\ played.s.eState = s.eState
              /\ played.s.dbOrigSize = s.dbOrigSize /\ played.s.dbSize = size
              /\ played.s.sub = s.sub /\ played.s.memDb = s.memDb
              /\ played.s.aSavepoint = SubSeq(s.aSavepoint, 1, n)
              /\ 1 \in DOMAIN played.s.cache /\ Sound(played.s)
              /\ played.ok => /\ StoreFits(played.m)
                              /\ (~s.memDb => played.s.dbFileSize <= k)
              /\ ~played.ok => OnFile(played.s)
  <2>1. played = Playback(BackTo(s, n, size), store, records)
    BY <1>3
  <2> HIDE DEF played
  <2>2. StoreTyped(store) /\ StoreFits(store) /\ Changing(s, store.szMax)
    BY <1>2
  <2>3. s.eState # PAGER_WRITER_LOCKED
    BY <1>11
  <2>4. size \in 0..MaxPage
    BY <1>8
  <2>5. PlayedOver(s, store, n, size, played)
    BY ONLY <2>1, <2>2, <2>3, <1>6, <2>4, <1>9, PlayedSound
  <2> QED
    BY ONLY <2>5 DEF PlayedOver, k
<1> HIDE DEF played
<1>12. CASE /\ s.eState # PAGER_WRITER_LOCKED /\ played.ok
            /\ Update(p, [s |-> NewDatabase(played.s, played.m),
                          m |-> played.m])
  <2> DEFINE t == NewDatabase(played.s, played.m)
             r == [s |-> t, m |-> played.m]
  <2>1. /\ Sound(played.s) /\ StoreTyped(played.m) /\ StoreFits(played.m)
        /\ 1 \in DOMAIN played.s.cache /\ played.s.dbSize = size
        /\ SameLimit(store, played.m)
    BY <1>11, <1>12 DEF SameLimit
  <2>2. played.s.dbSize = 0 => played.s.aSavepoint = <<>>
    <3> SUFFICES ASSUME n = 0 PROVE played.s.aSavepoint = <<>>
      BY <1>8, <2>1
    <3>1. /\ SubSeq(s.aSavepoint, 1, 0) \in Seq(MarkType)
          /\ Len(SubSeq(s.aSavepoint, 1, 0)) = 0
      BY <1>5, <1>6, FirstOf
    <3> QED
      BY <1>11, <1>12, <3>1, EmptySeq
  <2>3. /\ Sound(t) /\ SameFile(played.s, t) /\ 1 \in DOMAIN t.cache
        /\ t.sub = played.s.sub
        /\ t.dbSize = IF played.s.dbSize = 0 THEN 1 ELSE played.s.dbSize
        /\ t.eState = IF played.s.dbSize = 0
                         /\ played.s.eState = PAGER_WRITER_LOCKED
                      THEN PAGER_WRITER_CACHEMOD ELSE played.s.eState
    BY <2>1, <2>2, NewDatabaseSound
  <2> HIDE DEF t
  <2>4. Len(t.sub) <= MaxSub /\ t.eState # PAGER_WRITER_LOCKED /\ 1 <= t.dbSize
    BY <1>2, <1>8, <1>11, <1>12, <2>1, <2>3 DEF Changing
  <2>5. ~t.memDb => t.dbOrigSize <= k /\ t.dbFileSize <= k
    BY <1>2, <1>11, <1>12, <2>3 DEF Changing, SameFile
  <2>6. LocalOK(t, k)
    BY <2>3, <2>4, <2>5 DEF LocalOK, Changing
  <2>7. Update(p, r)
    BY <1>12 DEF t
  <2>8. r.s = t /\ r.m = played.m
    OBVIOUS
  <2> HIDE DEF r
  <2>9. LocalOK(r.s, store.szMax) /\ SameLimit(store, r.m) /\ StoreFits(r.m)
    BY <2>1, <2>6, <2>8 DEF k
  <2> QED
    BY ONLY IInv, DataOK, p \in Pagers, <2>7, <2>9, UpdateOne
<1>13. CASE /\ s.eState # PAGER_WRITER_LOCKED /\ ~played.ok
            /\ Update(p, RolledBack(played.s, played.m))
  <2> DEFINE r == RolledBack(played.s, played.m)
  <2>1. StoreTyped(played.m) /\ played.m.szMax = k
    BY <1>11, <1>13 DEF SameLimit
  <2>2. Undoable(played.s, k)
    <3>1. ~s.memDb => s.dbOrigSize <= k
      BY <1>2 DEF Changing
    <3> QED
      BY <1>11, <1>13, <3>1 DEF Undoable, Sound, InTx
  <2>3. /\ Reading(r.s, played.m.szMax) /\ SameLimit(played.m, r.m)
        /\ StoreFits(r.m)
    BY <1>11, <1>13, <2>1, <2>2, RolledBackReads
  <2>4. SameLimit(store, r.m)
    BY <1>11, <1>13, <2>3 DEF SameLimit
  <2> HIDE DEF r
  <2>5. LocalOK(r.s, store.szMax)
    BY <2>1, <2>3 DEF LocalOK, k
  <2>6. Update(p, r)
    BY <1>13 DEF r
  <2> QED
    BY ONLY IInv, DataOK, p \in Pagers, <2>3, <2>4, <2>5, <2>6, UpdateOne
<1> QED
  BY <1>1, <1>10, <1>12, <1>13
-----------------------------------------------------------------------------
(* Commit and rollback.                                                    *)

\* A rollback leaves a reader.
LEMMA RolledBackLocal ==
    ASSUME IInv, DataOK, NEW p \in Pagers, NEW s, NEW m, SameLimit(store, m),
           Undoable(s, store.szMax), ~OnFile(s) => StoreFits(m),
           Update(p, RolledBack(s, m))
    PROVE  DataOK'
<1> DEFINE r == RolledBack(s, m)
<1>1. StoreTyped(m) /\ m.szMax = store.szMax
  BY DEF SameLimit
<1>2. /\ Reading(r.s, m.szMax) /\ SameLimit(m, r.m) /\ StoreFits(r.m)
  BY <1>1, RolledBackReads
<1>3. SameLimit(store, r.m) /\ LocalOK(r.s, store.szMax)
  BY <1>1, <1>2 DEF SameLimit, LocalOK
<1>4. Update(p, r)
  OBVIOUS
<1> HIDE DEF r
<1> QED
  BY ONLY IInv, DataOK, p \in Pagers, <1>2, <1>3, <1>4, UpdateOne

\* sqlite3PagerCommitPhaseOne.
LEMMA CommitPhaseOneKeepsData ==
    ASSUME IInv, DataOK, NEW p \in Pagers, NEW size \in 1..MaxPage,
           CommitPhaseOne(p, size)
    PROVE  DataOK'
<1> DEFINE k == store.szMax
           o == pager[p]
           s == Vacuumed(o, store, size)
           d == PhaseOne(s, store)
           f == [s EXCEPT !.eState = PAGER_WRITER_FINISHED]
<1>1. /\ o.eState \in {PAGER_WRITER_CACHEMOD, PAGER_WRITER_DBMOD}
      /\ \/ s.memDb /\ Becomes(p, f)
         \/ ~s.memDb /\ d.ok /\ Update(p, [s |-> d.s, m |-> d.m])
         \/ ~s.memDb /\ ~d.ok /\ Update(p, RolledBack(d.s, d.m))
  BY DEF CommitPhaseOne
<1>2. Changing(o, k) /\ StoreTyped(store) /\ StoreFits(store)
  BY <1>1, LocalCases DEF DataOK, InTx
<1> HIDE DEF o
<1>3. /\ Sound(o) /\ 1 \in DOMAIN o.cache /\ 1 <= o.dbSize
      /\ ~o.memDb => o.dbOrigSize <= k /\ o.dbFileSize <= k
  BY <1>2 DEF Changing
<1>4. /\ Sound(s) /\ SameFile(o, s) /\ 1 \in DOMAIN s.cache
      /\ s.dbSize = size /\ s.eState = o.eState
  BY <1>1, <1>2, <1>3, VacuumedSound
<1> HIDE DEF s
<1>5. /\ Typed(s) /\ s.eState # PAGER_WRITER_LOCKED /\ 1 <= s.dbSize
      /\ ~s.memDb => s.dbOrigSize <= k /\ s.dbFileSize <= k
  BY <1>1, <1>3, <1>4 DEF Sound, SameFile
<1>6. CASE s.memDb /\ Becomes(p, f)
  <2>1. /\ SameFile(s, f) /\ SameJournals(s, f) /\ f.dbSize = s.dbSize
        /\ f.eState = PAGER_WRITER_FINISHED /\ f.cache = s.cache
        /\ Fields \subseteq DOMAIN f
    BY <1>5 DEF Typed, Fields, SameFile, SameJournals
  <2> HIDE DEF f
  <2>2. f.eState \in NOT_OPEN..PAGER_ERROR
    BY <2>1
  <2>3. Typed(f)
    BY <1>5, <2>1, <2>2 DEF Typed, SameFile, SameJournals
  <2>4. MarksBound(f) /\ CounterOK(f) /\ 1 \in DOMAIN f.cache /\ f.memDb
    BY <1>4, <1>6, <2>1
       DEF Sound, MarksBound, CounterOK, SameFile, SameJournals
  <2>5. LocalOK(f, k)
    BY <2>1, <2>3, <2>4 DEF LocalOK, Finished
  <2> QED
    BY <1>6, <2>5, BecomesOne DEF k
<1> HIDE DEF f
<1>7. ASSUME ~s.memDb PROVE PhaseOneDone(s, store, d)
  BY <1>2, <1>4, <1>5, <1>7, PhaseOneFacts
<1> HIDE DEF d
<1>8. CASE ~s.memDb /\ d.ok /\ Update(p, [s |-> d.s, m |-> d.m])
  <2> DEFINE r == [s |-> d.s, m |-> d.m]
  <2>1. r.s = d.s /\ r.m = d.m
    OBVIOUS
  <2>2. Update(p, r)
    BY <1>8
  <2> HIDE DEF r
  <2>3. Finished(d.s, k)
    BY <1>5, <1>7, <1>8 DEF PhaseOneDone, Finished
  <2>4. SameLimit(store, d.m) /\ StoreFits(d.m)
    BY <1>7, <1>8 DEF PhaseOneDone
  <2>5. LocalOK(r.s, store.szMax) /\ SameLimit(store, r.m) /\ StoreFits(r.m)
    BY <2>1, <2>3, <2>4 DEF LocalOK, k
  <2> QED
    BY ONLY IInv, DataOK, p \in Pagers, <2>2, <2>5, UpdateOne
<1>9. CASE ~s.memDb /\ ~d.ok /\ Update(p, RolledBack(d.s, d.m))
  <2>1. PhaseOneDone(s, store, d)
    BY <1>7, <1>9
  <2>2. Undoable(d.s, k) /\ OnFile(d.s)
    BY <1>5, <1>9, <2>1 DEF PhaseOneDone, Undoable, OnFile
  <2>3. SameLimit(store, d.m)
    BY <2>1 DEF PhaseOneDone
  <2> QED
    BY <1>9, <2>2, <2>3, RolledBackLocal DEF k
<1> QED
  BY <1>1, <1>6, <1>8, <1>9

\* sqlite3PagerCommitPhaseTwo.
LEMMA CommitPhaseTwoKeepsData ==
    ASSUME IInv, DataOK, NEW p \in Pagers, CommitPhaseTwo(p)
    PROVE  DataOK'
<1> DEFINE k == store.szMax
           s == pager[p]
           r == Ended(s, store, TRUE)
<1>1. /\ s.eState \in {PAGER_WRITER_LOCKED, PAGER_WRITER_FINISHED}
      /\ Update(p, r)
  BY DEF CommitPhaseTwo
<1>2. StoreTyped(store) /\ StoreFits(store) /\ LocalOK(s, k)
  BY DEF DataOK
<1> HIDE DEF s
<1>3. /\ Typed(s) /\ 1 \in DOMAIN s.cache /\ CounterOK(s)
      /\ ~s.memDb => s.dbSize <= k
  <2>1. CASE s.eState = PAGER_WRITER_LOCKED
    BY <1>2, <2>1, LocalCases DEF InTx, Changing, Sound
  <2>2. CASE s.eState = PAGER_WRITER_FINISHED
    BY <1>2, <2>2, LocalCases DEF Finished
  <2> QED
    BY <1>1, <2>1, <2>2
<1>4. /\ Reading(r.s, store.szMax) /\ SameLimit(store, r.m) /\ StoreFits(r.m)
  BY <1>2, <1>3, EndedReads
<1> HIDE DEF r
<1>5. LocalOK(r.s, store.szMax)
  BY <1>4 DEF LocalOK
<1> QED
  BY ONLY IInv, DataOK, p \in Pagers, <1>1, <1>4, <1>5, UpdateOne

\* sqlite3PagerRollback.
LEMMA RollbackKeepsData ==
    ASSUME IInv, DataOK, NEW p \in Pagers, Rollback(p)
    PROVE  DataOK'
<1> DEFINE k == store.szMax
           s == pager[p]
<1>1. /\ s.eState \in PAGER_WRITER_LOCKED..PAGER_WRITER_FINISHED
      /\ Update(p, RolledBack(s, store))
  BY DEF Rollback
<1>2. StoreTyped(store) /\ StoreFits(store) /\ LocalOK(s, k)
  BY DEF DataOK
<1> HIDE DEF s
<1>3. Undoable(s, k)
  <2>1. CASE InTx(s)
    BY <1>1, <1>2, <2>1, LocalCases DEF Changing, Sound, Undoable
  <2>2. CASE s.eState = PAGER_WRITER_FINISHED
    BY <1>1, <1>2, <2>2, LocalCases DEF Finished, Undoable
  <2> QED
    BY <1>1, <2>1, <2>2 DEF InTx
<1>4. SameLimit(store, store)
  BY <1>2 DEF SameLimit
<1> QED
  BY <1>1, <1>2, <1>3, <1>4, RolledBackLocal DEF k
-----------------------------------------------------------------------------
(* The theorem.                                                            *)

\* The inductive invariant: the locks of the first part, and the data.
DataInv == IInv /\ DataOK

\* No pager is open at first, and the store is empty.
LEMMA InitData == Init => DataInv
<1> SUFFICES ASSUME Init PROVE DataInv
  OBVIOUS
<1>1. PICK limit \in Limits : store = [Created(limit) EXCEPT !.nRef = 0]
  BY DEF Init
<1>2. store.pages = <<>> /\ store.szMax = limit /\ {"pages", "szMax"} \subseteq DOMAIN store
  BY <1>1 DEF Created
<1>3. <<>> \in Seq(Content) /\ Len(<<>>) = 0
  BY EmptySeq
<1>4. limit \in Nat /\ MaxPage \in Nat
  BY PagerAssumption
<1>5. StoreTyped(store) /\ StoreFits(store)
  BY <1>2, <1>3, <1>4 DEF StoreTyped, StoreFits
<1>6. \A p \in Pagers : LocalOK(pager[p], store.szMax)
  BY DEF Init, LocalOK
<1> QED
  BY <1>5, <1>6, InitIInv DEF DataInv, DataOK

\* One case per action of Next.
LEMMA StepData == DataInv /\ [Next]_vars => DataInv'
<1> SUFFICES ASSUME DataInv, [Next]_vars PROVE DataInv'
  OBVIOUS
<1>0. IInv /\ DataOK /\ IInv'
  BY StepIInv DEF DataInv
<1>1. CASE UNCHANGED vars
  <2>1. pager' = pager /\ store' = store
    BY <1>1 DEF vars
  <2> QED
    BY <1>0, <2>1 DEF DataInv, DataOK
<1>2. ASSUME NEW p \in Pagers, NEW memDb \in BOOLEAN, Open(p, memDb)
      PROVE  DataOK'
  BY <1>0, <1>2, OpenKeepsData
<1>3. ASSUME NEW p \in Pagers, Close(p) \/ BeginRead(p) \/ EndRead(p)
      PROVE  DataOK'
  BY <1>0, <1>3, CloseKeepsData, BeginReadKeepsData, EndReadKeepsData
<1>4. ASSUME NEW p \in Pagers, NEW exFlag \in BOOLEAN, BeginWrite(p, exFlag)
      PROVE  DataOK'
  BY <1>0, <1>4, BeginWriteKeepsData
<1>5. ASSUME NEW p \in Pagers, NEW n \in 1..MaxPage,
             Get(p, n) \/ Evict(p, n) \/ Spill(p, n)
      PROVE  DataOK'
  BY <1>0, <1>5, GetKeepsData, EvictKeepsData, SpillKeepsData
<1>6. ASSUME NEW p \in Pagers, NEW n \in 1..MaxPage, NEW v \in Vals,
             Write(p, n, v)
      PROVE  DataOK'
  BY <1>0, <1>6, WriteKeepsData
<1>7. ASSUME NEW p \in Pagers, NEW v \in Vals, Allocate(p, v) PROVE DataOK'
  BY <1>0, <1>7, AllocateKeepsData
<1>8. ASSUME NEW p \in Pagers, NEW n \in 1..MaxSavepoints, OpenSavepoint(p, n)
      PROVE  DataOK'
  BY <1>0, <1>8, OpenSavepointKeepsData
<1>9. ASSUME NEW p \in Pagers, NEW n \in 0..MaxSavepoints,
             ReleaseSavepoint(p, n) \/ RollbackToSavepoint(p, n)
      PROVE  DataOK'
  BY <1>0, <1>9, ReleaseSavepointKeepsData, RollbackToSavepointKeepsData
<1>10. ASSUME NEW p \in Pagers, NEW size \in 1..MaxPage, CommitPhaseOne(p, size)
       PROVE  DataOK'
  BY <1>0, <1>10, CommitPhaseOneKeepsData
<1>11. ASSUME NEW p \in Pagers, CommitPhaseTwo(p) \/ Rollback(p) PROVE DataOK'
  BY <1>0, <1>11, CommitPhaseTwoKeepsData, RollbackKeepsData
<1>12. CASE Next
  <2>1. DataOK'
    BY <1>12, <1>2, <1>3, <1>4, <1>5, <1>6, <1>7, <1>8, <1>9, <1>10, <1>11
       DEF Next
  <2> QED
    BY <1>0, <2>1 DEF DataInv
<1> QED
  BY <1>1, <1>12

\* The records of a journal have their types.
LEMMA RecordsTyped ==
    ASSUME NEW j \in Seq(RecordType)
    PROVE  IsRecords(j)
<1>1. DOMAIN j = 1..Len(j)
  BY LenProperties
<1>2. \A i \in DOMAIN j : j[i] \in RecordType
  BY <1>1, ElementOfSeq
<1> QED
  BY <1>2 DEF IsRecords, RecordType

\* The state of a pager and its lock meet the assertions of the code.
LEMMA LocalAsserted ==
    ASSUME NEW s, NEW k, LocalOK(s, k), StateOfLock(s)
    PROVE  StateAssertions(s)
<1>1. s.eState \in NOT_OPEN..PAGER_ERROR
  BY DEF StateOfLock
<1>2. CASE s.eState = NOT_OPEN
  BY <1>2, LocalCases DEF StateAssertions
<1>3. CASE s.eState \in {PAGER_OPEN, PAGER_READER}
  BY <1>3 DEF StateAssertions, StateOfLock
<1>4. CASE s.eState \in {PAGER_WRITER_LOCKED, PAGER_WRITER_CACHEMOD}
  <2>1. Changing(s, k)
    BY <1>4, LocalCases DEF InTx
  <2>2. s.dbOrigSize = s.dbFileSize
    BY <1>4, <2>1 DEF Changing, Sound
  <2>3. s.eState = PAGER_WRITER_LOCKED => s.dbSize = s.dbOrigSize
    BY <2>1 DEF Changing
  <2>4. s.eLock >= RESERVED_LOCK
    BY <1>4 DEF StateOfLock
  <2> QED
    BY <1>4, <2>2, <2>3, <2>4 DEF StateAssertions
<1>5. CASE s.eState \in {PAGER_WRITER_DBMOD, PAGER_WRITER_FINISHED, PAGER_ERROR}
  BY <1>5 DEF StateAssertions, StateOfLock
<1> QED
  BY <1>1, <1>2, <1>3, <1>4, <1>5

\* What a pager keeps has its types in every state.
LEMMA LocalTyped ==
    ASSUME NEW s, NEW k, LocalOK(s, k)
    PROVE  Typed(s) /\ MarksBound(s)
<1>1. Typed(s)
  BY EmptyTyped
     DEF LocalOK, Waiting, Reading, Idle, Changing, Sound, Finished, Failed
<1>2. DOMAIN <<>> = {}
  BY EmptySeq
<1>3. MarksBound(s)
  <2>1. s.aSavepoint = <<>> => MarksBound(s)
    BY <1>2 DEF MarksBound
  <2> QED
    BY <2>1, EmptyTyped
       DEF LocalOK, Waiting, Reading, Idle, Changing, Sound, Finished, Failed
<1> QED
  BY <1>1, <1>3

\* The invariant implies the type invariant of the runs.
LEMMA DataTypeOK == DataInv => TypeOK
<1> SUFFICES ASSUME DataInv PROVE TypeOK
  OBVIOUS
<1>1. IInv /\ StoreTyped(store) /\ StoreFits(store)
      /\ \A p \in Pagers : LocalOK(pager[p], store.szMax)
  BY DEF DataInv, DataOK
<1>2. DOMAIN pager = Pagers
  BY <1>1 DEF IInv
<1>3. ASSUME NEW p \in Pagers
      PROVE  LET s == pager[p]
             IN  /\ s.eState \in NOT_OPEN..PAGER_ERROR
                 /\ s.eLock \in {NO_LOCK, SHARED_LOCK, RESERVED_LOCK, EXCLUSIVE_LOCK}
                 /\ {s.memDb, s.hasHeldSharedLock, s.changeCountDone} \subseteq BOOLEAN
                 /\ {s.dbSize, s.dbOrigSize, s.dbFileSize} \subseteq 0..MaxPage
                 /\ s.dbFileVers \in VersType
                 /\ DOMAIN s.cache \subseteq 1..MaxPage
                 /\ \A n \in DOMAIN s.cache : s.cache[n] \in PageType
                 /\ IsRecords(s.journal) /\ s.journalHdr \in 0..Len(s.journal)
                 /\ IsRecords(s.sub)
                 /\ \A i \in DOMAIN s.aSavepoint : s.aSavepoint[i] \in SavepointType
                 /\ StateAssertions(s)
  <2> DEFINE s == pager[p]
  <2>1. Typed(s) /\ MarksBound(s)
    BY <1>1, LocalTyped
  <2>2. StateOfLock(s)
    BY <1>1 DEF IInv, Agrees
  <2>3. StateAssertions(s)
    BY <1>1, <2>2, LocalAsserted
  <2> HIDE DEF s
  <2>4. IsRecords(s.journal) /\ IsRecords(s.sub)
    BY <2>1, RecordsTyped DEF Typed
  <2>5. \A i \in DOMAIN s.aSavepoint : s.aSavepoint[i] \in SavepointType
    BY <2>1 DEF MarksBound
  <2>6. DOMAIN s.cache \subseteq 1..MaxPage
        /\ \A n \in DOMAIN s.cache : s.cache[n] \in PageType
    BY <2>1 DEF Typed, IsCache
  <2>7. /\ s.eState \in NOT_OPEN..PAGER_ERROR
        /\ s.eLock \in {NO_LOCK, SHARED_LOCK, RESERVED_LOCK, EXCLUSIVE_LOCK}
        /\ {s.memDb, s.hasHeldSharedLock, s.changeCountDone} \subseteq BOOLEAN
        /\ {s.dbSize, s.dbOrigSize, s.dbFileSize} \subseteq 0..MaxPage
        /\ s.dbFileVers \in VersType
        /\ s.journalHdr \in 0..Len(s.journal)
    BY <2>1 DEF Typed
  <2> QED
    BY <2>3, <2>4, <2>5, <2>6, <2>7 DEF s
<1>4. \A n \in DOMAIN store.pages : store.pages[n] \in Content
  <2>1. store.pages \in Seq(Content)
    BY <1>1 DEF StoreTyped
  <2> QED
    BY <2>1, LenProperties, ElementOfSeq
<1>5. Len(store.pages) <= store.szMax
  BY <1>1 DEF StoreFits
<1> QED
  BY <1>2, <1>3, <1>4, <1>5 DEF TypeOK

\* In every reachable state the pagers and the store have their types, and
\* every pager the lock and the sizes that assert_pager_state demands.
THEOREM PagerTypeCorrect == Spec => []TypeOK
<1>1. Spec => []DataInv
  BY InitData, StepData, PTL DEF Spec
<1> QED
  BY <1>1, DataTypeOK, PTL
-----------------------------------------------------------------------------
(***************************************************************************)
(* What the operators of module Pager make of a write transaction and of   *)
(* the store: lemmas for the theorems of PagerStore_proofs.                *)
(*                                                                         *)
(* The argument.  B is the database the transaction began with, and does   *)
(* not change until it commits.  Tx says how the pager s and the store m   *)
(* stand to B between two calls:                                           *)
(*                                                                         *)
(*   - Logged.  A page whose original is not in the journal is the page of *)
(*     B, in the cache and in the store; a record that is not written yet  *)
(*     waits (needSync), and its page has not been overwritten in the      *)
(*     store; a clean page is what the store holds.                        *)
(*   - Tracked.  What a savepoint counts as saved is recorded after its    *)
(*     place in one of the journals, and a record that is cut off when a   *)
(*     savepoint is released is not the only one of an earlier savepoint.  *)
(*   - Grown and Headed.  Page 1 gives the size of the image, in the cache,*)
(*     in B, and in what each savepoint saves.                             *)
(*   - Counting.  The change counter of page 1 is that of B.               *)
(*                                                                         *)
(* Saved(s, m, sp, n, c) is what savepoint sp gives back for page n: the   *)
(* content in the journal, else the first in the sub-journal, else what the*)
(* page holds now.  Carries says that a step loses none of it: every       *)
(* operator that writes, spills or plays back is shown to carry what the   *)
(* savepoints that stay have saved, so that Headed is kept; and at the     *)
(* first record after its place, a page holds what the savepoint saved.    *)
(*                                                                         *)
(* Phase one of a commit leaves the store as the cache (Done).             *)
(***************************************************************************)

-----------------------------------------------------------------------------
(* The journals of a transaction.                                          *)

\* Only a dirty page waits for the journal, and an original that changed is
\* in the journal.
FlagsOK(s) ==
    \A n \in DOMAIN s.cache :
        /\ s.cache[n].needSync => s.cache[n].dirty
        /\ s.cache[n].dirty /\ n <= s.dbOrigSize => n \in InJournal(s)

\* The page of a record that is not written yet waits in the cache; before
\* the file changes, no record is.
UnsyncedOK(s) ==
    /\ \A i \in DOMAIN s.journal :
          i > s.journalHdr => /\ s.journal[i].pgno \in DOMAIN s.cache
                              /\ s.cache[s.journal[i].pgno].needSync
    /\ s.eState < PAGER_WRITER_DBMOD => s.journalHdr = 0

\* A page of the sub-journal has its original in the journal, and is dirty in
\* the cache as long as the file has not been changed.
SubOK(s) ==
    \A i \in DOMAIN s.sub :
        /\ s.sub[i].pgno <= s.dbOrigSize => s.sub[i].pgno \in InJournal(s)
        /\ s.eState = PAGER_WRITER_CACHEMOD =>
              /\ s.sub[i].pgno \in DOMAIN s.cache
              /\ s.cache[s.sub[i].pgno].dirty

\* Page n is recorded in the journal, or in the sub-journal up to position
\* k, since the savepoint sp.
InTail(s, sp, n) ==
    \E i \in DOMAIN s.journal : i > sp.iOffset /\ s.journal[i].pgno = n

InSubTail(s, sp, n, k) ==
    \E i \in DOMAIN s.sub : i > sp.iSubRec /\ i <= k /\ s.sub[i].pgno = n

Recorded(s, sp, n, k) == InTail(s, sp, n) \/ InSubTail(s, sp, n, k)

\* The pages of its image a savepoint counts as saved are recorded after its
\* place.
MarksOK(s) ==
    \A i \in DOMAIN s.aSavepoint :
        \A n \in s.aSavepoint[i].inSavepoint :
            n <= s.aSavepoint[i].nOrig
            => Recorded(s, s.aSavepoint[i], n, Len(s.sub))

\* A later savepoint has no smaller image.  What is recorded after savepoint
\* j, which may be cut off when it is released, is recorded before it for the
\* earlier ones.
OrderOK(s) ==
    \A i, j \in DOMAIN s.aSavepoint :
        i < j =>
        /\ s.aSavepoint[i].nOrig <= s.aSavepoint[j].nOrig
        /\ s.aSavepoint[j].bTruncateOnRelease =>
              \A k \in DOMAIN s.sub :
                  k > s.aSavepoint[j].iSubRec
                  /\ s.sub[k].pgno <= s.aSavepoint[i].nOrig
                  => Recorded(s, s.aSavepoint[i], s.sub[k].pgno,
                              s.aSavepoint[j].iSubRec)

\* The savepoints and the sub-journal.
Tracked(s) == SubOK(s) /\ MarksOK(s) /\ OrderOK(s)

\* What pager s has on page n.
Holding(s, m, n) ==
    IF n \in DOMAIN s.cache THEN s.cache[n].c
    ELSE IF s.memDb THEN Zero ELSE Read(m, n)

\* The savepoint sp saves the content c for page n: what the journal has of
\* it, or else the first the sub-journal has, or else what the page holds.
Saved(s, m, sp, n, c) ==
    \/ \E i \in DOMAIN s.journal :
          i > sp.iOffset /\ s.journal[i].pgno = n /\ s.journal[i].c = c
    \/ /\ ~InTail(s, sp, n)
       /\ \E i \in DOMAIN s.sub :
             /\ i > sp.iSubRec /\ s.sub[i].pgno = n /\ s.sub[i].c = c
             /\ \A k \in DOMAIN s.sub :
                   k > sp.iSubRec /\ s.sub[k].pgno = n => i <= k
    \/ ~Recorded(s, sp, n, Len(s.sub)) /\ Holding(s, m, n) = c

\* The savepoints of t, which s had too, still save what they saved.
Carries(s, m, t, k) ==
    /\ Len(t.aSavepoint) <= Len(s.aSavepoint)
    /\ \A i \in 1..Len(t.aSavepoint) :
          /\ t.aSavepoint[i].nOrig = s.aSavepoint[i].nOrig
          /\ \A n \in 1..s.aSavepoint[i].nOrig, c \in Content :
                Saved(s, m, s.aSavepoint[i], n, c)
                => Saved(t, k, t.aSavepoint[i], n, c)

\* The same, and no savepoint is gone.
Continues(s, m, t, k) ==
    Carries(s, m, t, k) /\ Len(t.aSavepoint) = Len(s.aSavepoint)

\* t has what s has: the image, the journals and the savepoints.
Steady(s, m, t, k) ==
    /\ t.dbSize = s.dbSize /\ t.journal = s.journal /\ t.sub = s.sub
    /\ t.aSavepoint = s.aSavepoint
    /\ \A n \in 1..s.dbSize : Holding(t, k, n) = Holding(s, m, n)

\* Every savepoint that covers page n has it recorded.
Protected(s, n) ==
    /\ n \in DOMAIN s.cache /\ s.cache[n].dirty
    /\ \A i \in DOMAIN s.aSavepoint :
          n <= s.aSavepoint[i].nOrig => n \in s.aSavepoint[i].inSavepoint
-----------------------------------------------------------------------------
(* A transaction, the store and the database it began with.                *)

\* A database: a content for every page.
Databases == [1..MaxPage -> Content]

\* B is the database with which s began: its pages are in the journal, or
\* neither the cache nor the store has another content for them.
Base(s, m, B) ==
    /\ B \in Databases
    /\ \A n \in 1..MaxPage : n > s.dbOrigSize => B[n] = Zero
    /\ \A i \in DOMAIN s.journal : s.journal[i].c = B[s.journal[i].pgno]
    /\ \A n \in 1..s.dbOrigSize : n \notin InJournal(s) =>
          /\ n \in DOMAIN s.cache => s.cache[n].c = B[n]
          /\ IF s.memDb THEN n \in DOMAIN s.cache \/ B[n] = Zero
                        ELSE Read(m, n) = B[n]

\* What is not in the written part of the journal has not been overwritten.
Unwritten(s, m, B) ==
    \A i \in DOMAIN s.journal :
        i > s.journalHdr => Read(m, s.journal[i].pgno) = B[s.journal[i].pgno]

\* A clean page of the image is what the store holds.
Coherent(s, m) ==
    \A n \in DOMAIN s.cache :
        ~s.cache[n].dirty /\ n <= s.dbSize => s.cache[n].c = Read(m, n)

\* The transaction of s, which began with B, and the store m.
Logged(s, m, B) ==
    /\ FlagsOK(s) /\ UnsyncedOK(s) /\ Base(s, m, B)
    /\ ~s.memDb =>
          Unwritten(s, m, B) /\ Coherent(s, m) /\ s.dbFileSize = Len(m.pages)

\* The image has not become smaller since the transaction or a savepoint
\* began.
Grown(s) ==
    /\ s.dbOrigSize <= s.dbSize
    /\ \A i \in DOMAIN s.aSavepoint :
          s.dbOrigSize <= s.aSavepoint[i].nOrig /\ s.aSavepoint[i].nOrig <= s.dbSize

\* Page 1 gives the size of the image: now, at the beginning, and at every
\* savepoint.
Headed(s, m, B) ==
    /\ s.cache[1].c.vers.nPage = s.dbSize
    /\ s.dbOrigSize > 0 => B[1].vers.nPage = s.dbOrigSize
    /\ \A i \in DOMAIN s.aSavepoint :
          \E c \in Content : /\ Saved(s, m, s.aSavepoint[i], 1, c)
                             /\ c.vers.nPage = s.aSavepoint[i].nOrig

\* No counter changes before the commit.  A commit that did not fit may have
\* left the pager of an empty store with a version that no store can have.
Counting(s, m, B) ==
    /\ s.cache[1].c.vers.counter = B[1].vers.counter
    /\ \A i \in DOMAIN s.sub :
          s.sub[i].pgno = 1 => s.sub[i].c.vers.counter = B[1].vers.counter
    /\ \/ s.dbFileVers.counter = B[1].vers.counter
       \/ s.dbOrigSize = 0 /\ s.dbFileVers.nPage > m.szMax
    /\ s.dbOrigSize > 0 /\ 1 \notin InJournal(s) => s.dbFileVers = B[1].vers

\* A pager in a write transaction, before the commit, between two calls.
Tx(s, m, B) ==
    /\ Logged(s, m, B) /\ Tracked(s) /\ Grown(s) /\ Headed(s, m, B)
    /\ ~s.memDb => Counting(s, m, B)

\* A pager after phase one of its commit.
Done(s, m, B) ==
    /\ s.cache[1].c.vers.nPage = s.dbSize
    /\ s.dbOrigSize > 0 => B[1].vers.nPage = s.dbOrigSize
    /\ JournalOK(s) /\ Base(s, m, B)
    /\ s.memDb => InJournal(s) \subseteq DOMAIN s.cache
    /\ ~s.memDb =>
          /\ Clean(s) /\ s.journalHdr = Len(s.journal)
          /\ Coherent(s, m) /\ s.dbFileSize = Len(m.pages)
          /\ 1 <= s.dbSize /\ s.dbSize <= s.dbFileSize
          /\ s.dbFileVers = s.cache[1].c.vers
          /\ B[1].vers.counter < s.dbFileVers.counter
          /\ s.dbOrigSize > 0 => 1 \in InJournal(s)

\* The store m holds the database B, of this size.
Stores(m, size, B) ==
    /\ B \in Databases /\ Len(m.pages) = size
    /\ \A n \in 1..MaxPage : Read(m, n) = B[n]

\* The version s remembers is not ahead of B, or no store can have it.
NotAhead(s, m, B) ==
    \/ s.dbFileVers.nPage > m.szMax
    \/ s.dbFileVers.counter <= B[1].vers.counter

\* A pager in error: the store is what it was.
Broken(s, m, B) ==
    /\ s.journalHdr = Len(s.journal) /\ FlagsOK(s)
    /\ JournalOK(s) /\ Base(s, m, B) /\ Stores(m, s.dbOrigSize, B)
    /\ s.dbOrigSize > 0 => B[1].vers.nPage = s.dbOrigSize
    /\ Coherent(s, m) /\ Grown(s)
    /\ NotAhead(s, m, B)

\* A pager between two transactions: if the version it remembers is that of
\* B, so is its cache.
Fresh(s, m, B) ==
    /\ s.dbFileVers = B[1].vers => \A n \in DOMAIN s.cache : s.cache[n].c = B[n]
    /\ NotAhead(s, m, B)
    /\ ~s.hasHeldSharedLock => DOMAIN s.cache = {}

\* A reader of B.
Reads(s, m, B) ==
    /\ s.dbSize = Len(m.pages)
    /\ \A n \in DOMAIN s.cache : s.cache[n].c = B[n]
    /\ s.dbSize > 0 => s.dbFileVers = B[1].vers
    /\ NotAhead(s, m, B)

\* A pager, by its state.
HoldsOK(s, m, B) ==
    /\ s.eState > PAGER_OPEN /\ ~s.memDb => s.hasHeldSharedLock
    /\ s.eState = PAGER_OPEN => Fresh(s, m, B)
    /\ s.eState = PAGER_READER =>
          IF s.memDb
          THEN 1 \in DOMAIN s.cache => s.cache[1].c.vers.nPage = s.dbSize
          ELSE Reads(s, m, B)
    /\ InTx(s) => Tx(s, m, B)
    /\ s.eState = PAGER_WRITER_FINISHED => Done(s, m, B)
    /\ s.eState = PAGER_ERROR => Broken(s, m, B)

\* A pager that has a write transaction.
Owning(s) == s.eState \in PAGER_WRITER_LOCKED..PAGER_ERROR

\* Page 1 of a store gives its size.
StoreHeaded(m) == m.pages # <<>> => m.pages[1].vers.nPage = Len(m.pages)

\* B is the database last committed, and who owns the store is alone with it.
CommittedIs(B) ==
    /\ B \in Databases
    /\ store.nRef = 0 => store.pages = <<>>
    /\ (\A p \in Pagers : ~Owning(pager[p]))
          => Stores(store, Len(store.pages), B) /\ StoreHeaded(store)
    /\ \A p \in Pagers : HoldsOK(pager[p], store, B)
    /\ \A p, q \in Pagers :
          Owning(pager[p]) /\ q # p => pager[q].eState <= PAGER_OPEN

StoreOK == \E B : CommittedIs(B)
-----------------------------------------------------------------------------
(* Making a page writable.                                                 *)

\* From s to t the journals keep what they have.
JournalsGrow(s, t) ==
    /\ Typed(s) /\ Typed(t) /\ Len(s.journal) <= Len(t.journal)
    /\ \A i \in 1..Len(s.journal) : t.journal[i] = s.journal[i]
    /\ Len(s.sub) <= Len(t.sub)
    /\ \A i \in 1..Len(s.sub) : t.sub[i] = s.sub[i]

\* The journals are sequences.
LEMMA JournalDomains ==
    ASSUME NEW s, Typed(s)
    PROVE  /\ Len(s.journal) \in Nat /\ DOMAIN s.journal = 1..Len(s.journal)
           /\ Len(s.sub) \in Nat /\ DOMAIN s.sub = 1..Len(s.sub)
           /\ Len(s.aSavepoint) \in Nat
           /\ DOMAIN s.aSavepoint = 1..Len(s.aSavepoint)
           /\ \A i \in DOMAIN s.journal : s.journal[i] \in RecordType
           /\ \A i \in DOMAIN s.sub : s.sub[i] \in RecordType
           /\ \A i \in DOMAIN s.aSavepoint : s.aSavepoint[i] \in MarkType
BY LenProperties, ElementOfSeq DEF Typed

\* What is recorded stays recorded.
LEMMA RecordedStays ==
    ASSUME NEW s, NEW t, JournalsGrow(s, t), NEW a, NEW b,
           b.iOffset = a.iOffset, b.iSubRec = a.iSubRec,
           NEW n, NEW k \in Nat, NEW l \in Nat, k <= l, Recorded(s, a, n, k)
    PROVE  Recorded(t, b, n, l)
<1>1. /\ Len(s.journal) \in Nat /\ Len(t.journal) \in Nat
      /\ DOMAIN s.journal = 1..Len(s.journal)
      /\ DOMAIN t.journal = 1..Len(t.journal)
  BY JournalDomains DEF JournalsGrow
<1>2. /\ Len(s.sub) \in Nat /\ Len(t.sub) \in Nat
      /\ DOMAIN s.sub = 1..Len(s.sub)
      /\ DOMAIN t.sub = 1..Len(t.sub)
  BY JournalDomains DEF JournalsGrow
<1>3. CASE InTail(s, a, n)
  <2>1. PICK i \in DOMAIN s.journal : i > a.iOffset /\ s.journal[i].pgno = n
    BY <1>3 DEF InTail
  <2>2. i \in DOMAIN t.journal /\ t.journal[i] = s.journal[i]
    BY <1>1, <2>1 DEF JournalsGrow
  <2> QED
    BY <2>1, <2>2 DEF Recorded, InTail
<1>4. CASE InSubTail(s, a, n, k)
  <2>1. PICK i \in DOMAIN s.sub : i > a.iSubRec /\ i <= k /\ s.sub[i].pgno = n
    BY <1>4 DEF InSubTail
  <2>2. i \in DOMAIN t.sub /\ t.sub[i] = s.sub[i]
    BY <1>2, <2>1 DEF JournalsGrow
  <2>3. i <= l
    BY <1>2, <2>1
  <2> QED
    BY <2>1, <2>2, <2>3 DEF Recorded, InSubTail
<1> QED
  BY <1>3, <1>4 DEF Recorded

\* The three ways in which pager_write leaves the journal.
Old(s, u, n) ==
    n \in InJournal(s) /\ u.journal = s.journal
    /\ u.aSavepoint = s.aSavepoint
    /\ u.cache[n].needSync = s.cache[n].needSync

Added(s, u, n) ==
    /\ n \notin InJournal(s) /\ n <= s.dbOrigSize
    /\ u.journal = Append(s.journal, Record(s, n))
    /\ u.cache[n].needSync
    /\ Covers(s.aSavepoint, u.aSavepoint, n)
    /\ \A i \in 1..Len(s.aSavepoint) :
          u.aSavepoint[i].bTruncateOnRelease
             = s.aSavepoint[i].bTruncateOnRelease

New(s, u, n) ==
    n \notin InJournal(s) /\ n > s.dbOrigSize
    /\ u.journal = s.journal /\ u.aSavepoint = s.aSavepoint

\* What they have in common, and what the added record is.
LEMMA SavesCases ==
    ASSUME NEW s, Typed(s), NEW n \in DOMAIN s.cache, NEW u, Saves(s, u, n)
    PROVE  /\ Old(s, u, n) \/ Added(s, u, n) \/ New(s, u, n)
           /\ JournalsGrow(s, u) /\ u.sub = s.sub
           /\ InJournal(s) \subseteq InJournal(u)
           /\ n <= s.dbOrigSize => n \in InJournal(u)
           /\ Added(s, u, n) =>
                 /\ Len(u.journal) = Len(s.journal) + 1
                 /\ DOMAIN u.journal = 1..(Len(s.journal) + 1)
                 /\ u.journal[Len(s.journal) + 1].pgno = n
                 /\ u.journal[Len(s.journal) + 1].c = s.cache[n].c
           /\ ~Added(s, u, n) => u.journal = s.journal
<1>1. Old(s, u, n) \/ Added(s, u, n) \/ New(s, u, n)
  BY DEF Saves, Old, Added, New
<1>2. /\ Len(s.journal) \in Nat /\ DOMAIN s.journal = 1..Len(s.journal)
      /\ s.journal \in Seq(RecordType)
      /\ Len(s.sub) \in Nat /\ DOMAIN s.sub = 1..Len(s.sub)
  BY JournalDomains DEF Typed
<1>3. Added(s, u, n) =>
         /\ Len(u.journal) = Len(s.journal) + 1
         /\ DOMAIN u.journal = 1..(Len(s.journal) + 1)
         /\ \A i \in 1..Len(s.journal) : u.journal[i] = s.journal[i]
         /\ u.journal[Len(s.journal) + 1] = Record(s, n)
         /\ InJournal(u) = InJournal(s) \cup {n}
  BY <1>2, RecordTyped, Appended DEF InJournal, Added
<1>4. Record(s, n).pgno = n /\ Record(s, n).c = s.cache[n].c
  BY DEF Record
<1>5. Old(s, u, n) \/ New(s, u, n)
         => u.journal = s.journal /\ InJournal(u) = InJournal(s)
  BY DEF InJournal, Old, New
<1>6. Typed(u) /\ u.sub = s.sub
  BY DEF Saves
<1>7. JournalsGrow(s, u)
  <2>1. CASE Added(s, u, n)
    BY <1>2, <1>3, <1>6, <2>1 DEF JournalsGrow
  <2>2. CASE Old(s, u, n) \/ New(s, u, n)
    BY <1>2, <1>5, <1>6, <2>2 DEF JournalsGrow
  <2> QED
    BY <1>1, <2>1, <2>2
<1>8. n <= s.dbOrigSize => n \in InJournal(u)
  BY <1>1, <1>3, <1>5 DEF Old, New, Typed, IsCache
<1> QED
  BY <1>1, <1>3, <1>4, <1>5, <1>6, <1>7, <1>8

\* The flags and the journal, when page n is made writable.
LEMMA SavesFlags ==
    ASSUME NEW s, Sound(s), FlagsOK(s), UnsyncedOK(s), NEW n \in DOMAIN s.cache,
           NEW u, Saves(s, u, n)
    PROVE  FlagsOK(u) /\ UnsyncedOK(u)
<1>1. Typed(s) /\ InTx(s) /\ Typed(u) /\ SameFile(s, u) /\ SameOthers(s, u, n)
  BY DEF Sound, Saves
<1>2. /\ u.eState = IF s.eState = PAGER_WRITER_LOCKED
                    THEN PAGER_WRITER_CACHEMOD ELSE s.eState
      /\ u.journalHdr = s.journalHdr
      /\ u.cache[n].dirty
  BY DEF Saves
<1>3. /\ Old(s, u, n) \/ Added(s, u, n) \/ New(s, u, n)
      /\ JournalsGrow(s, u) /\ u.sub = s.sub
      /\ InJournal(s) \subseteq InJournal(u)
      /\ n <= s.dbOrigSize => n \in InJournal(u)
  BY <1>1, SavesCases
<1>4. /\ Added(s, u, n) =>
            /\ DOMAIN u.journal = 1..(Len(s.journal) + 1)
            /\ u.journal[Len(s.journal) + 1].pgno = n
      /\ ~Added(s, u, n) => u.journal = s.journal
  BY <1>1, SavesCases
<1>5. /\ Len(s.journal) \in Nat /\ DOMAIN s.journal = 1..Len(s.journal)
  BY <1>1, JournalDomains
<1>6. FlagsOK(u)
  BY <1>1, <1>2, <1>3 DEF FlagsOK, SameOthers, SameFile
<1>7. UnsyncedOK(u)
  <2>1. u.eState < PAGER_WRITER_DBMOD => u.journalHdr = 0
    BY <1>1, <1>2 DEF UnsyncedOK, InTx
  <2> SUFFICES ASSUME NEW i \in DOMAIN u.journal, i > u.journalHdr
               PROVE  /\ u.journal[i].pgno \in DOMAIN u.cache
                      /\ u.cache[u.journal[i].pgno].needSync
    BY <2>1 DEF UnsyncedOK
  <2>2. CASE i \in DOMAIN s.journal /\ u.journal[i] = s.journal[i]
    <3> DEFINE k == s.journal[i].pgno
    <3>1. k \in DOMAIN s.cache /\ s.cache[k].needSync
      BY <1>2, <2>2 DEF UnsyncedOK
    <3>2. k = n => u.cache[n].needSync
      BY <1>3, <2>2, <3>1 DEF Old, Added, New, InJournal, PagesIn
    <3> QED
      BY <1>1, <2>2, <3>1, <3>2 DEF SameOthers
  <2>3. CASE Added(s, u, n) /\ i = Len(s.journal) + 1
    BY <1>1, <1>4, <2>3 DEF Added, SameOthers
  <2>4. \/ i \in DOMAIN s.journal /\ u.journal[i] = s.journal[i]
        \/ Added(s, u, n) /\ i = Len(s.journal) + 1
    <3>1. CASE ~Added(s, u, n)
      BY <1>4, <3>1
    <3>2. CASE Added(s, u, n)
      <4>1. \A k \in 1..Len(s.journal) : u.journal[k] = s.journal[k]
        BY <1>3 DEF JournalsGrow
      <4>2. i = Len(s.journal) + 1 \/ i \in 1..Len(s.journal)
        BY <1>4, <1>5, <3>2
      <4> QED
        BY <1>5, <3>2, <4>1, <4>2
    <3> QED
      BY <3>1, <3>2
  <2> QED
    BY <2>2, <2>3, <2>4
<1> QED
  BY <1>6, <1>7

\* The original of page n that is added to the journal is a page of the
\* database with which the transaction began.
LEMMA SavesLogged ==
    ASSUME NEW s, Sound(s), NEW m, NEW B, Logged(s, m, B),
           NEW n \in DOMAIN s.cache, NEW u, Saves(s, u, n)
    PROVE  Logged(u, m, B)
<1>1. /\ Typed(s) /\ Typed(u) /\ SameFile(s, u) /\ SameOthers(s, u, n)
      /\ u.journalHdr = s.journalHdr /\ u.dbSize = s.dbSize
      /\ u.cache[n].c = s.cache[n].c /\ u.cache[n].dirty
  BY DEF Sound, Saves
<1>2. /\ Old(s, u, n) \/ Added(s, u, n) \/ New(s, u, n)
      /\ JournalsGrow(s, u)
      /\ InJournal(s) \subseteq InJournal(u)
      /\ n <= s.dbOrigSize => n \in InJournal(u)
  BY <1>1, SavesCases
<1>3. /\ Added(s, u, n) =>
            /\ DOMAIN u.journal = 1..(Len(s.journal) + 1)
            /\ u.journal[Len(s.journal) + 1].pgno = n
            /\ u.journal[Len(s.journal) + 1].c = s.cache[n].c
      /\ ~Added(s, u, n) => u.journal = s.journal
  BY <1>1, SavesCases
<1>4. /\ Len(s.journal) \in Nat /\ DOMAIN s.journal = 1..Len(s.journal)
      /\ n \in 1..MaxPage
  BY <1>1, JournalDomains DEF Typed, IsCache
<1>5. FlagsOK(u) /\ UnsyncedOK(u)
  BY SavesFlags DEF Logged
<1>6. ASSUME NEW i \in DOMAIN u.journal
      PROVE  \/ i \in DOMAIN s.journal /\ u.journal[i] = s.journal[i]
             \/ Added(s, u, n) /\ u.journal[i].pgno = n
                /\ u.journal[i].c = s.cache[n].c
  <2>1. CASE ~Added(s, u, n)
    BY <1>3, <2>1
  <2>2. CASE Added(s, u, n)
    BY <1>2, <1>3, <1>4, <2>2 DEF JournalsGrow
  <2> QED
    BY <2>1, <2>2
<1>7. Base(s, m, B)
  BY DEF Logged
<1>8. Added(s, u, n) => /\ s.cache[n].c = B[n]
                        /\ ~s.memDb => Read(m, n) = B[n]
  <2>1. Added(s, u, n) => n \in 1..s.dbOrigSize /\ n \notin InJournal(s)
    BY <1>1, <1>4 DEF Added, Typed
  <2> QED
    BY <1>7, <2>1 DEF Base
<1>9. Base(u, m, B)
  <2>1. \A i \in DOMAIN u.journal : u.journal[i].c = B[u.journal[i].pgno]
    BY <1>6, <1>7, <1>8 DEF Base
  <2>2. u.dbOrigSize = s.dbOrigSize /\ u.memDb = s.memDb
    BY <1>1 DEF SameFile
  <2>3. \A i \in DOMAIN s.cache : u.cache[i].c = s.cache[i].c
    BY <1>1 DEF SameOthers
  <2>4. DOMAIN u.cache = DOMAIN s.cache
    BY <1>1 DEF SameOthers
  <2>5. ASSUME NEW k \in 1..u.dbOrigSize, k \notin InJournal(u)
        PROVE  /\ k \in DOMAIN u.cache => u.cache[k].c = B[k]
               /\ IF u.memDb THEN k \in DOMAIN u.cache \/ B[k] = Zero
                             ELSE Read(m, k) = B[k]
    <3>1. k \in 1..s.dbOrigSize /\ k \notin InJournal(s)
      BY <1>2, <2>2, <2>5
    <3> QED
      BY <1>7, <2>2, <2>3, <2>4, <3>1 DEF Base
  <2> QED
    BY <1>7, <2>1, <2>2, <2>5 DEF Base
<1>10. ASSUME ~u.memDb
       PROVE  /\ Unwritten(u, m, B) /\ Coherent(u, m)
              /\ u.dbFileSize = Len(m.pages)
  <2>1. ~s.memDb /\ u.dbFileSize = s.dbFileSize
    BY <1>1, <1>10 DEF SameFile
  <2>2. Unwritten(s, m, B) /\ Coherent(s, m) /\ s.dbFileSize = Len(m.pages)
    BY <2>1 DEF Logged
  <2>3. Unwritten(u, m, B)
    BY <1>1, <1>6, <1>8, <2>1, <2>2 DEF Unwritten
  <2>4. Coherent(u, m)
    BY <1>1, <2>2 DEF Coherent, SameOthers
  <2> QED
    BY <2>1, <2>2, <2>3, <2>4
<1> QED
  BY <1>5, <1>9, <1>10 DEF Logged

\* Savepoints B at the places of A, which cover page n in addition.
Places(A, B, n) ==
    /\ Len(A) \in Nat /\ DOMAIN A = 1..Len(A) /\ DOMAIN B = 1..Len(A)
    /\ Len(B) = Len(A)
    /\ \A i \in 1..Len(A) :
          /\ A[i] \in MarkType /\ B[i] \in MarkType
          /\ B[i].nOrig = A[i].nOrig /\ B[i].iOffset = A[i].iOffset
          /\ B[i].iSubRec = A[i].iSubRec
          /\ B[i].inSavepoint = IF n <= A[i].nOrig
                                THEN A[i].inSavepoint \cup {n}
                                ELSE A[i].inSavepoint
          /\ B[i].inSavepoint \subseteq A[i].inSavepoint \cup {n}
          /\ A[i].nOrig \in 0..MaxPage
          /\ A[i].iOffset \in Nat /\ A[i].iSubRec \in Nat

\* addToSavepointBitvecs makes them.
LEMMA CoversFacts ==
    ASSUME NEW A \in Seq(MarkType), NEW B, NEW n, Covers(A, B, n)
    PROVE  Places(A, B, n)
<1>1. Len(A) \in Nat /\ DOMAIN A = 1..Len(A)
  BY LenProperties
<1>2. B \in Seq(MarkType) /\ Len(B) = Len(A)
  BY DEF Covers
<1>3. DOMAIN B = 1..Len(A)
  BY <1>2, LenProperties
<1>4. \A i \in 1..Len(A) : A[i] \in MarkType /\ B[i] \in MarkType
  BY <1>1, <1>2, <1>3, ElementOfSeq
<1>5. ASSUME NEW i \in 1..Len(A)
      PROVE  /\ B[i].nOrig = A[i].nOrig /\ B[i].iOffset = A[i].iOffset
             /\ B[i].iSubRec = A[i].iSubRec
             /\ B[i].inSavepoint = IF n <= A[i].nOrig
                                   THEN A[i].inSavepoint \cup {n}
                                   ELSE A[i].inSavepoint
             /\ B[i].inSavepoint \subseteq A[i].inSavepoint \cup {n}
  BY DEF Covers
<1>6. \A i \in 1..Len(A) : /\ A[i].nOrig \in 0..MaxPage
                            /\ A[i].iOffset \in Nat /\ A[i].iSubRec \in Nat
  BY <1>4 DEF MarkType
<1> QED
  BY <1>1, <1>2, <1>3, <1>4, <1>5, <1>6 DEF Places

\* A page that is recorded is saved for every savepoint that covers it.
LEMMA MarksCovered ==
    ASSUME NEW s, NEW u, JournalsGrow(s, u), MarksOK(s), NEW n,
           Covers(s.aSavepoint, u.aSavepoint, n),
           \A i \in 1..Len(s.aSavepoint) :
              Recorded(u, u.aSavepoint[i], n, Len(u.sub))
    PROVE  MarksOK(u)
<1> DEFINE A == s.aSavepoint
           B == u.aSavepoint
<1>1. Typed(s) /\ Typed(u) /\ A \in Seq(MarkType)
  BY DEF JournalsGrow, Typed
<1>2. /\ DOMAIN A = 1..Len(A) /\ DOMAIN B = 1..Len(A)
      /\ \A i \in 1..Len(A) :
          /\ B[i].iOffset = A[i].iOffset /\ B[i].iSubRec = A[i].iSubRec
          /\ B[i].inSavepoint \subseteq A[i].inSavepoint \cup {n}
          /\ B[i].nOrig = A[i].nOrig
  <2>1. Places(A, B, n)
    BY <1>1, CoversFacts
  <2> QED
    BY <2>1 DEF Places
<1>3. Len(s.sub) \in Nat /\ Len(u.sub) \in Nat /\ Len(s.sub) <= Len(u.sub)
  BY <1>1, JournalDomains DEF JournalsGrow
<1> SUFFICES ASSUME NEW i \in DOMAIN B, NEW x \in B[i].inSavepoint,
                    x <= B[i].nOrig
             PROVE  Recorded(u, B[i], x, Len(u.sub))
  BY DEF MarksOK
<1>4. i \in 1..Len(A) /\ i \in DOMAIN A
  BY <1>2
<1>5. CASE x = n
  BY <1>4, <1>5
<1>6. CASE x \in A[i].inSavepoint
  <2>1. Recorded(s, A[i], x, Len(s.sub))
    BY <1>2, <1>4, <1>6 DEF MarksOK
  <2>2. B[i].iOffset = A[i].iOffset /\ B[i].iSubRec = A[i].iSubRec
    BY <1>2, <1>4
  <2> QED
    BY <1>3, <2>1, <2>2, RecordedStays
<1>7. x = n \/ x \in A[i].inSavepoint
  BY <1>2, <1>4
<1> QED
  BY <1>5, <1>6, <1>7

\* The order of the savepoints survives a longer journal.
LEMMA OrderSurvives ==
    ASSUME NEW s, NEW u, JournalsGrow(s, u), OrderOK(s), NEW n, u.sub = s.sub,
           Covers(s.aSavepoint, u.aSavepoint, n),
           \A i \in 1..Len(s.aSavepoint) :
              u.aSavepoint[i].bTruncateOnRelease
                 = s.aSavepoint[i].bTruncateOnRelease
    PROVE  OrderOK(u)
<1> DEFINE A == s.aSavepoint
           B == u.aSavepoint
<1>1. Typed(s) /\ A \in Seq(MarkType)
  BY DEF JournalsGrow, Typed
<1>2. /\ DOMAIN A = 1..Len(A) /\ DOMAIN B = 1..Len(A)
      /\ \A i \in 1..Len(A) :
          /\ B[i].nOrig = A[i].nOrig /\ B[i].iOffset = A[i].iOffset
          /\ B[i].iSubRec = A[i].iSubRec /\ A[i].iSubRec \in Nat
          /\ B[i].bTruncateOnRelease = A[i].bTruncateOnRelease
  <2>1. \A i \in 1..Len(A) :
           B[i].bTruncateOnRelease = A[i].bTruncateOnRelease
    OBVIOUS
  <2>2. Places(A, B, n)
    BY <1>1, CoversFacts
  <2> HIDE DEF A, B
  <2> QED
    BY <2>1, <2>2 DEF Places
<1> SUFFICES ASSUME NEW i \in DOMAIN B, NEW j \in DOMAIN B, i < j
             PROVE  /\ B[i].nOrig <= B[j].nOrig
                    /\ B[j].bTruncateOnRelease =>
                          \A k \in DOMAIN u.sub :
                              k > B[j].iSubRec /\ u.sub[k].pgno <= B[i].nOrig
                              => Recorded(u, B[i], u.sub[k].pgno, B[j].iSubRec)
  BY DEF OrderOK
<1>3. /\ A[i].nOrig <= A[j].nOrig
      /\ A[j].bTruncateOnRelease =>
            \A k \in DOMAIN s.sub :
                k > A[j].iSubRec /\ s.sub[k].pgno <= A[i].nOrig
                => Recorded(s, A[i], s.sub[k].pgno, A[j].iSubRec)
  BY <1>2 DEF OrderOK
<1>4. ASSUME B[j].bTruncateOnRelease, NEW k \in DOMAIN u.sub,
             k > B[j].iSubRec, u.sub[k].pgno <= B[i].nOrig
      PROVE  Recorded(u, B[i], u.sub[k].pgno, B[j].iSubRec)
  <2>1. Recorded(s, A[i], s.sub[k].pgno, A[j].iSubRec)
    BY <1>2, <1>3, <1>4
  <2>2. B[i].iOffset = A[i].iOffset /\ B[i].iSubRec = A[i].iSubRec
        /\ B[j].iSubRec = A[j].iSubRec /\ A[j].iSubRec \in Nat
    BY <1>2
  <2>3. Recorded(u, B[i], s.sub[k].pgno, A[j].iSubRec)
    BY <2>1, <2>2, RecordedStays
  <2> QED
    BY <2>2, <2>3
<1> QED
  BY <1>2, <1>3, <1>4

\* The savepoints survive the pager's making page n writable.
LEMMA SavesTracked ==
    ASSUME NEW s, Sound(s), Tracked(s), NEW n \in DOMAIN s.cache,
           NEW u, Saves(s, u, n)
    PROVE  Tracked(u)
<1>1. Typed(s) /\ InTx(s) /\ Typed(u) /\ SameFile(s, u) /\ SameOthers(s, u, n)
  BY DEF Sound, Saves
<1>2. /\ u.eState = IF s.eState = PAGER_WRITER_LOCKED
                    THEN PAGER_WRITER_CACHEMOD ELSE s.eState
      /\ u.cache[n].dirty
  BY DEF Saves
<1>3. /\ Old(s, u, n) \/ Added(s, u, n) \/ New(s, u, n)
      /\ JournalsGrow(s, u) /\ u.sub = s.sub
      /\ InJournal(s) \subseteq InJournal(u)
      /\ n <= s.dbOrigSize => n \in InJournal(u)
  BY <1>1, SavesCases
<1>4. /\ Added(s, u, n) =>
            /\ DOMAIN u.journal = 1..(Len(s.journal) + 1)
            /\ u.journal[Len(s.journal) + 1].pgno = n
      /\ ~Added(s, u, n) => u.journal = s.journal
  BY <1>1, SavesCases
<1>5. /\ Len(s.journal) \in Nat /\ DOMAIN s.journal = 1..Len(s.journal)
  BY <1>1, JournalDomains
<1>6. SubOK(s) /\ MarksOK(s) /\ OrderOK(s) /\ MarksInside(s)
  BY DEF Tracked, Sound
<1>7. SubOK(u)
  <2> SUFFICES ASSUME NEW i \in DOMAIN u.sub
               PROVE  /\ u.sub[i].pgno <= u.dbOrigSize =>
                            u.sub[i].pgno \in InJournal(u)
                      /\ u.eState = PAGER_WRITER_CACHEMOD =>
                            /\ u.sub[i].pgno \in DOMAIN u.cache
                            /\ u.cache[u.sub[i].pgno].dirty
    BY DEF SubOK
  <2>1. i \in DOMAIN s.sub /\ u.sub[i] = s.sub[i]
    BY <1>3
  <2>2. s.eState # PAGER_WRITER_LOCKED
    <3>1. s.eState = PAGER_WRITER_LOCKED => s.sub = <<>>
      BY DEF Sound, Blank
    <3> QED
      BY <2>1, <3>1
  <2>3. /\ s.sub[i].pgno <= s.dbOrigSize => s.sub[i].pgno \in InJournal(s)
        /\ s.eState = PAGER_WRITER_CACHEMOD =>
              /\ s.sub[i].pgno \in DOMAIN s.cache
              /\ s.cache[s.sub[i].pgno].dirty
    BY <1>6, <2>1 DEF SubOK
  <2> QED
    BY <1>1, <1>2, <1>3, <2>1, <2>2, <2>3 DEF SameOthers, SameFile
<1>8. CASE ~Added(s, u, n)
  <2>1. u.aSavepoint = s.aSavepoint /\ u.journal = s.journal /\ u.sub = s.sub
    BY <1>3, <1>4, <1>8 DEF Old, New
  <2>2. MarksOK(u) /\ OrderOK(u)
    BY <1>6, <2>1 DEF MarksOK, OrderOK, Recorded, InTail, InSubTail
  <2> QED
    BY <1>7, <2>2 DEF Tracked
<1>9. CASE Added(s, u, n)
  <2>1. Covers(s.aSavepoint, u.aSavepoint, n) /\ s.aSavepoint \in Seq(MarkType)
    BY <1>1, <1>9 DEF Added, Typed
  <2>2. ASSUME NEW i \in 1..Len(s.aSavepoint)
        PROVE  Recorded(u, u.aSavepoint[i], n, Len(u.sub))
    <3>1. /\ u.aSavepoint[i].iOffset = s.aSavepoint[i].iOffset
          /\ s.aSavepoint[i].iOffset \in Nat /\ i \in DOMAIN s.aSavepoint
      <4>1. Places(s.aSavepoint, u.aSavepoint, n)
        BY <2>1, CoversFacts
      <4> QED
        BY <4>1 DEF Places
    <3>2. s.aSavepoint[i].iOffset <= Len(s.journal)
      BY <1>6, <3>1 DEF MarksInside
    <3>3. Len(s.journal) + 1 \in DOMAIN u.journal
      BY <1>4, <1>5, <1>9
    <3>4. Len(s.journal) + 1 > u.aSavepoint[i].iOffset
      BY <1>5, <3>1, <3>2
    <3>5. InTail(u, u.aSavepoint[i], n)
      BY <1>4, <1>9, <3>3, <3>4 DEF InTail
    <3> QED
      BY <3>5 DEF Recorded
  <2>3. MarksOK(u)
    BY <1>3, <1>6, <2>1, <2>2, MarksCovered
  <2>4. OrderOK(u)
    BY <1>3, <1>6, <1>9, <2>1, OrderSurvives DEF Added
  <2> QED
    BY <1>7, <2>3, <2>4 DEF Tracked
<1> QED
  BY <1>8, <1>9

\* What the pages hold, as long as only their flags change.
LEMMA HoldingStays ==
    ASSUME NEW s, NEW u, NEW m, u.memDb = s.memDb,
           DOMAIN u.cache = DOMAIN s.cache,
           \A i \in DOMAIN s.cache : u.cache[i].c = s.cache[i].c
    PROVE  \A x : Holding(u, m, x) = Holding(s, m, x)
BY DEF Holding

\* The journal and the savepoints stay, and the pages of the savepoints.
LEMMA CarriesSame ==
    ASSUME NEW s, Typed(s), NEW u, NEW m, NEW k,
           u.journal = s.journal, u.sub = s.sub, u.aSavepoint = s.aSavepoint,
           \A i \in 1..Len(s.aSavepoint) :
              \A x \in 1..s.aSavepoint[i].nOrig :
                 ~Recorded(s, s.aSavepoint[i], x, Len(s.sub))
                 => Holding(u, k, x) = Holding(s, m, x)
    PROVE  Carries(s, m, u, k)
<1> DEFINE A == s.aSavepoint
<1>1. Len(A) \in Nat
  BY JournalDomains
<1>2. \A sp, x, l : Recorded(u, sp, x, l) <=> Recorded(s, sp, x, l)
  BY DEF Recorded, InTail, InSubTail
<1>3. ASSUME NEW i \in 1..Len(A), NEW x \in 1..A[i].nOrig, NEW c,
             Saved(s, m, A[i], x, c)
      PROVE  Saved(u, k, A[i], x, c)
  <2>1. InTail(u, A[i], x) <=> InTail(s, A[i], x)
    BY DEF InTail
  <2>2. ~Recorded(s, A[i], x, Len(s.sub)) => Holding(u, k, x) = Holding(s, m, x)
    OBVIOUS
  <2>3. ~Recorded(s, A[i], x, Len(s.sub)) => ~Recorded(u, A[i], x, Len(u.sub))
    BY <1>2
  <2> QED
    BY <1>3, <2>1, <2>2, <2>3 DEF Saved
<1>4. \A i \in 1..Len(A) : \A x \in 1..A[i].nOrig, c \in Content :
         Saved(s, m, A[i], x, c) => Saved(u, k, A[i], x, c)
  BY <1>3
<1>5. u.aSavepoint = A
  OBVIOUS
<1> HIDE DEF A
<1> QED
  BY <1>1, <1>4, <1>5 DEF Carries, A

\* Nothing is lost from the savepoints on the way.
LEMMA SavesCarries ==
    ASSUME NEW s, Sound(s), Tracked(s), NEW m, NEW n \in DOMAIN s.cache,
           NEW u, Saves(s, u, n)
    PROVE  Carries(s, m, u, m)
<1>1. Typed(s) /\ Typed(u) /\ SameFile(s, u) /\ SameOthers(s, u, n)
      /\ u.cache[n].c = s.cache[n].c
  BY DEF Sound, Saves
<1>2. /\ Old(s, u, n) \/ Added(s, u, n) \/ New(s, u, n)
      /\ JournalsGrow(s, u) /\ u.sub = s.sub
  BY <1>1, SavesCases
<1>3. /\ Added(s, u, n) =>
            /\ DOMAIN u.journal = 1..(Len(s.journal) + 1)
            /\ u.journal[Len(s.journal) + 1].pgno = n
            /\ u.journal[Len(s.journal) + 1].c = s.cache[n].c
      /\ ~Added(s, u, n) => u.journal = s.journal
  BY <1>1, SavesCases
<1>4. \A x : Holding(u, m, x) = Holding(s, m, x)
  <2>1. /\ u.memDb = s.memDb /\ DOMAIN u.cache = DOMAIN s.cache
        /\ \A i \in DOMAIN s.cache : u.cache[i].c = s.cache[i].c
    BY <1>1 DEF SameFile, SameOthers
  <2> QED
    BY <2>1, HoldingStays
<1>5. CASE ~Added(s, u, n)
  <2>1. u.aSavepoint = s.aSavepoint /\ u.journal = s.journal
    BY <1>2, <1>3, <1>5 DEF Old, New
  <2> QED
    BY <1>1, <1>2, <1>4, <2>1, CarriesSame
<1>6. CASE Added(s, u, n)
  <2> DEFINE A == s.aSavepoint
             D == u.aSavepoint
             j == Len(s.journal) + 1
  <2>1. Covers(A, D, n) /\ A \in Seq(MarkType)
    BY <1>1, <1>6 DEF Added, Typed
  <2>2. /\ Len(A) \in Nat /\ DOMAIN A = 1..Len(A) /\ Len(D) = Len(A)
        /\ \A i \in 1..Len(A) :
            /\ A[i].iOffset \in Nat /\ A[i].iSubRec \in Nat
            /\ D[i].nOrig = A[i].nOrig /\ D[i].iOffset = A[i].iOffset
            /\ D[i].iSubRec = A[i].iSubRec
    <3>1. Places(A, D, n)
      BY <2>1, CoversFacts
    <3> HIDE DEF A, D
    <3> QED
      BY <3>1 DEF Places
  <2>3. /\ Len(s.journal) \in Nat /\ DOMAIN s.journal = 1..Len(s.journal)
        /\ Len(s.sub) \in Nat /\ DOMAIN s.sub = 1..Len(s.sub)
    BY <1>1, JournalDomains
  <2>4. \A i \in DOMAIN s.sub : s.sub[i].pgno # n
    BY <1>6 DEF Added, Tracked, SubOK
  <2>5. ASSUME NEW i \in DOMAIN u.journal
        PROVE  i = j \/ (i \in DOMAIN s.journal /\ u.journal[i] = s.journal[i])
    <3>1. \A l \in 1..Len(s.journal) : u.journal[l] = s.journal[l]
      BY <1>2 DEF JournalsGrow
    <3>2. i = j \/ i \in 1..Len(s.journal)
      BY <1>3, <1>6, <2>3
    <3> QED
      BY <2>3, <3>1, <3>2
  <2>6. \A i \in DOMAIN s.journal : i \in DOMAIN u.journal /\ u.journal[i] = s.journal[i]
    <3>1. \A i \in 1..Len(s.journal) : u.journal[i] = s.journal[i]
      BY <1>2 DEF JournalsGrow
    <3> QED
      BY <1>3, <1>6, <2>3, <3>1
  <2>7. ASSUME NEW i \in 1..Len(A), NEW x, NEW c, Saved(s, m, A[i], x, c)
        PROVE  Saved(u, m, D[i], x, c)
    <3>1. /\ D[i].iOffset = A[i].iOffset /\ D[i].iSubRec = A[i].iSubRec
          /\ A[i].iOffset \in Nat
      BY <2>2
    <3>2. CASE \E l \in DOMAIN s.journal :
                  l > A[i].iOffset /\ s.journal[l].pgno = x /\ s.journal[l].c = c
      BY <2>6, <3>1, <3>2 DEF Saved
    <3>3. x # n => (InTail(u, D[i], x) => InTail(s, A[i], x))
      BY <1>3, <1>6, <2>5, <3>1 DEF InTail
    <3>4. CASE /\ ~InTail(s, A[i], x)
               /\ \E l \in DOMAIN s.sub :
                     /\ l > A[i].iSubRec /\ s.sub[l].pgno = x /\ s.sub[l].c = c
                     /\ \A k \in DOMAIN s.sub :
                           k > A[i].iSubRec /\ s.sub[k].pgno = x => l <= k
      <4>1. x # n
        BY <2>4, <3>4
      <4> QED
        BY <1>2, <3>1, <3>3, <3>4, <4>1 DEF Saved
    <3>5. CASE ~Recorded(s, A[i], x, Len(s.sub)) /\ Holding(s, m, x) = c
      <4>1. CASE x # n
        <5>1. ~Recorded(u, D[i], x, Len(u.sub))
          BY <1>2, <3>1, <3>3, <3>5, <4>1 DEF Recorded, InSubTail
        <5> QED
          BY <1>4, <3>5, <5>1 DEF Saved
      <4>2. CASE x = n
        <5>1. c = s.cache[n].c
          BY <3>5, <4>2 DEF Holding
        <5>2. A[i].iOffset <= Len(s.journal)
          BY <2>2 DEF Sound, MarksInside
        <5>3. j \in DOMAIN u.journal
          BY <1>3, <1>6, <2>3
        <5>5. j > D[i].iOffset
          BY <2>3, <3>1, <5>2
        <5>4. u.journal[j].pgno = n /\ u.journal[j].c = s.cache[n].c
          BY <1>3, <1>6
        <5> QED
          BY <4>2, <5>1, <5>3, <5>4, <5>5 DEF Saved
      <4> QED
        BY <4>1, <4>2
    <3> QED
      BY <2>7, <3>2, <3>4, <3>5 DEF Saved
  <2>8. Len(D) = Len(A) /\ \A i \in 1..Len(A) : D[i].nOrig = A[i].nOrig
    BY <2>2
  <2>9. Len(A) \in Nat
    BY <2>2
  <2> HIDE DEF A, D
  <2>10. \A i \in 1..Len(A) : \A x \in 1..A[i].nOrig, c \in Content :
            Saved(s, m, A[i], x, c) => Saved(u, m, D[i], x, c)
    BY <2>7
  <2>11. Len(D) <= Len(A) /\ 1..Len(D) = 1..Len(A)
    BY <2>8, <2>9
  <2>12. \A i \in 1..Len(D) : \A x \in 1..A[i].nOrig, c \in Content :
            Saved(s, m, A[i], x, c) => Saved(u, m, D[i], x, c)
    BY <2>10, <2>11
  <2>13. \A i \in 1..Len(D) : D[i].nOrig = A[i].nOrig
    BY <2>8, <2>11
  <2> QED
    BY <2>11, <2>12, <2>13 DEF Carries, A, D
<1> QED
  BY <1>5, <1>6

\* The sub-journal does not concern the store.
LEMMA SubSavesLogged ==
    ASSUME NEW s, NEW m, NEW B, Logged(s, m, B), NEW n, NEW t, SubSaves(s, t, n)
    PROVE  Logged(t, m, B)
<1>1. /\ SameFile(s, t) /\ t.eState = s.eState /\ t.dbSize = s.dbSize
      /\ t.cache = s.cache
      /\ t.journal = s.journal /\ t.journalHdr = s.journalHdr
  BY DEF SubSaves
<1>2. t.dbOrigSize = s.dbOrigSize /\ t.memDb = s.memDb /\ t.dbFileSize = s.dbFileSize
  BY <1>1 DEF SameFile
<1>3. FlagsOK(t) /\ UnsyncedOK(t)
  BY <1>1, <1>2 DEF Logged, FlagsOK, UnsyncedOK, InJournal
<1>4. Base(t, m, B)
  BY <1>1, <1>2 DEF Logged, Base, InJournal
<1>5. ~s.memDb => Unwritten(t, m, B) /\ Coherent(t, m)
  BY <1>1, <1>2 DEF Logged, Unwritten, Coherent
<1> QED
  BY <1>2, <1>3, <1>4, <1>5 DEF Logged

\* From s to t page n is recorded in the sub-journal, for the savepoints that
\* need it, of which f is the first.
SubAdds(s, t, n) ==
    /\ Requiring(s, n) # {}
    /\ t.sub = Append(s.sub, Record(s, n))
    /\ Places(s.aSavepoint, t.aSavepoint, n)
    /\ \E f \in Requiring(s, n) :
          /\ \A i \in Requiring(s, n) : f <= i
          /\ \A i \in 1..Len(s.aSavepoint) :
                t.aSavepoint[i].bTruncateOnRelease
                   => s.aSavepoint[i].bTruncateOnRelease /\ i <= f

\* The sub-journal, one record longer.
LEMMA SubAddsFacts ==
    ASSUME NEW s, Typed(s), NEW n \in DOMAIN s.cache, NEW t, SubSaves(s, t, n)
    PROVE  /\ \/ SubAdds(s, t, n)
              \/ Requiring(s, n) = {} /\ t.sub = s.sub /\ t.aSavepoint = s.aSavepoint
           /\ SubAdds(s, t, n) =>
                 /\ Len(t.sub) = Len(s.sub) + 1
                 /\ DOMAIN t.sub = 1..(Len(s.sub) + 1)
                 /\ \A i \in 1..Len(s.sub) : t.sub[i] = s.sub[i]
                 /\ t.sub[Len(s.sub) + 1].pgno = n
                 /\ t.sub[Len(s.sub) + 1].c = s.cache[n].c
                 /\ Covers(s.aSavepoint, t.aSavepoint, n)
           /\ JournalsGrow(s, t)
<1> DEFINE f(z) == /\ \A i \in Requiring(s, n) : z <= i
                   /\ \A i \in 1..Len(s.aSavepoint) :
                         t.aSavepoint[i].bTruncateOnRelease
                            = (s.aSavepoint[i].bTruncateOnRelease /\ i <= z)
           none == Requiring(s, n) = {} /\ t.sub = s.sub /\ t.aSavepoint = s.aSavepoint
           some == /\ t.sub = Append(s.sub, Record(s, n))
                   /\ Covers(s.aSavepoint, t.aSavepoint, n)
                   /\ \E z \in Requiring(s, n) : f(z)
<1>1. none \/ some
  BY DEF SubSaves
<1>2. /\ Len(s.journal) \in Nat /\ Len(s.sub) \in Nat
      /\ s.sub \in Seq(RecordType) /\ s.aSavepoint \in Seq(MarkType)
  BY JournalDomains DEF Typed
<1>3. Typed(t) /\ t.journal = s.journal
  BY DEF SubSaves
<1>4. Record(s, n) \in RecordType /\ Record(s, n).pgno = n
      /\ Record(s, n).c = s.cache[n].c
  BY RecordTyped
<1>5. t.sub = Append(s.sub, Record(s, n)) =>
         /\ Len(t.sub) = Len(s.sub) + 1
         /\ DOMAIN t.sub = 1..(Len(s.sub) + 1)
         /\ \A i \in 1..Len(s.sub) : t.sub[i] = s.sub[i]
         /\ t.sub[Len(s.sub) + 1] = Record(s, n)
  BY <1>2, <1>4, Appended
<1>6. some => SubAdds(s, t, n)
  <2> HAVE some
  <2>1. PICK z \in Requiring(s, n) : f(z)
    OBVIOUS
  <2>2. Places(s.aSavepoint, t.aSavepoint, n)
    BY <1>2, CoversFacts
  <2> QED
    BY <2>1, <2>2 DEF SubAdds
<1>7. SubAdds(s, t, n) => Covers(s.aSavepoint, t.aSavepoint, n)
  <2>1. SubAdds(s, t, n) => ~none
    BY DEF SubAdds
  <2> QED
    BY <1>1, <2>1
<1>8. SubAdds(s, t, n) => t.sub = Append(s.sub, Record(s, n))
  BY DEF SubAdds
<1>9. JournalsGrow(s, t)
  <2>1. CASE none
    BY <1>2, <1>3, <2>1 DEF JournalsGrow
  <2>2. CASE some
    BY <1>2, <1>3, <1>5, <2>2 DEF JournalsGrow
  <2> QED
    BY <1>1, <2>1, <2>2
<1> QED
  BY <1>1, <1>4, <1>5, <1>6, <1>7, <1>8, <1>9

\* The savepoints that covered page n have it now, and the order survives.
LEMMA SubSavesTracked ==
    ASSUME NEW s, Sound(s), FlagsOK(s), Tracked(s),
           NEW n \in DOMAIN s.cache, s.cache[n].dirty,
           NEW t, SubSaves(s, t, n)
    PROVE  Tracked(t) /\ Protected(t, n)
<1> DEFINE A == s.aSavepoint
           D == t.aSavepoint
           j == Len(s.sub) + 1
<1>1. Typed(s) /\ SameFile(s, t) /\ t.eState = s.eState
      /\ t.cache = s.cache /\ t.journal = s.journal
  BY DEF Sound, SubSaves
<1>2. /\ \/ SubAdds(s, t, n)
         \/ Requiring(s, n) = {} /\ t.sub = s.sub /\ t.aSavepoint = s.aSavepoint
      /\ JournalsGrow(s, t)
  BY <1>1, SubAddsFacts
<1>3. SubAdds(s, t, n) =>
         /\ Len(t.sub) = Len(s.sub) + 1
         /\ DOMAIN t.sub = 1..(Len(s.sub) + 1)
         /\ \A i \in 1..Len(s.sub) : t.sub[i] = s.sub[i]
         /\ t.sub[Len(s.sub) + 1].pgno = n
         /\ Covers(s.aSavepoint, t.aSavepoint, n)
  BY <1>1, SubAddsFacts
<1>4. SubOK(s) /\ MarksOK(s) /\ OrderOK(s) /\ MarksInside(s)
  BY DEF Sound, Tracked
<1>5. CASE Requiring(s, n) = {} /\ t.sub = s.sub /\ t.aSavepoint = s.aSavepoint
  <2>1. SubOK(t)
    BY <1>1, <1>4, <1>5 DEF SubOK, SameFile, InJournal
  <2>2. MarksOK(t) /\ OrderOK(t)
    BY <1>1, <1>4, <1>5 DEF MarksOK, OrderOK, Recorded, InTail, InSubTail
  <2>3. Protected(t, n)
    BY <1>1, <1>5 DEF Protected, Requiring
  <2> QED
    BY <2>1, <2>2, <2>3 DEF Tracked
<1>6. CASE SubAdds(s, t, n)
  <2>1. /\ Len(s.sub) \in Nat /\ DOMAIN s.sub = 1..Len(s.sub)
        /\ n \in 1..MaxPage
    BY <1>1, JournalDomains DEF Typed, IsCache
  <2>2. /\ Len(A) \in Nat /\ DOMAIN A = 1..Len(A) /\ DOMAIN D = 1..Len(A)
        /\ \A i \in 1..Len(A) :
            /\ D[i].nOrig = A[i].nOrig /\ D[i].iOffset = A[i].iOffset
            /\ D[i].iSubRec = A[i].iSubRec
            /\ A[i].iOffset \in Nat /\ A[i].iSubRec \in Nat
            /\ D[i].inSavepoint = IF n <= A[i].nOrig
                                  THEN A[i].inSavepoint \cup {n}
                                  ELSE A[i].inSavepoint
    <3>1. Places(A, D, n)
      BY <1>6 DEF SubAdds
    <3> HIDE DEF A, D
    <3> QED
      BY <3>1 DEF Places
  <2>3. ASSUME NEW i \in DOMAIN t.sub
        PROVE  \/ i \in DOMAIN s.sub /\ t.sub[i] = s.sub[i]
               \/ i = j /\ t.sub[i].pgno = n
    <3>4. i \in 1..j /\ Len(s.sub) \in Nat
      BY <1>3, <1>6, <2>1
    <3>1. i = j \/ i \in 1..Len(s.sub)
      BY <3>4
    <3>2. \A k \in 1..Len(s.sub) : t.sub[k] = s.sub[k]
      BY <1>3, <1>6
    <3>3. t.sub[j].pgno = n
      BY <1>3, <1>6
    <3> QED
      BY <2>1, <3>1, <3>2, <3>3
  <2>4. SubOK(t)
    <3>1. \A i \in DOMAIN t.sub : t.sub[i].pgno = n \/
              (i \in DOMAIN s.sub /\ t.sub[i] = s.sub[i])
      BY <2>3
    <3>2. n <= s.dbOrigSize => n \in InJournal(s)
      BY DEF FlagsOK
    <3>3. t.dbOrigSize = s.dbOrigSize /\ InJournal(t) = InJournal(s)
      BY <1>1 DEF SameFile, InJournal
    <3> QED
      BY <1>1, <1>4, <3>1, <3>2, <3>3 DEF SubOK
  <2>5. ASSUME NEW i \in 1..Len(A)
        PROVE  InSubTail(t, D[i], n, Len(t.sub))
    <3>1. A[i].iSubRec <= Len(s.sub)
      BY <1>4, <2>2 DEF MarksInside
    <3>4. D[i].iSubRec = A[i].iSubRec /\ A[i].iSubRec \in Nat
      BY <2>2
    <3>2. j > D[i].iSubRec
      BY <2>1, <3>1, <3>4
    <3>3. j \in DOMAIN t.sub /\ j <= Len(t.sub) /\ t.sub[j].pgno = n
      BY <1>3, <1>6, <2>1
    <3> QED
      BY <3>2, <3>3 DEF InSubTail
  <2>6. MarksOK(t)
    <3>1. \A i \in 1..Len(A) : Recorded(t, D[i], n, Len(t.sub))
      BY <2>5 DEF Recorded
    <3> QED
      BY <1>2, <1>3, <1>4, <1>6, <3>1, MarksCovered
  <2>7. Protected(t, n)
    BY <1>1, <2>2 DEF Protected
  <2>8. PICK f \in Requiring(s, n) :
           /\ \A i \in Requiring(s, n) : f <= i
           /\ \A i \in 1..Len(A) :
                 D[i].bTruncateOnRelease => A[i].bTruncateOnRelease /\ i <= f
    BY <1>6 DEF SubAdds
  <2>9. ASSUME NEW a \in 1..Len(A), NEW b \in 1..Len(A), a < b,
               D[b].bTruncateOnRelease, n <= A[a].nOrig
        PROVE  Recorded(s, A[a], n, A[b].iSubRec)
    <3>1. A[b].bTruncateOnRelease /\ b <= f /\ f \in Nat
      BY <2>2, <2>8, <2>9 DEF Requiring
    <3>2. a \notin Requiring(s, n)
      BY <2>2, <2>8, <2>9, <3>1
    <3>3. n \in A[a].inSavepoint
      BY <2>2, <2>9, <3>2 DEF Requiring
    <3>4. Recorded(s, A[a], n, Len(s.sub))
      BY <1>4, <2>2, <2>9, <3>3 DEF MarksOK
    <3>5. CASE InTail(s, A[a], n)
      BY <3>5 DEF Recorded
    <3>6. CASE InSubTail(s, A[a], n, Len(s.sub))
      <4>1. PICK k \in DOMAIN s.sub : k > A[a].iSubRec /\ s.sub[k].pgno = n
        BY <3>6 DEF InSubTail
      <4>2. CASE k <= A[b].iSubRec
        BY <4>1, <4>2 DEF Recorded, InSubTail
      <4>3. CASE ~(k <= A[b].iSubRec)
        <5>3. k \in Nat
          BY <2>1
        <5>2. A[b].iSubRec \in Nat /\ k \in Nat
          BY <2>2, <5>3
        <5>1. k > A[b].iSubRec
          BY <4>3, <5>2
        <5> QED
          BY <1>4, <2>2, <2>9, <3>1, <4>1, <5>1 DEF OrderOK
      <4> QED
        BY <4>2, <4>3
    <3> QED
      BY <3>4, <3>5, <3>6 DEF Recorded
  <2>10. OrderOK(t)
    <3> SUFFICES ASSUME NEW a \in DOMAIN D, NEW b \in DOMAIN D, a < b
                 PROVE  /\ D[a].nOrig <= D[b].nOrig
                        /\ D[b].bTruncateOnRelease =>
                              \A k \in DOMAIN t.sub :
                                  k > D[b].iSubRec /\ t.sub[k].pgno <= D[a].nOrig
                                  => Recorded(t, D[a], t.sub[k].pgno, D[b].iSubRec)
      BY DEF OrderOK
    <3>1. a \in 1..Len(A) /\ b \in 1..Len(A) /\ a \in DOMAIN A /\ b \in DOMAIN A
      BY <2>2
    <3>2. /\ A[a].nOrig <= A[b].nOrig
          /\ A[b].bTruncateOnRelease =>
                \A k \in DOMAIN s.sub :
                    k > A[b].iSubRec /\ s.sub[k].pgno <= A[a].nOrig
                    => Recorded(s, A[a], s.sub[k].pgno, A[b].iSubRec)
      BY <1>4, <3>1 DEF OrderOK
    <3>3. /\ D[a].nOrig = A[a].nOrig /\ D[a].iOffset = A[a].iOffset
          /\ D[a].iSubRec = A[a].iSubRec
          /\ D[b].iSubRec = A[b].iSubRec /\ A[b].iSubRec \in Nat
          /\ D[b].nOrig = A[b].nOrig
      BY <2>2, <3>1
    <3>4. D[b].bTruncateOnRelease => A[b].bTruncateOnRelease
      BY <2>8, <3>1
    <3>5. ASSUME D[b].bTruncateOnRelease, NEW k \in DOMAIN t.sub,
                 k > D[b].iSubRec, t.sub[k].pgno <= D[a].nOrig
          PROVE  Recorded(t, D[a], t.sub[k].pgno, D[b].iSubRec)
      <4>1. Recorded(s, A[a], t.sub[k].pgno, A[b].iSubRec)
        <5>1. CASE k = j /\ t.sub[k].pgno = n
          BY <2>9, <3>1, <3>3, <3>5, <5>1
        <5>2. CASE k \in DOMAIN s.sub /\ t.sub[k] = s.sub[k]
          BY <3>2, <3>3, <3>4, <3>5, <5>2
        <5> QED
          BY <2>3, <5>1, <5>2
      <4>2. Recorded(t, D[a], t.sub[k].pgno, A[b].iSubRec)
        BY <1>2, <3>3, <4>1, RecordedStays
      <4> QED
        BY <3>3, <4>2
    <3> QED
      BY <3>2, <3>3, <3>5
  <2> QED
    BY <2>4, <2>6, <2>7, <2>10 DEF Tracked
<1> QED
  BY <1>2, <1>5, <1>6

\* The savepoints keep what they have saved.
LEMMA SubSavesCarries ==
    ASSUME NEW s, Sound(s), NEW m, NEW n \in DOMAIN s.cache,
           NEW t, SubSaves(s, t, n)
    PROVE  Carries(s, m, t, m)
<1>1. Typed(s) /\ SameFile(s, t) /\ t.cache = s.cache /\ t.journal = s.journal
  BY DEF Sound, SubSaves
<1>2. \/ SubAdds(s, t, n)
      \/ Requiring(s, n) = {} /\ t.sub = s.sub /\ t.aSavepoint = s.aSavepoint
  BY <1>1, SubAddsFacts
<1>3. SubAdds(s, t, n) =>
         /\ Len(t.sub) = Len(s.sub) + 1
         /\ DOMAIN t.sub = 1..(Len(s.sub) + 1)
         /\ \A i \in 1..Len(s.sub) : t.sub[i] = s.sub[i]
         /\ t.sub[Len(s.sub) + 1].pgno = n
         /\ t.sub[Len(s.sub) + 1].c = s.cache[n].c
  BY <1>1, SubAddsFacts
<1>4. \A x : Holding(t, m, x) = Holding(s, m, x)
  BY <1>1 DEF Holding, SameFile
<1>5. CASE Requiring(s, n) = {} /\ t.sub = s.sub /\ t.aSavepoint = s.aSavepoint
  BY <1>1, <1>4, <1>5, CarriesSame
<1>6. CASE SubAdds(s, t, n)
  <2> DEFINE A == s.aSavepoint
             D == t.aSavepoint
             j == Len(s.sub) + 1
  <2>1. /\ Len(A) \in Nat /\ DOMAIN A = 1..Len(A) /\ Len(D) = Len(A)
        /\ \A i \in 1..Len(A) :
            /\ A[i].iOffset \in Nat /\ A[i].iSubRec \in Nat
            /\ D[i].nOrig = A[i].nOrig /\ D[i].iOffset = A[i].iOffset
            /\ D[i].iSubRec = A[i].iSubRec
    <3>1. Places(A, D, n)
      BY <1>6 DEF SubAdds
    <3> HIDE DEF A, D
    <3> QED
      BY <3>1 DEF Places
  <2>2. Len(s.sub) \in Nat /\ DOMAIN s.sub = 1..Len(s.sub)
    BY <1>1, JournalDomains
  <2>3. ASSUME NEW i \in DOMAIN t.sub
        PROVE  i = j \/ (i \in DOMAIN s.sub /\ t.sub[i] = s.sub[i])
    <3>1. i = j \/ i \in 1..Len(s.sub)
      BY <1>3, <1>6, <2>2
    <3>2. \A k \in 1..Len(s.sub) : t.sub[k] = s.sub[k]
      BY <1>3, <1>6
    <3> QED
      BY <2>2, <3>1, <3>2
  <2>4. \A i \in DOMAIN s.sub : i \in DOMAIN t.sub /\ t.sub[i] = s.sub[i] /\ i <= j
    BY <1>3, <1>6, <2>2
  <2>5. ASSUME NEW i \in 1..Len(A), NEW x, NEW c, Saved(s, m, A[i], x, c)
        PROVE  Saved(t, m, D[i], x, c)
    <3>1. /\ D[i].iOffset = A[i].iOffset /\ D[i].iSubRec = A[i].iSubRec
          /\ A[i].iSubRec \in Nat
      BY <2>1
    <3>2. InTail(t, D[i], x) <=> InTail(s, A[i], x)
      BY <1>1, <3>1 DEF InTail
    <3>3. CASE \E l \in DOMAIN s.journal :
                  l > A[i].iOffset /\ s.journal[l].pgno = x /\ s.journal[l].c = c
      BY <1>1, <3>1, <3>3 DEF Saved
    <3>4. CASE /\ ~InTail(s, A[i], x)
               /\ \E l \in DOMAIN s.sub :
                     /\ l > A[i].iSubRec /\ s.sub[l].pgno = x /\ s.sub[l].c = c
                     /\ \A k \in DOMAIN s.sub :
                           k > A[i].iSubRec /\ s.sub[k].pgno = x => l <= k
      <4>1. PICK l \in DOMAIN s.sub :
               /\ l > A[i].iSubRec /\ s.sub[l].pgno = x /\ s.sub[l].c = c
               /\ \A k \in DOMAIN s.sub :
                     k > A[i].iSubRec /\ s.sub[k].pgno = x => l <= k
        BY <3>4
      <4>2. /\ l \in DOMAIN t.sub /\ l > D[i].iSubRec
            /\ t.sub[l].pgno = x /\ t.sub[l].c = c
        BY <2>4, <3>1, <4>1
      <4>3. \A k \in DOMAIN t.sub : k > D[i].iSubRec /\ t.sub[k].pgno = x => l <= k
        BY <2>3, <2>4, <3>1, <4>1
      <4> QED
        BY <3>2, <3>4, <4>2, <4>3 DEF Saved
    <3>5. CASE ~Recorded(s, A[i], x, Len(s.sub)) /\ Holding(s, m, x) = c
      <4>1. ~InTail(s, A[i], x)
            /\ ~\E l \in DOMAIN s.sub : l > A[i].iSubRec /\ s.sub[l].pgno = x
        BY <2>2, <3>5 DEF Recorded, InSubTail
      <4>2. CASE x # n
        <5>1. ~Recorded(t, D[i], x, Len(t.sub))
          BY <1>3, <1>6, <2>3, <3>1, <3>2, <4>1, <4>2 DEF Recorded, InSubTail
        <5> QED
          BY <1>4, <3>5, <5>1 DEF Saved
      <4>3. CASE x = n
        <5>1. c = s.cache[n].c
          BY <3>5, <4>3 DEF Holding
        <5>2. A[i].iSubRec <= Len(s.sub)
          BY <2>1 DEF Sound, MarksInside
        <5>3. j \in DOMAIN t.sub /\ t.sub[j].pgno = n /\ t.sub[j].c = c
          BY <1>3, <1>6, <2>2, <5>1
        <5>4. j > D[i].iSubRec
          BY <2>2, <3>1, <5>2
        <5>5. \A k \in DOMAIN t.sub : k > D[i].iSubRec /\ t.sub[k].pgno = x => j <= k
          BY <2>2, <2>3, <3>1, <4>1
        <5> QED
          BY <3>2, <4>1, <4>3, <5>3, <5>4, <5>5 DEF Saved
      <4> QED
        BY <4>2, <4>3
    <3> QED
      BY <2>5, <3>3, <3>4, <3>5 DEF Saved
  <2>8. Len(D) = Len(A) /\ \A i \in 1..Len(A) : D[i].nOrig = A[i].nOrig
    BY <2>1
  <2>9. Len(A) \in Nat
    BY <2>1
  <2> HIDE DEF A, D
  <2>10. \A i \in 1..Len(A) : \A x \in 1..A[i].nOrig, c \in Content :
            Saved(s, m, A[i], x, c) => Saved(t, m, D[i], x, c)
    BY <2>5
  <2>11. Len(D) <= Len(A) /\ 1..Len(D) = 1..Len(A)
    BY <2>8, <2>9
  <2>12. \A i \in 1..Len(D) : \A x \in 1..A[i].nOrig, c \in Content :
            Saved(s, m, A[i], x, c) => Saved(t, m, D[i], x, c)
    BY <2>10, <2>11
  <2>13. \A i \in 1..Len(D) : D[i].nOrig = A[i].nOrig
    BY <2>8, <2>11
  <2> QED
    BY <2>11, <2>12, <2>13 DEF Carries, A, D
<1> QED
  BY <1>2, <1>5, <1>6

-----------------------------------------------------------------------------
(* Making a page writable.                                                 *)

\* What a savepoint of s saves is saved through two steps.
LEMMA CarriesChain ==
    ASSUME NEW s, NEW m, NEW t, NEW k, NEW u, NEW l,
           Len(s.aSavepoint) \in Nat, Len(t.aSavepoint) \in Nat,
           Len(u.aSavepoint) \in Nat,
           Carries(s, m, t, k), Carries(t, k, u, l)
    PROVE  Carries(s, m, u, l)
<1>1. Len(u.aSavepoint) <= Len(s.aSavepoint)
  BY DEF Carries
<1>2. ASSUME NEW i \in 1..Len(u.aSavepoint)
      PROVE  /\ u.aSavepoint[i].nOrig = s.aSavepoint[i].nOrig
             /\ \A n \in 1..s.aSavepoint[i].nOrig, c \in Content :
                   Saved(s, m, s.aSavepoint[i], n, c)
                   => Saved(u, l, u.aSavepoint[i], n, c)
  <2>1. i \in 1..Len(t.aSavepoint) /\ i \in 1..Len(s.aSavepoint)
    BY DEF Carries
  <2>2. /\ t.aSavepoint[i].nOrig = s.aSavepoint[i].nOrig
        /\ \A n \in 1..s.aSavepoint[i].nOrig, c \in Content :
              Saved(s, m, s.aSavepoint[i], n, c)
              => Saved(t, k, t.aSavepoint[i], n, c)
    BY <2>1 DEF Carries
  <2>3. /\ u.aSavepoint[i].nOrig = t.aSavepoint[i].nOrig
        /\ \A n \in 1..t.aSavepoint[i].nOrig, c \in Content :
              Saved(t, k, t.aSavepoint[i], n, c)
              => Saved(u, l, u.aSavepoint[i], n, c)
    BY <2>1 DEF Carries
  <2> QED
    BY <2>2, <2>3
<1> QED
  BY <1>1, <1>2 DEF Carries

\* What the savepoints and the sub-journal hold does not depend on the rest.
LEMMA TrackedSame ==
    ASSUME NEW s, Tracked(s), NEW t,
           t.eState = s.eState, t.dbOrigSize = s.dbOrigSize, t.cache = s.cache,
           t.journal = s.journal, t.sub = s.sub, t.aSavepoint = s.aSavepoint
    PROVE  Tracked(t)
<1>1. SubOK(t)
  BY DEF Tracked, SubOK, InJournal
<1>2. \A sp, n, k : Recorded(t, sp, n, k) <=> Recorded(s, sp, n, k)
  BY DEF Recorded, InTail, InSubTail
<1>3. MarksOK(t)
  BY <1>2 DEF Tracked, MarksOK
<1>4. OrderOK(t)
  BY <1>2 DEF Tracked, OrderOK
<1> QED
  BY <1>1, <1>3, <1>4 DEF Tracked

\* The image grows by one page, which is dirty.
LEMMA GrownLogged ==
    ASSUME NEW s, Sound(s), NEW m, NEW B, Logged(s, m, B),
           NEW n \in DOMAIN s.cache, s.cache[n].dirty, NEW t,
           SameFile(s, t), SameJournals(s, t), t.eState = s.eState,
           t.cache = s.cache,
           t.dbSize = s.dbSize \/ t.dbSize = n, n <= s.dbSize + 1
    PROVE  Logged(t, m, B)
<1>1. /\ t.dbOrigSize = s.dbOrigSize /\ t.memDb = s.memDb
      /\ t.dbFileSize = s.dbFileSize
      /\ t.journal = s.journal /\ t.journalHdr = s.journalHdr
  BY DEF SameFile, SameJournals
<1>2. FlagsOK(t) /\ UnsyncedOK(t)
  BY <1>1 DEF Logged, FlagsOK, UnsyncedOK, InJournal
<1>3. Base(t, m, B)
  BY <1>1 DEF Logged, Base, InJournal
<1>4. ~s.memDb => Unwritten(t, m, B)
  BY <1>1 DEF Logged, Unwritten
<1>5. s.dbSize \in Nat /\ \A i \in DOMAIN s.cache : i \in Nat
  BY DEF Sound, Typed, IsCache
<1>6. ASSUME ~s.memDb PROVE Coherent(t, m)
  <2>1. ASSUME NEW i \in DOMAIN s.cache, ~s.cache[i].dirty, i <= t.dbSize
        PROVE  s.cache[i].c = Read(m, i)
    <3>1. i # n
      BY <2>1
    <3>2. i <= s.dbSize
      BY <2>1, <3>1, <1>5
    <3> QED
      BY <1>6, <2>1, <3>2 DEF Logged, Coherent
  <2> QED
    BY <2>1 DEF Coherent
<1> QED
  BY <1>1, <1>2, <1>3, <1>4, <1>6 DEF Logged

\* Page n may now be changed: every savepoint has what it held.
Prepares(s, m, B, t, n) ==
    /\ Logged(t, m, B) /\ Tracked(t) /\ Protected(t, n)
    /\ Carries(s, m, t, m) /\ Len(t.aSavepoint) = Len(s.aSavepoint)
    /\ t.sub = s.sub \/ t.sub = Append(s.sub, Record(s, n))
    /\ InJournal(s) \subseteq InJournal(t)
    /\ n <= s.dbOrigSize => n \in InJournal(t)

\* Saving a page that is already dirty in the sub-journal prepares its change.
LEMMA SubSavesPrepares ==
    ASSUME NEW s, Sound(s), NEW m, NEW B, Logged(s, m, B), Tracked(s),
           NEW n \in DOMAIN s.cache, s.cache[n].dirty,
           NEW t, SubSaves(s, t, n)
    PROVE  Prepares(s, m, B, t, n)
<1>1. Logged(t, m, B)
  BY SubSavesLogged
<1>2. Tracked(t) /\ Protected(t, n)
  BY SubSavesTracked DEF Logged
<1>3. Carries(s, m, t, m)
  BY SubSavesCarries
<1>4. t.sub = s.sub \/ t.sub = Append(s.sub, Record(s, n))
  BY DEF SubSaves
<1>5. Len(t.aSavepoint) = Len(s.aSavepoint)
  BY DEF SubSaves, Covers
<1>6. InJournal(s) = InJournal(t)
  BY DEF SubSaves, InJournal
<1>7. n <= s.dbOrigSize => n \in InJournal(s)
  BY DEF Logged, FlagsOK
<1> QED
  BY <1>1, <1>2, <1>3, <1>4, <1>5, <1>6, <1>7 DEF Prepares

\* sqlite3PagerWrite: the originals, for the transaction and the savepoints,
\* come before the change.
LEMMA PagerWritePrepares ==
    ASSUME NEW s, Sound(s), NEW m, NEW B, Logged(s, m, B), Tracked(s),
           NEW n \in DOMAIN s.cache, n <= s.dbSize + 1
    PROVE  Prepares(s, m, B, PagerWrite(s, n), n)
<1> DEFINE u == SavedPage(s, n)
           j == SubJournalled(u, n)
           t == [j EXCEPT !.dbSize = Max({j.dbSize, n})]
<1>1. CASE s.cache[n].writeable /\ n <= s.dbSize
  <2>1. PagerWrite(s, n) = SubJournalled(s, n)
    BY <1>1 DEF PagerWrite
  <2>2. SubSaves(s, SubJournalled(s, n), n)
    BY SubJournalledFacts DEF Sound
  <2>3. s.cache[n].dirty
    BY <1>1 DEF Sound, WriteableOK
  <2> QED
    BY <2>1, <2>2, <2>3, SubSavesPrepares
<1>2. CASE ~(s.cache[n].writeable /\ n <= s.dbSize)
  <2>1. PagerWrite(s, n) = t
    BY <1>2 DEF PagerWrite, pager_write, SavedPage
  <2>2. Saves(s, u, n)
    BY SavedFacts DEF Sound
  <2> HIDE DEF u
  <2>3. Sound(u) /\ SameOthers(s, u, n) /\ u.cache[n].dirty /\ u.sub = s.sub
        /\ u.cache[n].c = s.cache[n].c /\ u.dbSize = s.dbSize
        /\ SameFile(s, u)
    BY <2>2, SavesSound
  <2>4. n \in DOMAIN u.cache
    BY <2>3 DEF SameOthers
  <2>5. Logged(u, m, B) /\ Tracked(u) /\ Carries(s, m, u, m)
    BY <2>2, SavesLogged, SavesTracked, SavesCarries
  <2>6. SubSaves(u, j, n)
    BY <2>3, <2>4, SubJournalledFacts DEF Sound
  <2> HIDE DEF j
  <2>7. Prepares(u, m, B, j, n)
    BY <2>3, <2>4, <2>5, <2>6, SubSavesPrepares
  <2>8. /\ Sound(j) /\ SameFile(u, j) /\ j.eState = u.eState
        /\ j.dbSize = u.dbSize /\ j.cache = u.cache
    <3>1. u.eState # PAGER_WRITER_LOCKED
      BY <2>2 DEF Saves
    <3> QED
      BY <2>3, <2>4, <2>6, <3>1, SubSavesSound
  <2>9. /\ Fields \subseteq DOMAIN t
        /\ SameFile(j, t) /\ SameJournals(j, t) /\ t.eState = j.eState
        /\ t.cache = j.cache /\ t.dbSize = Max({j.dbSize, n})
    BY <2>8 DEF Sound, Typed, Fields, SameFile, SameJournals
  <2>10. j.dbSize \in Nat /\ n \in Nat /\ s.dbSize \in Nat
    <3>1. s.dbSize \in Nat /\ n \in Nat
      BY DEF Sound, Typed, IsCache
    <3> QED
      BY <3>1, <2>3, <2>8
  <2>11. t.dbSize = j.dbSize \/ t.dbSize = n
    BY <2>9, <2>10, MaxOfTwo
  <2> HIDE DEF t
  <2>12. j.cache[n].dirty /\ n \in DOMAIN j.cache /\ n <= j.dbSize + 1
    BY <2>3, <2>4, <2>8
  <2>13. Logged(t, m, B)
    BY <2>7, <2>8, <2>9, <2>11, <2>12, GrownLogged DEF Prepares
  <2>14. Tracked(t)
    <3>1. t.dbOrigSize = j.dbOrigSize /\ t.journal = j.journal
          /\ t.sub = j.sub /\ t.aSavepoint = j.aSavepoint
      BY <2>9 DEF SameFile, SameJournals
    <3> QED
      BY <2>7, <2>9, <3>1, TrackedSame DEF Prepares
  <2>15. Protected(t, n)
    BY <2>7, <2>9 DEF Prepares, Protected, SameJournals
  <2>16. Carries(j, m, t, m)
    <3>1. t.journal = j.journal /\ t.sub = j.sub /\ t.aSavepoint = j.aSavepoint
          /\ t.memDb = j.memDb
      BY <2>9 DEF SameFile, SameJournals
    <3>2. \A x : Holding(t, m, x) = Holding(j, m, x)
      BY <3>1, <2>9 DEF Holding
    <3>3. Typed(j)
      BY <2>8 DEF Sound
    <3> QED
      BY <3>1, <3>2, <3>3, CarriesSame
  <2>17. /\ Len(s.aSavepoint) \in Nat /\ Len(u.aSavepoint) = Len(s.aSavepoint)
         /\ Len(j.aSavepoint) = Len(u.aSavepoint)
         /\ Len(t.aSavepoint) = Len(j.aSavepoint)
    <3>1. Len(s.aSavepoint) \in Nat
      BY JournalDomains DEF Sound
    <3>2. Len(u.aSavepoint) = Len(s.aSavepoint)
      BY <2>2 DEF Saves, Covers
    <3> QED
      BY <3>1, <3>2, <2>7, <2>9 DEF Prepares, SameJournals
  <2>18. Carries(s, m, t, m)
    <3>1. Carries(s, m, j, m)
      BY <2>5, <2>7, <2>17, CarriesChain DEF Prepares
    <3> QED
      BY <3>1, <2>16, <2>17, CarriesChain
  <2>19. t.sub = s.sub \/ t.sub = Append(s.sub, Record(s, n))
    <3>1. Record(u, n) = Record(s, n)
      BY <2>3 DEF Record
    <3> QED
      BY <3>1, <2>3, <2>7, <2>9 DEF Prepares, SameJournals
  <2>20. /\ InJournal(s) \subseteq InJournal(t)
         /\ n <= s.dbOrigSize => n \in InJournal(t)
    <3>1. /\ InJournal(s) \subseteq InJournal(u)
          /\ n <= s.dbOrigSize => n \in InJournal(u)
      BY <2>2, SavesCases DEF Sound
    <3>2. InJournal(t) = InJournal(j)
      BY <2>9 DEF InJournal, SameJournals
    <3> QED
      BY <3>1, <3>2, <2>7 DEF Prepares
  <2>21. Prepares(s, m, B, t, n)
    BY <2>13, <2>14, <2>15, <2>17, <2>18, <2>19, <2>20 DEF Prepares
  <2> QED
    BY <2>1, <2>21
<1> QED
  BY <1>1, <1>2
-----------------------------------------------------------------------------
(* Several steps of one transaction.                                       *)

\* Page 1 and its records in the sub-journal have the counter k.
Counts(s, k) ==
    /\ 1 \in DOMAIN s.cache /\ s.cache[1].c.vers.counter = k
    /\ \A i \in DOMAIN s.sub : s.sub[i].pgno = 1 => s.sub[i].c.vers.counter = k

\* t is a later state of the transaction of s, which has the same savepoints
\* and may still be undone, as a whole or to a savepoint.
Follows(s, m, B, t) ==
    /\ Logged(t, m, B) /\ Tracked(t) /\ Carries(s, m, t, m)
    /\ Len(t.aSavepoint) = Len(s.aSavepoint) /\ Len(s.aSavepoint) \in Nat
    /\ InJournal(s) \subseteq InJournal(t) /\ SameFile(s, t)
    /\ s.dbSize <= t.dbSize /\ s.dbSize \in Nat /\ t.dbSize \in Nat
    /\ ~s.memDb => \A k : Counts(s, k) => Counts(t, k)

\* Every size of a typed pager is at most MaxPage, and so is every cached page.
LEMMA Sizes ==
    ASSUME NEW s, Typed(s)
    PROVE  /\ s.dbSize \in Nat /\ s.dbOrigSize \in Nat /\ s.dbFileSize \in Nat
           /\ s.dbSize <= MaxPage /\ s.dbOrigSize <= MaxPage
           /\ s.dbFileSize <= MaxPage /\ MaxPage \in Nat
           /\ \A n \in DOMAIN s.cache : n \in 1..MaxPage /\ n \in Nat
  BY PagerAssumption DEF Typed, IsCache

\* Two changes of a transaction in a row are a change of it.
LEMMA FollowsChain ==
    ASSUME NEW s, NEW m, NEW B, NEW t, NEW u,
           Follows(s, m, B, t), Follows(t, m, B, u)
    PROVE  Follows(s, m, B, u)
<1>1. /\ Len(s.aSavepoint) \in Nat /\ Len(t.aSavepoint) = Len(s.aSavepoint)
      /\ Len(u.aSavepoint) = Len(t.aSavepoint)
      /\ Carries(s, m, t, m) /\ Carries(t, m, u, m)
  BY DEF Follows
<1>2. Carries(s, m, u, m)
  BY <1>1, CarriesChain
<1>3. SameFile(s, u)
  BY DEF Follows, SameFile
<1>4. s.dbSize <= u.dbSize /\ s.dbSize \in Nat /\ u.dbSize \in Nat
  BY DEF Follows
<1>5. InJournal(s) \subseteq InJournal(u)
  BY DEF Follows
<1>6. ~s.memDb => \A k : Counts(s, k) => Counts(u, k)
  BY DEF Follows, SameFile
<1> QED
  BY <1>1, <1>2, <1>3, <1>4, <1>5, <1>6 DEF Follows

\* The image does not become smaller.
LEMMA FollowsGrown ==
    ASSUME NEW s, Sound(s), Grown(s), NEW m, NEW B, NEW t, Typed(t),
           Follows(s, m, B, t)
    PROVE  Grown(t)
<1>1. s.dbOrigSize <= s.dbSize /\ s.dbSize <= t.dbSize
      /\ t.dbOrigSize = s.dbOrigSize
  BY DEF Grown, Follows, SameFile
<1>2. s.dbOrigSize \in Nat /\ s.dbSize \in Nat /\ t.dbSize \in Nat
  BY Sizes DEF Sound
<1>3. ASSUME NEW i \in DOMAIN t.aSavepoint
      PROVE  s.dbOrigSize <= t.aSavepoint[i].nOrig
             /\ t.aSavepoint[i].nOrig <= t.dbSize
  <2>1. i \in 1..Len(t.aSavepoint) /\ i \in DOMAIN s.aSavepoint
    BY JournalDomains DEF Follows, Sound
  <2>2. t.aSavepoint[i].nOrig = s.aSavepoint[i].nOrig
    BY <2>1 DEF Follows, Carries
  <2>3. s.aSavepoint[i].nOrig \in Nat
    BY <2>1, JournalDomains DEF Sound, MarkType
  <2>4. s.dbOrigSize <= s.aSavepoint[i].nOrig /\ s.aSavepoint[i].nOrig <= s.dbSize
    BY <2>1 DEF Grown
  <2> QED
    BY <2>2, <2>3, <2>4, <1>1, <1>2
<1>4. t.dbOrigSize <= t.dbSize
  BY <1>1, <1>2
<1> QED
  BY <1>1, <1>3, <1>4 DEF Grown

\* Page 1 gives the size of the image again: the transaction goes on.
LEMMA FollowsTx ==
    ASSUME NEW s, Sound(s), NEW m, NEW B, Tx(s, m, B), 1 \in DOMAIN s.cache,
           NEW t, Typed(t), MarksBound(t), Follows(s, m, B, t),
           t.cache[1].c.vers.nPage = t.dbSize
    PROVE  Tx(t, m, B)
<1>1. Grown(t) /\ SameFile(s, t)
  BY FollowsGrown DEF Tx, Follows
<1>2. Headed(t, m, B)
  <2>1. ASSUME NEW i \in DOMAIN t.aSavepoint
        PROVE  \E c \in Content : /\ Saved(t, m, t.aSavepoint[i], 1, c)
                                  /\ c.vers.nPage = t.aSavepoint[i].nOrig
    <3>1. i \in 1..Len(t.aSavepoint) /\ i \in DOMAIN s.aSavepoint
      BY JournalDomains DEF Follows, Sound
    <3>2. PICK c \in Content : /\ Saved(s, m, s.aSavepoint[i], 1, c)
                               /\ c.vers.nPage = s.aSavepoint[i].nOrig
      BY <3>1 DEF Tx, Headed
    <3>3. /\ t.aSavepoint[i].nOrig = s.aSavepoint[i].nOrig
          /\ \A n \in 1..s.aSavepoint[i].nOrig :
                Saved(s, m, s.aSavepoint[i], n, c)
                => Saved(t, m, t.aSavepoint[i], n, c)
      BY <3>1 DEF Follows, Carries
    <3>4. 1 \in 1..s.aSavepoint[i].nOrig
      <4>1. s.aSavepoint[i].nOrig \in Nat /\ 1 <= s.aSavepoint[i].nOrig
        BY <3>1 DEF Sound, MarksBound, SavepointType
      <4> QED
        BY <4>1
    <3> QED
      BY <3>2, <3>3, <3>4
  <2>2. s.dbOrigSize > 0 => B[1].vers.nPage = s.dbOrigSize
    BY DEF Tx, Headed
  <2> QED
    BY <1>1, <2>1, <2>2 DEF Headed, SameFile
<1>3. ASSUME ~s.memDb PROVE Counting(t, m, B)
  <2>1. Counting(s, m, B)
    BY <1>3 DEF Tx
  <2>2. Counts(s, B[1].vers.counter)
    BY <2>1 DEF Counting, Counts
  <2>3. Counts(t, B[1].vers.counter) /\ InJournal(s) \subseteq InJournal(t)
    BY <1>3, <2>2 DEF Follows
  <2>4. t.dbFileVers = s.dbFileVers /\ t.dbOrigSize = s.dbOrigSize
    BY <1>1 DEF SameFile
  <2> QED
    BY <2>1, <2>3, <2>4 DEF Counting, Counts
<1>4. Logged(t, m, B) /\ Tracked(t) /\ t.memDb = s.memDb
  BY <1>1 DEF Follows, SameFile
<1> QED
  BY <1>1, <1>2, <1>3, <1>4 DEF Tx

\* Changing nothing is a change of the transaction.
LEMMA FollowsItself ==
    ASSUME NEW s, Sound(s), NEW m, NEW B, Logged(s, m, B), Tracked(s)
    PROVE  Follows(s, m, B, s)
<1>1. Typed(s) /\ s.dbSize \in Nat /\ Len(s.aSavepoint) \in Nat
  BY JournalDomains DEF Sound, Typed
<1>2. Carries(s, m, s, m)
  BY <1>1, CarriesSame
<1> QED
  BY <1>1, <1>2 DEF Follows, SameFile

\* A page is read: what the pager and its savepoints hold stays the same.
LEMMA FetchedFollows ==
    ASSUME NEW s, Sound(s), NEW m, StoreTyped(m), NEW n \in 1..MaxPage,
           1 \in DOMAIN s.cache \/ s.dbSize = 0,
           NEW B, Logged(s, m, B), Tracked(s), Grown(s)
    PROVE  Follows(s, m, B, Fetched(s, m, n))
<1> DEFINE t == Fetched(s, m, n)
<1>1. CASE n \in DOMAIN s.cache
  <2>1. t = s
    BY <1>1 DEF Fetched
  <2> QED
    BY <2>1, FollowsItself
<1>2. CASE n \notin DOMAIN s.cache
  <2>1. Typed(s)
    BY DEF Sound
  <2>2. Fetches(s, m, t, n)
    BY <2>1, FetchedFacts
  <2>3. /\ SameFile(s, t) /\ SameJournals(s, t) /\ t.eState = s.eState
        /\ t.dbSize = s.dbSize /\ DOMAIN t.cache = DOMAIN s.cache \cup {n}
        /\ \A i \in DOMAIN s.cache : t.cache[i] = s.cache[i]
    BY FetchedSound
  <2>4. t.cache[n] = CleanPage(IF ~s.memDb /\ n <= s.dbSize
                               THEN Read(m, n) ELSE Zero)
    BY <1>2, <2>2 DEF Fetches
  <2> HIDE DEF t
  <2>5. /\ ~t.cache[n].dirty /\ ~t.cache[n].needSync
        /\ t.cache[n].c = IF ~s.memDb /\ n <= s.dbSize THEN Read(m, n) ELSE Zero
    BY <2>4 DEF CleanPage
  <2>6. /\ t.journal = s.journal /\ t.journalHdr = s.journalHdr
        /\ t.sub = s.sub /\ t.aSavepoint = s.aSavepoint
        /\ t.memDb = s.memDb /\ t.dbOrigSize = s.dbOrigSize
        /\ t.dbFileSize = s.dbFileSize
    BY <2>3 DEF SameFile, SameJournals
  <2>7. /\ s.dbOrigSize <= s.dbSize /\ s.dbOrigSize \in Nat /\ s.dbSize \in Nat
        /\ n \in Nat
    BY <2>1 DEF Grown, Typed
  <2>8. FlagsOK(t) /\ UnsyncedOK(t)
    <3>1. FlagsOK(s) /\ UnsyncedOK(s)
      BY DEF Logged
    <3>2. FlagsOK(t)
      BY <3>1, <2>3, <2>5, <2>6 DEF FlagsOK, InJournal
    <3>3. UnsyncedOK(t)
      BY <3>1, <2>3, <2>6 DEF UnsyncedOK
    <3> QED
      BY <3>2, <3>3
  <2>9. Base(t, m, B)
    <3>1. Base(s, m, B)
      BY DEF Logged
    <3>2. ASSUME NEW x \in 1..s.dbOrigSize, x \notin InJournal(s)
          PROVE  /\ x \in DOMAIN t.cache => t.cache[x].c = B[x]
                 /\ IF s.memDb THEN x \in DOMAIN t.cache \/ B[x] = Zero
                               ELSE Read(m, x) = B[x]
      <4>1. /\ x \in DOMAIN s.cache => s.cache[x].c = B[x]
            /\ IF s.memDb THEN x \in DOMAIN s.cache \/ B[x] = Zero
                          ELSE Read(m, x) = B[x]
        BY <3>1, <3>2 DEF Base
      <4>2. CASE x = n
        <5>1. n <= s.dbSize
          BY <2>7, <4>2
        <5> QED
          BY <4>1, <4>2, <5>1, <1>2, <2>3, <2>5
      <4>3. CASE x # n
        BY <4>1, <4>3, <2>3
      <4> QED
        BY <4>2, <4>3
    <3>3. InJournal(t) = InJournal(s)
      BY <2>6 DEF InJournal
    <3> QED
      BY <3>1, <3>2, <3>3, <2>6 DEF Base
  <2>10. ~s.memDb => Unwritten(t, m, B) /\ Coherent(t, m)
    BY <2>3, <2>5, <2>6 DEF Logged, Unwritten, Coherent
  <2>11. Logged(t, m, B)
    BY <2>6, <2>8, <2>9, <2>10 DEF Logged
  <2>12. Tracked(t)
    <3>1. SubOK(t)
      BY <2>3, <2>6 DEF Tracked, SubOK, InJournal
    <3>2. \A sp, x, k : Recorded(t, sp, x, k) <=> Recorded(s, sp, x, k)
      BY <2>6 DEF Recorded, InTail, InSubTail
    <3>3. MarksOK(t)
      BY <3>2, <2>6 DEF Tracked, MarksOK
    <3>4. OrderOK(t)
      BY <3>2, <2>6 DEF Tracked, OrderOK
    <3> QED
      BY <3>1, <3>3, <3>4 DEF Tracked
  <2>13. Carries(s, m, t, m)
    <3>1. ASSUME NEW i \in 1..Len(s.aSavepoint),
                 NEW x \in 1..s.aSavepoint[i].nOrig
          PROVE  Holding(t, m, x) = Holding(s, m, x)
      <4>1. CASE x = n
        <5>1. i \in DOMAIN s.aSavepoint /\ s.aSavepoint[i].nOrig \in Nat
          BY <2>1, JournalDomains DEF MarkType
        <5>2. s.aSavepoint[i].nOrig <= s.dbSize
          BY <5>1 DEF Grown
        <5>3. n <= s.dbSize
          BY <4>1, <5>1, <5>2, <2>7
        <5> QED
          BY <4>1, <5>3, <1>2, <2>3, <2>5 DEF Holding
      <4>2. CASE x # n
        BY <4>2, <2>3, <2>6 DEF Holding
      <4> QED
        BY <4>1, <4>2
    <3> QED
      BY <2>1, <2>6, <3>1, CarriesSame
  <2>14. \A k : Counts(s, k) => Counts(t, k)
    BY <2>3, <2>6 DEF Counts
  <2>15. Len(s.aSavepoint) \in Nat /\ InJournal(t) = InJournal(s)
    BY <2>1, <2>6, JournalDomains DEF InJournal
  <2>16. Follows(s, m, B, t)
    BY <2>3, <2>6, <2>7, <2>11, <2>12, <2>13, <2>14, <2>15 DEF Follows
  <2> QED
    BY <2>16 DEF t
<1> QED
  BY <1>1, <1>2

\* pagerWrite() keeps the transaction undoable and leaves the page protected.
LEMMA PagerWriteFollows ==
    ASSUME NEW s, Sound(s), NEW m, NEW B, Logged(s, m, B), Tracked(s),
           NEW n \in DOMAIN s.cache, n <= s.dbSize + 1
    PROVE  /\ Follows(s, m, B, PagerWrite(s, n))
           /\ Protected(PagerWrite(s, n), n)
<1> DEFINE t == PagerWrite(s, n)
<1>1. Prepares(s, m, B, t, n)
  BY PagerWritePrepares
<1>2. Writable(s, t, n)
  BY PagerWriteSound
<1> HIDE DEF t
<1>3. /\ SameFile(s, t) /\ DOMAIN t.cache = DOMAIN s.cache
      /\ \A i \in DOMAIN s.cache : t.cache[i].c = s.cache[i].c
      /\ t.dbSize = IF n > s.dbSize THEN n ELSE s.dbSize
  BY <1>2 DEF Writable
<1>4. s.dbSize \in Nat /\ n \in Nat /\ Len(s.aSavepoint) \in Nat
  BY JournalDomains DEF Sound, Typed, IsCache
<1>5. s.dbSize <= t.dbSize /\ t.dbSize \in Nat
  BY <1>3, <1>4
<1>6. ASSUME NEW k, Counts(s, k) PROVE Counts(t, k)
  <2>1. 1 \in DOMAIN t.cache /\ t.cache[1].c.vers.counter = k
    BY <1>3, <1>6 DEF Counts
  <2>2. CASE t.sub = s.sub
    BY <2>1, <2>2, <1>6 DEF Counts
  <2>3. CASE t.sub = Append(s.sub, Record(s, n))
    <3>1. Record(s, n).pgno = n /\ Record(s, n).c = s.cache[n].c
          /\ Record(s, n) \in RecordType /\ s.sub \in Seq(RecordType)
      BY RecordTyped DEF Sound, Typed
    <3>2. /\ Len(s.sub) \in Nat /\ DOMAIN s.sub = 1..Len(s.sub)
          /\ DOMAIN t.sub = 1..(Len(s.sub) + 1)
          /\ \A i \in 1..Len(s.sub) : t.sub[i] = s.sub[i]
          /\ t.sub[Len(s.sub) + 1] = Record(s, n)
      BY <2>3, <3>1, Appended
    <3>3. ASSUME NEW i \in DOMAIN t.sub, t.sub[i].pgno = 1
          PROVE  t.sub[i].c.vers.counter = k
      <4>1. i \in 1..Len(s.sub) \/ i = Len(s.sub) + 1
        BY <3>2
      <4>2. CASE i \in 1..Len(s.sub)
        BY <3>2, <3>3, <4>2, <1>6 DEF Counts
      <4>3. CASE i = Len(s.sub) + 1
        BY <3>1, <3>2, <3>3, <4>3, <1>6 DEF Counts
      <4> QED
        BY <4>1, <4>2, <4>3
    <3> QED
      BY <2>1, <3>3 DEF Counts
  <2> QED
    BY <1>1, <2>2, <2>3 DEF Prepares
<1>7. Follows(s, m, B, t) /\ Protected(t, n)
  BY <1>1, <1>3, <1>4, <1>5, <1>6 DEF Prepares, Follows
<1> QED
  BY <1>7 DEF t

\* From s to t only the content of page n changes.
OnlyEdited(s, m, B, t, n, c) ==
    /\ Logged(t, m, B) /\ SameFile(s, t)
    /\ t.eState = s.eState /\ t.dbSize = s.dbSize
    /\ t.journal = s.journal /\ t.journalHdr = s.journalHdr
    /\ t.sub = s.sub /\ t.aSavepoint = s.aSavepoint
    /\ DOMAIN t.cache = DOMAIN s.cache /\ InJournal(t) = InJournal(s)
    /\ \A i \in DOMAIN s.cache \ {n} : t.cache[i] = s.cache[i]
    /\ t.cache[n].c = c /\ t.cache[n].dirty = s.cache[n].dirty
    /\ t.cache[n].needSync = s.cache[n].needSync

\* A dirty page changes: its original is in the journal.
LEMMA EditLogged ==
    ASSUME NEW s, Typed(s), NEW m, NEW B, Logged(s, m, B),
           NEW n \in DOMAIN s.cache, s.cache[n].dirty,
           NEW c, NEW t, Edits(s, t, n, c)
    PROVE  OnlyEdited(s, m, B, t, n, c)
<1>1. /\ SameFile(s, t) /\ t.eState = s.eState /\ t.dbSize = s.dbSize
      /\ t.journal = s.journal /\ t.journalHdr = s.journalHdr
      /\ t.sub = s.sub /\ t.aSavepoint = s.aSavepoint
      /\ DOMAIN t.cache = DOMAIN s.cache
      /\ \A i \in DOMAIN s.cache \ {n} : t.cache[i] = s.cache[i]
  BY DEF Edits, SameJournals, SameOthers
<1>3. /\ t.cache[n].c = c /\ t.cache[n].dirty = s.cache[n].dirty
      /\ t.cache[n].needSync = s.cache[n].needSync
  <2>1. s.cache[n] \in PageType
    BY DEF Typed, IsCache
  <2>2. t.cache[n] = [s.cache[n] EXCEPT !.c = c]
    BY DEF Edits
  <2> QED
    BY <2>1, <2>2 DEF PageType
<1>4. /\ t.memDb = s.memDb /\ t.dbOrigSize = s.dbOrigSize
      /\ t.dbFileSize = s.dbFileSize /\ InJournal(t) = InJournal(s)
  BY <1>1 DEF SameFile, InJournal
<1>5. FlagsOK(t)
  BY <1>1, <1>3, <1>4 DEF Logged, FlagsOK
<1>6. UnsyncedOK(t)
  BY <1>1, <1>3 DEF Logged, UnsyncedOK
<1>7. n <= s.dbOrigSize => n \in InJournal(s)
  BY DEF Logged, FlagsOK
<1>8. Base(t, m, B)
  <2>1. ASSUME NEW x \in 1..s.dbOrigSize, x \notin InJournal(s)
        PROVE  x # n
    BY <2>1, <1>7
  <2>2. Base(s, m, B)
    BY DEF Logged
  <2> QED
    BY <2>1, <2>2, <1>1, <1>4 DEF Base
<1>9. ~s.memDb => Unwritten(t, m, B) /\ Coherent(t, m)
  BY <1>1, <1>3, <1>4 DEF Logged, Unwritten, Coherent
<1>10. Logged(t, m, B)
  BY <1>4, <1>5, <1>6, <1>8, <1>9 DEF Logged
<1> QED
  BY <1>1, <1>3, <1>4, <1>10 DEF OnlyEdited

\* A page that every savepoint has recorded changes.
LEMMA EditFollows ==
    ASSUME NEW s, Sound(s), NEW m, NEW B, Logged(s, m, B), Tracked(s),
           NEW n, Protected(s, n), NEW c, NEW t, Edits(s, t, n, c),
           n = 1 /\ ~s.memDb => c.vers.counter = s.cache[1].c.vers.counter
    PROVE  Follows(s, m, B, t) /\ Protected(t, n)
<1>2. n \in DOMAIN s.cache /\ s.cache[n].dirty /\ Typed(s)
  BY DEF Protected, Sound
<1>1. /\ Logged(t, m, B) /\ SameFile(s, t)
      /\ t.eState = s.eState /\ t.dbSize = s.dbSize
      /\ t.journal = s.journal /\ t.journalHdr = s.journalHdr
      /\ t.sub = s.sub /\ t.aSavepoint = s.aSavepoint
      /\ DOMAIN t.cache = DOMAIN s.cache /\ InJournal(t) = InJournal(s)
      /\ \A i \in DOMAIN s.cache \ {n} : t.cache[i] = s.cache[i]
      /\ t.cache[n].c = c /\ t.cache[n].dirty = s.cache[n].dirty
      /\ t.cache[n].needSync = s.cache[n].needSync
  <2>1. OnlyEdited(s, m, B, t, n, c)
    BY <1>2, EditLogged
  <2> QED
    BY <2>1 DEF OnlyEdited
<1>4. t.memDb = s.memDb /\ t.dbOrigSize = s.dbOrigSize
  BY <1>1 DEF SameFile
<1>11. Tracked(t)
  <2>1. SubOK(t)
    BY <1>1, <1>4 DEF Tracked, SubOK
  <2>2. \A sp, x, k : Recorded(t, sp, x, k) <=> Recorded(s, sp, x, k)
    BY <1>1 DEF Recorded, InTail, InSubTail
  <2>3. MarksOK(t)
    BY <2>2, <1>1 DEF Tracked, MarksOK
  <2>4. OrderOK(t)
    BY <2>2, <1>1 DEF Tracked, OrderOK
  <2> QED
    BY <2>1, <2>3, <2>4 DEF Tracked
<1>12. Carries(s, m, t, m)
  <2>1. ASSUME NEW i \in 1..Len(s.aSavepoint),
               NEW x \in 1..s.aSavepoint[i].nOrig,
               ~Recorded(s, s.aSavepoint[i], x, Len(s.sub))
        PROVE  Holding(t, m, x) = Holding(s, m, x)
    <3>1. i \in DOMAIN s.aSavepoint /\ s.aSavepoint[i].nOrig \in Nat
      BY JournalDomains DEF MarkType, Sound
    <3>2. x \notin s.aSavepoint[i].inSavepoint
      BY <2>1, <3>1 DEF Tracked, MarksOK
    <3>3. x # n
      BY <3>1, <3>2 DEF Protected
    <3> QED
      BY <3>3, <1>1, <1>4 DEF Holding
  <2>2. Typed(s)
    BY DEF Sound
  <2> QED
    BY <1>1, <2>1, <2>2, CarriesSame
<1>13. ~s.memDb => \A k : Counts(s, k) => Counts(t, k)
  BY <1>1 DEF Counts
<1>14. Len(s.aSavepoint) \in Nat /\ s.dbSize \in Nat
  BY JournalDomains DEF Sound, Typed
<1>15. Protected(t, n)
  BY <1>1, <1>2 DEF Protected
<1> QED
  BY <1>1, <1>11, <1>12, <1>13, <1>14, <1>15 DEF Follows
-----------------------------------------------------------------------------
(* The calls that change pages.                                            *)

\* A pager that changes pages, and the transaction it does it in.
Going(s, m, B) ==
    /\ Altering(s, m.szMax) \/ Changing(s, m.szMax)
    /\ Logged(s, m, B) /\ Tracked(s) /\ Grown(s)

\* A pager that changes pages in a transaction is going.
LEMMA TxGoing ==
    ASSUME NEW s, NEW m, NEW B, Changing(s, m.szMax), Tx(s, m, B)
    PROVE  Going(s, m, B)
  BY DEF Going, Tx

\* What a going pager has: its parts are sound and it holds page 1.
LEMMA GoingSound ==
    ASSUME NEW s, NEW m, NEW B, Going(s, m, B)
    PROVE  /\ Sound(s) /\ 1 \in DOMAIN s.cache /\ 1 <= s.dbSize
           /\ Typed(s) /\ MarksBound(s)
  BY DEF Going, Altering, Changing, Sound

\* From s to w page n is made writable.
Opens(s, m, B, w, n) ==
    /\ Going(w, m, B) /\ Altering(w, m.szMax)
    /\ Follows(s, m, B, w) /\ Protected(w, n)
    /\ w.dbSize = IF n > s.dbSize THEN n ELSE s.dbSize
    /\ DOMAIN w.cache = DOMAIN s.cache \cup {n}
    /\ \A i \in DOMAIN s.cache : w.cache[i].c = s.cache[i].c

\* getPageNormal() followed by pagerWrite() opens the page for a change.
LEMMA PageGoing ==
    ASSUME NEW s, NEW m, StoreTyped(m), NEW B, Going(s, m, B),
           NEW n \in 1..MaxPage, n <= s.dbSize + 1,
           NEW w, w = WritablePage(s, m, n)
    PROVE  Opens(s, m, B, w, n)
<1> DEFINE f == Fetched(s, m, n)
<1>1. Sound(s) /\ 1 \in DOMAIN s.cache /\ 1 <= s.dbSize
      /\ Logged(s, m, B) /\ Tracked(s) /\ Grown(s)
      /\ (Altering(s, m.szMax) \/ Changing(s, m.szMax))
  BY GoingSound DEF Going
<1>2. Follows(s, m, B, f)
  BY <1>1, FetchedFollows
<1>3. /\ Sound(f) /\ SameFile(s, f) /\ f.dbSize = s.dbSize
      /\ DOMAIN f.cache = DOMAIN s.cache \cup {n}
      /\ \A i \in DOMAIN s.cache : f.cache[i] = s.cache[i]
  BY <1>1, FetchedSound
<1>4. w = PagerWrite(f, n)
  BY DEF WritablePage
<1>5. Altering(w, m.szMax)
  BY <1>1, WritablePageAlters
<1> HIDE DEF f
<1>6. n \in DOMAIN f.cache /\ n <= f.dbSize + 1
  BY <1>3
<1>7. Logged(f, m, B) /\ Tracked(f)
  BY <1>2 DEF Follows
<1>8. Follows(f, m, B, w) /\ Protected(w, n)
  BY <1>3, <1>4, <1>6, <1>7, PagerWriteFollows
<1>9. Follows(s, m, B, w)
  BY <1>2, <1>8, FollowsChain
<1>10. Writable(f, w, n)
  BY <1>3, <1>4, <1>6, PagerWriteSound
<1>11. Grown(w)
  <2>1. Typed(w)
    BY <1>5 DEF Altering, Sound
  <2> QED
    BY <1>1, <1>9, <2>1, FollowsGrown
<1>12. Going(w, m, B)
  BY <1>5, <1>9, <1>11 DEF Going, Follows
<1>13. /\ w.dbSize = IF n > s.dbSize THEN n ELSE s.dbSize
       /\ DOMAIN w.cache = DOMAIN s.cache \cup {n}
       /\ \A i \in DOMAIN s.cache : w.cache[i].c = s.cache[i].c
  BY <1>3, <1>10 DEF Writable
<1> QED
  BY <1>5, <1>8, <1>9, <1>12, <1>13 DEF Opens

Edited(s, n, c) == [s EXCEPT !.cache[n].c = c]

\* The writable page is changed.
LEMMA EditGoing ==
    ASSUME NEW s, NEW m, NEW B, Going(s, m, B), Altering(s, m.szMax),
           NEW n, Protected(s, n), NEW c \in Content,
           n = 1 => c.vers.counter = s.cache[1].c.vers.counter,
           NEW t, t = Edited(s, n, c)
    PROVE  /\ Going(t, m, B) /\ Altering(t, m.szMax)
           /\ Follows(s, m, B, t) /\ Protected(t, n)
           /\ t.dbSize = s.dbSize /\ DOMAIN t.cache = DOMAIN s.cache
           /\ t.cache[n].c = c
           /\ \A i \in DOMAIN s.cache \ {n} : t.cache[i] = s.cache[i]
<1>1. Sound(s) /\ Typed(s) /\ Logged(s, m, B) /\ Tracked(s) /\ Grown(s)
  BY GoingSound DEF Going
<1>2. n \in DOMAIN s.cache
  BY DEF Protected
<1>3. Edits(s, t, n, c)
  BY <1>1, <1>2, EditFacts DEF Edited
<1>4. Altering(t, m.szMax) /\ t.dbSize = s.dbSize
      /\ DOMAIN t.cache = DOMAIN s.cache
  BY <1>2, EditAlters DEF Edited
<1>5. Follows(s, m, B, t) /\ Protected(t, n)
  BY <1>1, <1>3, EditFollows
<1>6. Typed(t)
  BY <1>4 DEF Altering, Sound
<1>7. Grown(t)
  BY <1>1, <1>5, <1>6, FollowsGrown
<1>8. Going(t, m, B)
  BY <1>4, <1>5, <1>7 DEF Going, Follows
<1>9. t.cache[n].c = c
  <2>1. s.cache[n] \in PageType
    BY <1>1, <1>2 DEF Typed, IsCache
  <2>2. t.cache[n] = [s.cache[n] EXCEPT !.c = c]
    BY <1>3 DEF Edits
  <2> QED
    BY <2>1, <2>2 DEF PageType
<1> QED
  BY <1>3, <1>4, <1>5, <1>8, <1>9 DEF Edits, SameOthers

\* sqlite3PagerGet.
LEMMA FetchedTx ==
    ASSUME NEW s, NEW m, StoreTyped(m), NEW B, Changing(s, m.szMax), Tx(s, m, B),
           NEW n \in 1..MaxPage
    PROVE  Tx(Fetched(s, m, n), m, B)
<1> DEFINE t == Fetched(s, m, n)
<1>1. Sound(s) /\ 1 \in DOMAIN s.cache
  BY DEF Changing
<1>2. Follows(s, m, B, t)
  BY <1>1, FetchedFollows DEF Tx
<1>3. /\ Sound(t) /\ t.dbSize = s.dbSize
      /\ \A i \in DOMAIN s.cache : t.cache[i] = s.cache[i]
  BY <1>1, FetchedSound
<1> HIDE DEF t
<1>4. t.cache[1].c.vers.nPage = t.dbSize
  BY <1>1, <1>3 DEF Tx, Headed
<1>5. Typed(t) /\ MarksBound(t)
  BY <1>3 DEF Sound
<1>6. Tx(t, m, B)
  BY <1>1, <1>2, <1>4, <1>5, FollowsTx
<1> QED
  BY <1>6 DEF t

\* The b-tree changes page n.
LEMMA WrittenTx ==
    ASSUME NEW s, NEW m, StoreTyped(m), NEW B, Changing(s, m.szMax), Tx(s, m, B),
           NEW n \in 1..MaxPage, n <= s.dbSize,
           NEW w, w = WritablePage(s, m, n),
           NEW c \in Content, c.vers = w.cache[n].c.vers,
           NEW t, t = Edited(w, n, c)
    PROVE  Tx(t, m, B) /\ Altering(t, m.szMax) /\ Continues(s, m, t, m)
<1>1. Going(s, m, B) /\ Sound(s) /\ 1 \in DOMAIN s.cache
  BY TxGoing, GoingSound
<1>2. n <= s.dbSize + 1 /\ ~(n > s.dbSize)
  BY <1>1, Sizes DEF Sound
<1>3. /\ Going(w, m, B) /\ Altering(w, m.szMax) /\ Follows(s, m, B, w)
      /\ Protected(w, n) /\ w.dbSize = s.dbSize
      /\ DOMAIN w.cache = DOMAIN s.cache \cup {n}
      /\ \A i \in DOMAIN s.cache : w.cache[i].c = s.cache[i].c
  <2>1. Opens(s, m, B, w, n)
    BY <1>1, <1>2, PageGoing
  <2> QED
    BY <1>2, <2>1 DEF Opens
<1>7. n = 1 => c.vers.counter = w.cache[1].c.vers.counter
  OBVIOUS
<1>8. /\ Going(t, m, B) /\ Altering(t, m.szMax) /\ Follows(w, m, B, t)
      /\ t.dbSize = w.dbSize /\ t.cache[n].c = c
      /\ \A i \in DOMAIN w.cache \ {n} : t.cache[i] = w.cache[i]
  BY <1>3, <1>7, EditGoing
<1>9. Follows(s, m, B, t)
  BY <1>3, <1>8, FollowsChain
<1>10. t.cache[1].c.vers = s.cache[1].c.vers
  BY <1>1, <1>3, <1>8
<1>11. t.cache[1].c.vers.nPage = t.dbSize
  BY <1>3, <1>8, <1>10 DEF Tx, Headed
<1>12. Typed(t) /\ MarksBound(t)
  BY <1>8, GoingSound
<1>13. Continues(s, m, t, m)
  BY <1>9 DEF Follows, Continues
<1> QED
  BY <1>1, <1>8, <1>9, <1>11, <1>12, <1>13, FollowsTx

\* allocateBtreePage.
LEMMA AllocatedTx ==
    ASSUME NEW s, NEW m, StoreTyped(m), NEW B, Changing(s, m.szMax), Tx(s, m, B),
           NEW n, n = s.dbSize + 1, n <= MaxPage,
           NEW one, one = WritablePage(s, m, 1),
           NEW b \in Content, b.vers.nPage = n,
           b.vers.counter = one.cache[1].c.vers.counter,
           NEW counted, counted = Edited(one, 1, b),
           NEW w, w = WritablePage(counted, m, n),
           NEW c \in Content,
           NEW t, t = Edited(w, n, c)
    PROVE  Tx(t, m, B) /\ Altering(t, m.szMax) /\ Continues(s, m, t, m)
<1>1. Going(s, m, B) /\ Sound(s) /\ 1 \in DOMAIN s.cache /\ 1 <= s.dbSize
  BY TxGoing, GoingSound
<1>2. n \in 1..MaxPage /\ n # 1 /\ 1 \in 1..MaxPage /\ ~(1 > s.dbSize)
      /\ 1 <= s.dbSize + 1 /\ s.dbSize \in Nat
  BY <1>1, Sizes DEF Sound
<1>3. /\ Going(one, m, B) /\ Altering(one, m.szMax) /\ Follows(s, m, B, one)
      /\ Protected(one, 1) /\ one.dbSize = s.dbSize
      /\ DOMAIN one.cache = DOMAIN s.cache \cup {1}
  <2>1. Opens(s, m, B, one, 1)
    BY <1>1, <1>2, PageGoing
  <2> QED
    BY <1>2, <2>1 DEF Opens
<1>7. /\ Going(counted, m, B) /\ Follows(one, m, B, counted)
      /\ counted.dbSize = one.dbSize /\ counted.cache[1].c = b
      /\ DOMAIN counted.cache = DOMAIN one.cache
  BY <1>3, EditGoing
<1>8. n <= counted.dbSize + 1 /\ n > counted.dbSize
  BY <1>2, <1>3, <1>7
<1>9. /\ Going(w, m, B) /\ Altering(w, m.szMax) /\ Follows(counted, m, B, w)
      /\ Protected(w, n) /\ w.dbSize = n
      /\ DOMAIN w.cache = DOMAIN counted.cache \cup {n}
      /\ \A i \in DOMAIN counted.cache : w.cache[i].c = counted.cache[i].c
  <2>1. Opens(counted, m, B, w, n)
    BY <1>2, <1>7, <1>8, PageGoing
  <2> QED
    BY <1>8, <2>1 DEF Opens
<1>13. /\ Going(t, m, B) /\ Altering(t, m.szMax) /\ Follows(w, m, B, t)
       /\ t.dbSize = w.dbSize
       /\ \A i \in DOMAIN w.cache \ {n} : t.cache[i] = w.cache[i]
  BY <1>2, <1>9, EditGoing
<1>14. Follows(s, m, B, t)
  BY <1>3, <1>7, <1>9, <1>13, FollowsChain
<1>15. t.cache[1].c.vers.nPage = t.dbSize
  BY <1>1, <1>2, <1>3, <1>7, <1>9, <1>13
<1>16. Typed(t) /\ MarksBound(t)
  BY <1>13, GoingSound
<1>17. Continues(s, m, t, m)
  BY <1>14 DEF Follows, Continues
<1> QED
  BY <1>1, <1>13, <1>14, <1>15, <1>16, <1>17, FollowsTx
-----------------------------------------------------------------------------
(* The first page of a new database, and page 1 in a commit.               *)

\* The journal and the cache stay; the image may become smaller.
LEMMA LoggedSame ==
    ASSUME NEW s, Typed(s), NEW m, NEW B, Logged(s, m, B), NEW t,
           t.eState = s.eState, t.memDb = s.memDb, t.cache = s.cache,
           t.journal = s.journal, t.journalHdr = s.journalHdr,
           t.dbOrigSize = s.dbOrigSize, t.dbFileSize = s.dbFileSize,
           t.dbSize \in Nat, t.dbSize <= s.dbSize
    PROVE  Logged(t, m, B)
<1>1. FlagsOK(t) /\ UnsyncedOK(t)
  BY DEF Logged, FlagsOK, UnsyncedOK, InJournal
<1>2. Base(t, m, B)
  BY DEF Logged, Base, InJournal
<1>3. ASSUME ~s.memDb PROVE Unwritten(t, m, B) /\ Coherent(t, m)
  <2>1. Unwritten(t, m, B)
    BY <1>3 DEF Logged, Unwritten
  <2>2. ASSUME NEW n \in DOMAIN s.cache, n <= t.dbSize PROVE n <= s.dbSize
    BY <2>2, Sizes
  <2> QED
    BY <1>3, <2>1, <2>2 DEF Logged, Coherent
<1> QED
  BY <1>1, <1>2, <1>3 DEF Logged

\* newDatabase.
LEMMA NewDatabaseFollows ==
    ASSUME NEW s, Sound(s), NEW m, StoreTyped(m), NEW B,
           Logged(s, m, B), Tracked(s), Grown(s),
           s.dbSize = 0, s.aSavepoint = <<>>,
           1 \in DOMAIN s.cache /\ ~s.memDb => s.cache[1].c.vers.counter = 0
    PROVE  /\ Follows(s, m, B, NewDatabase(s, m))
           /\ NewDatabase(s, m).cache[1].c.vers = [counter |-> 0, nPage |-> 1]
<1> DEFINE f == Fetched(s, m, 1)
           w == PagerWrite(f, 1)
           c == [val |-> 0, vers |-> [counter |-> 0, nPage |-> 1]]
           t == [w EXCEPT !.cache[1].c = c]
<1>1. NewDatabase(s, m) = t
  BY DEF NewDatabase
<1>2. 1 \in 1..MaxPage /\ Typed(s)
  BY PagerAssumption DEF Sound
<1>3. Follows(s, m, B, f)
  BY <1>2, FetchedFollows
<1>4. /\ Sound(f) /\ SameFile(s, f) /\ f.dbSize = s.dbSize
      /\ DOMAIN f.cache = DOMAIN s.cache \cup {1}
      /\ \A i \in DOMAIN s.cache : f.cache[i] = s.cache[i]
  BY <1>2, FetchedSound
<1>5. 1 \notin DOMAIN s.cache => f.cache[1].c = Zero
  <2>1. Fetches(s, m, f, 1)
    BY <1>2, FetchedFacts
  <2>2. 1 \notin DOMAIN s.cache => f.cache[1] = CleanPage(Zero)
    BY <2>1 DEF Fetches
  <2> QED
    BY <2>2 DEF CleanPage
<1> HIDE DEF f
<1>6. ~s.memDb => f.cache[1].c.vers.counter = 0
  BY <1>4, <1>5 DEF Zero
<1>7. 1 \in DOMAIN f.cache /\ 1 <= f.dbSize + 1 /\ Logged(f, m, B) /\ Tracked(f)
  BY <1>3, <1>4 DEF Follows
<1>8. Follows(f, m, B, w) /\ Protected(w, 1)
  BY <1>4, <1>7, PagerWriteFollows
<1>9. Writable(f, w, 1)
  BY <1>4, <1>7, PagerWriteSound
<1> HIDE DEF w
<1>10. Sound(w) /\ w.memDb = s.memDb /\ w.cache[1].c = f.cache[1].c
       /\ 1 \in DOMAIN w.cache /\ Typed(w)
  BY <1>4, <1>7, <1>9 DEF Writable, SameFile, Sound
<1>11. c.vers.counter = 0 /\ c.vers = [counter |-> 0, nPage |-> 1]
  OBVIOUS
<1> HIDE DEF c
<1>12. Edits(w, t, 1, c)
  BY <1>10, EditFacts
<1> HIDE DEF t
<1>13. ~w.memDb => c.vers.counter = w.cache[1].c.vers.counter
  BY <1>6, <1>10, <1>11
<1>14. Logged(w, m, B) /\ Tracked(w)
  BY <1>8 DEF Follows
<1>15. Follows(w, m, B, t)
  BY <1>8, <1>10, <1>12, <1>13, <1>14, EditFollows
<1>16. OnlyEdited(w, m, B, t, 1, c)
  <2>1. w.cache[1].dirty
    BY <1>8 DEF Protected
  <2> QED
    BY <2>1, <1>10, <1>12, <1>14, EditLogged
<1>17. t.cache[1].c = c
  BY <1>16 DEF OnlyEdited
<1>18. Follows(s, m, B, t)
  BY <1>3, <1>8, <1>15, FollowsChain
<1> QED
  BY <1>1, <1>11, <1>17, <1>18

\* A transaction that may go into its commit.
Committable(s, m, B) ==
    /\ Sound(s) /\ s.eState # PAGER_WRITER_LOCKED
    /\ 1 \in DOMAIN s.cache /\ 1 <= s.dbSize
    /\ Logged(s, m, B) /\ Tracked(s)
    /\ s.cache[1].c.vers.nPage = s.dbSize
    /\ s.dbOrigSize > 0 => B[1].vers.nPage = s.dbOrigSize
    /\ ~s.memDb =>
          /\ s.dbOrigSize <= m.szMax /\ s.dbFileSize <= m.szMax
          /\ \/ s.dbFileVers.counter = B[1].vers.counter
             \/ s.dbOrigSize = 0 /\ s.dbFileVers.nPage > m.szMax

\* A transaction that has begun to write may go into its commit.
LEMMA TxCommittable ==
    ASSUME NEW s, NEW m, NEW B, Changing(s, m.szMax), Tx(s, m, B),
           s.eState # PAGER_WRITER_LOCKED
    PROVE  Committable(s, m, B)
  BY DEF Changing, Tx, Committable, Headed, Counting

\* autoVacuumCommit.
LEMMA VacuumedCommittable ==
    ASSUME NEW s, NEW m, StoreTyped(m), NEW B, Changing(s, m.szMax), Tx(s, m, B),
           s.eState # PAGER_WRITER_LOCKED,
           NEW size \in 1..MaxPage, size <= s.dbSize
    PROVE  Committable(Vacuumed(s, m, size), m, B)
<1> DEFINE w == WritablePage(s, m, 1)
           c == [w.cache[1].c EXCEPT !.vers.nPage = size]
           e == Edited(w, 1, c)
           t == [e EXCEPT !.dbSize = size]
<1>1. CASE size = s.dbSize
  BY <1>1, TxCommittable DEF Vacuumed
<1>2. CASE size # s.dbSize
  <2>1. Vacuumed(s, m, size) = t
    BY <1>2 DEF Vacuumed, WritablePage, Edited
  <2>2. Going(s, m, B) /\ Sound(s) /\ 1 \in DOMAIN s.cache /\ 1 <= s.dbSize
    BY TxGoing, GoingSound
  <2> DEFINE q == Vacuumed(s, m, size)
  <2>21. /\ Sound(q) /\ SameFile(s, q) /\ 1 \in DOMAIN q.cache
         /\ q.dbSize = size /\ q.eState = s.eState
    BY <2>2, VacuumedSound
  <2> HIDE DEF q
  <2>22. q = t
    BY <2>1 DEF q
  <2>4. 1 \in 1..MaxPage /\ 1 <= s.dbSize + 1 /\ ~(1 > s.dbSize)
    BY <2>2, Sizes, PagerAssumption DEF Sound
  <2>5. Opens(s, m, B, w, 1)
    BY <2>2, <2>4, PageGoing
  <2> HIDE DEF w
  <2>6. /\ Going(w, m, B) /\ Altering(w, m.szMax) /\ Protected(w, 1)
        /\ w.dbSize = s.dbSize /\ 1 \in DOMAIN w.cache
    BY <2>4, <2>5 DEF Opens
  <2>7. w.cache[1].c \in Content
    BY <2>6 DEF Altering, Sound, Typed, IsCache, PageType
  <2>8. c \in Content /\ c.vers.counter = w.cache[1].c.vers.counter
        /\ c.vers.nPage = size
    BY <2>7 DEF Content, VersType
  <2> HIDE DEF c
  <2>9. /\ Going(e, m, B) /\ e.dbSize = w.dbSize /\ e.cache[1].c = c
    BY <2>6, <2>8, EditGoing
  <2> HIDE DEF e
  <2>10. Typed(e) /\ Logged(e, m, B) /\ Tracked(e)
    BY <2>9, GoingSound DEF Going
  <2>11. /\ t.cache = e.cache /\ t.journal = e.journal /\ t.sub = e.sub
         /\ t.aSavepoint = e.aSavepoint /\ t.journalHdr = e.journalHdr
         /\ t.memDb = e.memDb /\ t.dbOrigSize = e.dbOrigSize
         /\ t.dbFileSize = e.dbFileSize /\ t.eState = e.eState
    BY <2>10 DEF Typed, Fields
  <2> HIDE DEF t
  <2>3. /\ Sound(t) /\ SameFile(s, t) /\ 1 \in DOMAIN t.cache
        /\ t.dbSize = size /\ t.eState = s.eState
    BY <2>21, <2>22
  <2>12. Tracked(t)
    BY <2>10, <2>11, TrackedSame
  <2>13. t.dbSize \in Nat /\ t.dbSize <= e.dbSize
    BY <2>3, <2>6, <2>9
  <2>14. Logged(t, m, B)
    BY <2>10, <2>11, <2>13, LoggedSame
  <2>15. t.cache[1].c.vers.nPage = t.dbSize
    BY <2>3, <2>8, <2>9, <2>11
  <2>16. s.dbOrigSize > 0 => B[1].vers.nPage = s.dbOrigSize
    BY DEF Tx, Headed
  <2>17. /\ t.memDb = s.memDb /\ t.dbOrigSize = s.dbOrigSize
         /\ t.dbFileSize = s.dbFileSize /\ t.dbFileVers = s.dbFileVers
    BY <2>3 DEF SameFile
  <2>18. ~s.memDb => /\ s.dbOrigSize <= m.szMax /\ s.dbFileSize <= m.szMax
                     /\ \/ s.dbFileVers.counter = B[1].vers.counter
                        \/ s.dbOrigSize = 0 /\ s.dbFileVers.nPage > m.szMax
    BY DEF Changing, Tx, Counting
  <2>19. 1 <= t.dbSize
    BY <2>3
  <2>20. Committable(t, m, B)
    BY <2>3, <2>12, <2>14, <2>15, <2>16, <2>17, <2>18, <2>19 DEF Committable
  <2> QED
    BY <2>1, <2>20
<1> QED
  BY <1>1, <1>2

\* pager_incr_changecounter: the version of page 1 is the next one.
Increased(s, m, B, t) ==
    /\ Committing(t) /\ Logged(t, m, B) /\ t.eState = s.eState
    /\ t.dbSize = s.dbSize /\ t.dbOrigSize = s.dbOrigSize
    /\ t.dbFileSize = s.dbFileSize /\ t.dbFileVers = s.dbFileVers
    /\ t.hasHeldSharedLock = s.hasHeldSharedLock
    /\ t.cache[1].c.vers.nPage = s.dbSize
    /\ t.cache[1].c.vers.counter = s.dbFileVers.counter + 1
    /\ s.dbOrigSize > 0 => 1 \in InJournal(t)

\* pager_incr_changecounter() gives page 1 a new counter and its size.
LEMMA CountedIncreased ==
    ASSUME NEW s, NEW m, StoreTyped(m), NEW B, Committable(s, m, B), ~s.memDb
    PROVE  Increased(s, m, B, Counted(s, m))
<1> DEFINE w == PagerWrite(s, 1)
           c == [w.cache[1].c EXCEPT !.vers.counter = w.dbFileVers.counter + 1]
           e == [w EXCEPT !.cache[1].c = c]
           t == [e EXCEPT !.changeCountDone = TRUE]
<1>1. /\ Sound(s) /\ s.eState # PAGER_WRITER_LOCKED /\ 1 \in DOMAIN s.cache
      /\ 1 <= s.dbSize /\ ~s.changeCountDone /\ Logged(s, m, B) /\ Tracked(s)
      /\ Typed(s) /\ s.dbSize \in Nat
  BY Sizes DEF Committable, Sound
<1>2. Counted(s, m) = t
  BY <1>1 DEF Counted, ChangeCounter, Fetched
<1> DEFINE q == Counted(s, m)
<1>21. /\ Committing(q) /\ q.eState = s.eState /\ q.dbSize = s.dbSize
       /\ q.dbOrigSize = s.dbOrigSize /\ q.dbFileSize = s.dbFileSize
  BY <1>1, CountedFacts
<1> HIDE DEF q
<1>22. q = t
  BY <1>2 DEF q
<1>4. 1 <= s.dbSize + 1
  BY <1>1
<1>5. Prepares(s, m, B, w, 1)
  BY <1>1, <1>4, PagerWritePrepares
<1>6. Writable(s, w, 1)
  BY <1>1, PagerWriteSound
<1> HIDE DEF w
<1>7. /\ Sound(w) /\ Typed(w) /\ SameFile(s, w) /\ 1 \in DOMAIN w.cache
      /\ w.cache[1].dirty /\ w.cache[1].c = s.cache[1].c
      /\ Logged(w, m, B)
      /\ 1 <= s.dbOrigSize => 1 \in InJournal(w)
  BY <1>1, <1>5, <1>6 DEF Writable, Prepares, Sound
<1>8. w.cache[1].c \in Content
  BY <1>7 DEF Typed, IsCache, PageType
<1>9. c.vers.counter = w.dbFileVers.counter + 1
      /\ c.vers.nPage = w.cache[1].c.vers.nPage
  BY <1>8 DEF Content, VersType
<1> HIDE DEF c
<1>10. Edits(w, e, 1, c)
  BY <1>7, EditFacts
<1> HIDE DEF e
<1>11. OnlyEdited(w, m, B, e, 1, c)
  BY <1>7, <1>10, EditLogged
<1>12. /\ Logged(e, m, B) /\ SameFile(w, e) /\ e.cache[1].c = c
       /\ InJournal(e) = InJournal(w) /\ Fields \subseteq DOMAIN e
  BY <1>10, <1>11 DEF OnlyEdited, Edits
<1>13. /\ t.cache = e.cache /\ t.journal = e.journal
       /\ t.journalHdr = e.journalHdr /\ t.memDb = e.memDb
       /\ t.dbOrigSize = e.dbOrigSize /\ t.dbFileSize = e.dbFileSize
       /\ t.eState = e.eState /\ t.dbSize = e.dbSize
       /\ t.dbFileVers = e.dbFileVers
       /\ t.hasHeldSharedLock = e.hasHeldSharedLock
  BY <1>12 DEF Fields
<1> HIDE DEF t
<1>3. /\ Committing(t) /\ t.eState = s.eState /\ t.dbSize = s.dbSize
      /\ t.dbOrigSize = s.dbOrigSize /\ t.dbFileSize = s.dbFileSize
  BY <1>21, <1>22
<1>14. FlagsOK(t) /\ UnsyncedOK(t)
  BY <1>12, <1>13 DEF Logged, FlagsOK, UnsyncedOK, InJournal
<1>15. Base(t, m, B)
  BY <1>12, <1>13 DEF Logged, Base, InJournal
<1>16. ~e.memDb => Unwritten(t, m, B) /\ Coherent(t, m)
  BY <1>12, <1>13 DEF Logged, Unwritten, Coherent
<1>17. Logged(t, m, B)
  BY <1>12, <1>13, <1>14, <1>15, <1>16 DEF Logged
<1>18. t.dbFileVers = s.dbFileVers /\ w.dbFileVers = s.dbFileVers
       /\ t.hasHeldSharedLock = s.hasHeldSharedLock
  BY <1>7, <1>12, <1>13 DEF SameFile
<1>19. t.cache[1].c.vers.nPage = s.dbSize
       /\ t.cache[1].c.vers.counter = s.dbFileVers.counter + 1
  BY <1>7, <1>9, <1>12, <1>13, <1>18 DEF Committable
<1>20. s.dbOrigSize > 0 => 1 \in InJournal(t)
  <2>1. InJournal(t) = InJournal(w)
    BY <1>12, <1>13 DEF InJournal
  <2>2. s.dbOrigSize \in Nat
    BY <1>1, Sizes
  <2>3. s.dbOrigSize > 0 => 1 <= s.dbOrigSize
    BY <2>2
  <2> QED
    BY <2>1, <2>3, <1>7
<1> QED
  BY <1>2, <1>3, <1>17, <1>18, <1>19, <1>20 DEF Increased
-----------------------------------------------------------------------------
(* Writing to the store.                                                   *)

\* What a reader finds after a set of pages was written to the store.
LEMMA ReadWritten ==
    ASSUME NEW m, StoreTyped(m), NEW W \in SUBSET (1..MaxPage), NEW content,
           \A n \in W : content[n] \in Content
    PROVE  /\ \A n \in 1..MaxPage : Read(Written(m, W, content), n)
                 = IF n \in W THEN content[n] ELSE Read(m, n)
           /\ Len(Written(m, W, content).pages) = Max(W \cup {Len(m.pages)})
           /\ SameLimit(m, Written(m, W, content))
<1> DEFINE k == Written(m, W, content)
           top == Max(W \cup {Len(m.pages)})
<1>a. SameLimit(m, k)
  BY WrittenFacts
<1>b. Len(k.pages) = top
  BY WrittenFacts
<1>c. \A n \in 1..Len(k.pages) :
         k.pages[n] = IF n \in W THEN content[n] ELSE Read(m, n)
  <2>1. k.pages = [n \in 1..top |-> IF n \in W THEN content[n] ELSE Read(m, n)]
    BY WrittenPages DEF StoreTyped
  <2> QED
    BY <1>b, <2>1
<1>1. /\ SameLimit(m, k) /\ Len(k.pages) = top
      /\ \A n \in 1..Len(k.pages) :
            k.pages[n] = IF n \in W THEN content[n] ELSE Read(m, n)
  BY <1>a, <1>b, <1>c
<1>2. Len(m.pages) \in 0..MaxPage /\ DOMAIN m.pages = 1..Len(m.pages)
  BY PagerAssumption DEF StoreTyped
<1>3. /\ top \in 0..MaxPage /\ top >= Len(m.pages) /\ \A n \in W : n <= top
  BY <1>2, MaxWith
<1>4. DOMAIN k.pages = 1..Len(k.pages)
  BY <1>1 DEF SameLimit, StoreTyped
<1> HIDE DEF k, top
<1>5. ASSUME NEW n \in 1..MaxPage
      PROVE  Read(k, n) = IF n \in W THEN content[n] ELSE Read(m, n)
  <2>1. CASE n <= top
    <3>1. n \in 1..Len(k.pages)
      BY <1>1, <1>3, <2>1
    <3> QED
      BY <3>1, <1>1, <1>4 DEF Read
  <2>2. CASE ~(n <= top)
    <3>1. n \notin W /\ n \notin DOMAIN m.pages /\ n \notin DOMAIN k.pages
      BY <1>1, <1>2, <1>3, <1>4, <2>2
    <3> QED
      BY <3>1 DEF Read
  <2> QED
    BY <2>1, <2>2
<1> QED
  BY <1>1, <1>5 DEF k, top

\* What a reader finds after the store was cut or extended to a size.
LEMMA ReadResized ==
    ASSUME NEW m, StoreTyped(m), NEW size \in 0..MaxPage
    PROVE  /\ \A n \in 1..MaxPage : Read(Resized(m, size), n)
                 = IF n <= size THEN Read(m, n) ELSE Zero
           /\ Len(Resized(m, size).pages) = size
           /\ SameLimit(m, Resized(m, size))
<1> DEFINE k == Resized(m, size)
<1>1. /\ SameLimit(m, k) /\ Len(k.pages) = size
      /\ \A i \in 1..size : k.pages[i] = Read(m, i)
  BY ResizedFacts
<1>2. DOMAIN k.pages = 1..size
  BY <1>1 DEF SameLimit, StoreTyped
<1> HIDE DEF k
<1>3. \A n \in 1..MaxPage : Read(k, n) = IF n <= size THEN Read(m, n) ELSE Zero
  BY <1>1, <1>2 DEF Read
<1> QED
  BY <1>1, <1>3 DEF k

\* Where the store ends it reads as zeros.
LEMMA ReadBeyond ==
    ASSUME NEW m, StoreTyped(m), NEW n \in 1..MaxPage, n > Len(m.pages)
    PROVE  Read(m, n) = Zero
  BY DEF StoreTyped, Read

\* syncJournal.
LEMMA SyncLogged ==
    ASSUME NEW s, Typed(s), ~s.memDb, NEW m, NEW B, Logged(s, m, B),
           NEW t, NEW k, Syncs(s, m, t, k)
    PROVE  Logged(t, k, B) /\ \A n : Read(k, n) = Read(m, n)
<1>1. k.pages = m.pages
  BY DEF Syncs
<1>2. \A n : Read(k, n) = Read(m, n)
  BY <1>1 DEF Read
<1>3. /\ t.journal = s.journal /\ t.journalHdr = Len(s.journal)
      /\ DOMAIN t.cache = DOMAIN s.cache /\ t.eState = PAGER_WRITER_DBMOD
      /\ t.memDb = s.memDb /\ t.dbSize = s.dbSize
      /\ t.dbOrigSize = s.dbOrigSize /\ t.dbFileSize = s.dbFileSize
      /\ InJournal(t) = InJournal(s)
  BY DEF Syncs, InJournal
<1>4. \A n \in DOMAIN s.cache :
         /\ t.cache[n].c = s.cache[n].c /\ t.cache[n].dirty = s.cache[n].dirty
         /\ ~t.cache[n].needSync
  BY DEF Syncs
<1>5. FlagsOK(t)
  BY <1>3, <1>4 DEF Logged, FlagsOK
<1>6. \A i \in DOMAIN t.journal : ~(i > t.journalHdr)
  BY <1>3, JournalDomains
<1>7. UnsyncedOK(t) /\ Unwritten(t, k, B)
  BY <1>3, <1>6 DEF UnsyncedOK, Unwritten
<1>8. Base(t, k, B)
  BY <1>2, <1>3, <1>4 DEF Logged, Base
<1>9. Coherent(t, k)
  BY <1>2, <1>3, <1>4 DEF Logged, Coherent
<1> QED
  BY <1>1, <1>2, <1>3, <1>5, <1>7, <1>8, <1>9 DEF Logged

\* From s and m to w dirty pages that need not wait are written, as far as
\* they fit.
Writes(s, m, B, pages, w) ==
    /\ Logged(w.s, w.m, B) /\ Typed(w.s) /\ SameLimit(m, w.m)
    /\ SameJournals(s, w.s) /\ w.s.eState = s.eState
    /\ w.s.memDb = s.memDb /\ w.s.dbSize = s.dbSize
    /\ w.s.dbOrigSize = s.dbOrigSize
    /\ w.s.hasHeldSharedLock = s.hasHeldSharedLock
    /\ w.s.dbFileSize = Max(Taken(s, m, pages) \cup {s.dbFileSize})
    /\ DOMAIN w.s.cache = DOMAIN s.cache
    /\ \A n \in DOMAIN s.cache : /\ w.s.cache[n].dirty = s.cache[n].dirty
                                 /\ w.s.cache[n].needSync = s.cache[n].needSync
                                 /\ n # 1 => w.s.cache[n] = s.cache[n]
    /\ \A n \in 1..MaxPage : Read(w.m, n) = IF n \in Taken(s, m, pages)
                                            THEN w.s.cache[n].c ELSE Read(m, n)
    /\ 1 \notin Taken(s, m, pages) =>
          w.s.dbFileVers = s.dbFileVers /\ w.s.cache = s.cache
    /\ 1 \in Taken(s, m, pages) =>
          /\ w.s.dbFileVers = w.s.cache[1].c.vers
          /\ w.s.cache[1].c.vers = [s.cache[1].c.vers EXCEPT !.counter =
                                       s.dbFileVers.counter + 1]
    /\ w.ok = (Taken(s, m, pages) = Wanted(s, pages))

\* Writing pages whose originals are synced leaves the changes undoable.
LEMMA WritesLogged ==
    ASSUME NEW s, Typed(s), ~s.memDb, NEW m, StoreTyped(m), NEW B, Logged(s, m, B),
           NEW pages, pages \subseteq DOMAIN s.cache,
           \A n \in pages : s.cache[n].dirty /\ ~s.cache[n].needSync,
           1 \in pages => s.dbFileVers.counter < MaxVer
    PROVE  Writes(s, m, B, pages, WritePages(s, m, pages))
<1> DEFINE w == WritePages(s, m, pages)
           T == Taken(s, m, pages)
           content == [n \in T |-> w.s.cache[n].c]
<1>1. WritesPages(s, m, pages, w)
  BY WritePagesFacts
<1> HIDE DEF w
<1>2. T \in SUBSET (1..MaxPage) /\ T \subseteq pages
  BY DEF Taken, Wanted, Typed, IsCache
<1>3. /\ Typed(w.s) /\ SameLimit(m, w.m) /\ SameJournals(s, w.s)
      /\ w.s.eState = s.eState /\ w.s.memDb = s.memDb
      /\ w.s.dbSize = s.dbSize /\ w.s.dbOrigSize = s.dbOrigSize
      /\ w.s.hasHeldSharedLock = s.hasHeldSharedLock
      /\ w.s.dbFileSize = Max(T \cup {s.dbFileSize})
      /\ DOMAIN w.s.cache = DOMAIN s.cache
      /\ \A n \in DOMAIN s.cache \ {1} : w.s.cache[n] = s.cache[n]
      /\ w.m = Written(m, T, content)
      /\ w.ok = (T = Wanted(s, pages))
  BY <1>1 DEF WritesPages, SameOthers
<1>4. /\ 1 \notin T => w.s.cache = s.cache /\ w.s.dbFileVers = s.dbFileVers
      /\ 1 \in T =>
            /\ w.s.cache[1] = [s.cache[1] EXCEPT !.c.vers.counter =
                                  s.dbFileVers.counter + 1]
            /\ w.s.dbFileVers = w.s.cache[1].c.vers
  BY <1>1 DEF WritesPages
<1> HIDE DEF T
<1>5. \A n \in DOMAIN s.cache : s.cache[n] \in PageType
  BY DEF Typed, IsCache
<1>6. 1 \in T => /\ w.s.cache[1].dirty = s.cache[1].dirty
                 /\ w.s.cache[1].needSync = s.cache[1].needSync
                 /\ w.s.cache[1].c.vers = [s.cache[1].c.vers EXCEPT !.counter =
                                              s.dbFileVers.counter + 1]
  <2>1. ASSUME 1 \in T PROVE s.cache[1] \in PageType /\ s.cache[1].c \in Content
    BY <1>2, <1>5, <2>1 DEF PageType
  <2> QED
    BY <1>4, <2>1 DEF PageType, Content
<1>7. \A n \in DOMAIN s.cache : /\ w.s.cache[n].dirty = s.cache[n].dirty
                                /\ w.s.cache[n].needSync = s.cache[n].needSync
                                /\ n # 1 => w.s.cache[n] = s.cache[n]
                                /\ n \notin T => w.s.cache[n] = s.cache[n]
  BY <1>3, <1>4, <1>6
<1>8. \A n \in T : content[n] \in Content
  <2>1. \A n \in T : n \in DOMAIN w.s.cache
    BY <1>2, <1>3
  <2> QED
    BY <1>3, <2>1 DEF Typed, IsCache, PageType
<1>9. /\ \A n \in 1..MaxPage :
            Read(w.m, n) = IF n \in T THEN w.s.cache[n].c ELSE Read(m, n)
      /\ Len(w.m.pages) = Max(T \cup {Len(m.pages)})
  <2> HIDE DEF content
  <2>1. /\ \A n \in 1..MaxPage :
              Read(w.m, n) = IF n \in T THEN content[n] ELSE Read(m, n)
        /\ Len(w.m.pages) = Max(T \cup {Len(m.pages)})
    BY <1>2, <1>3, <1>8, ReadWritten
  <2> QED
    BY <2>1 DEF content
<1>10. FlagsOK(w.s)
  BY <1>3, <1>7 DEF Logged, FlagsOK, SameJournals, InJournal
<1>11. UnsyncedOK(w.s)
  BY <1>3, <1>7 DEF Logged, UnsyncedOK, SameJournals
<1>12. Base(w.s, w.m, B)
  <2>1. ASSUME NEW n \in 1..s.dbOrigSize, n \notin InJournal(s)
        PROVE  /\ n \in DOMAIN s.cache => w.s.cache[n].c = B[n]
               /\ Read(w.m, n) = B[n]
    <3>1. n \notin T
      BY <1>2, <2>1 DEF Logged, FlagsOK
    <3>2. n \in 1..MaxPage
      BY Sizes
    <3>3. /\ n \in DOMAIN s.cache => s.cache[n].c = B[n]
          /\ Read(m, n) = B[n]
      BY <2>1 DEF Logged, Base
    <3> QED
      BY <3>1, <3>2, <3>3, <1>7, <1>9
  <2>2. InJournal(w.s) = InJournal(s) /\ w.s.journal = s.journal
    BY <1>3 DEF SameJournals, InJournal
  <2> QED
    BY <1>3, <2>1, <2>2 DEF Logged, Base
<1>13. Unwritten(w.s, w.m, B)
  <2>1. ASSUME NEW i \in DOMAIN s.journal, i > s.journalHdr
        PROVE  Read(w.m, s.journal[i].pgno) = B[s.journal[i].pgno]
    <3>1. s.cache[s.journal[i].pgno].needSync
      BY <2>1 DEF Logged, UnsyncedOK
    <3>2. s.journal[i].pgno \notin T
      BY <1>2, <3>1
    <3>3. s.journal[i].pgno \in 1..MaxPage
      BY JournalDomains DEF RecordType
    <3> QED
      BY <2>1, <3>2, <3>3, <1>9 DEF Logged, Unwritten
  <2> QED
    BY <1>3, <2>1 DEF Unwritten, SameJournals
<1>14. Coherent(w.s, w.m)
  <2>1. ASSUME NEW n \in DOMAIN s.cache, ~s.cache[n].dirty, n <= s.dbSize
        PROVE  w.s.cache[n].c = Read(w.m, n)
    <3>1. n \notin T /\ n \in 1..MaxPage
      BY <1>2, <2>1, Sizes
    <3> QED
      BY <1>7, <1>9, <2>1, <3>1 DEF Logged, Coherent
  <2> QED
    BY <1>3, <1>7, <2>1 DEF Coherent
<1>15. w.s.dbFileSize = Len(w.m.pages)
  BY <1>3, <1>9 DEF Logged
<1>16. Logged(w.s, w.m, B)
  BY <1>10, <1>11, <1>12, <1>13, <1>14, <1>15 DEF Logged
<1>17. Writes(s, m, B, pages, w)
  BY <1>3, <1>4, <1>6, <1>7, <1>9, <1>16 DEF Writes, T
<1> QED
  BY <1>17 DEF w
-----------------------------------------------------------------------------
(* A page written before the commit.                                       *)

\* Until the file changes, the store is what it was when s began.
LEMMA StoreBeginning ==
    ASSUME NEW s, Sound(s), ~s.memDb, NEW m, StoreTyped(m), NEW B,
           Logged(s, m, B), s.eState < PAGER_WRITER_DBMOD
    PROVE  Stores(m, s.dbOrigSize, B)
<1>1. s.dbOrigSize = s.dbFileSize /\ s.dbFileSize = Len(m.pages)
  BY DEF Sound, InTx, Logged
<1>2. s.journalHdr = 0 /\ Base(s, m, B) /\ Unwritten(s, m, B)
  BY DEF Logged, UnsyncedOK
<1>3. Typed(s)
  BY DEF Sound
<1>4. ASSUME NEW n \in 1..MaxPage
      PROVE  Read(m, n) = B[n]
  <2>1. CASE n > s.dbOrigSize
    BY <1>1, <1>2, <2>1, ReadBeyond DEF Base
  <2>2. CASE n \in InJournal(s)
    <3>1. PICK i \in DOMAIN s.journal : s.journal[i].pgno = n
      BY <2>2 DEF InJournal, PagesIn
    <3>2. i > s.journalHdr
      BY <1>2, <1>3, JournalDomains
    <3> QED
      BY <1>2, <3>1, <3>2 DEF Unwritten
  <2>3. CASE ~(n > s.dbOrigSize) /\ n \notin InJournal(s)
    <3>1. n \in 1..s.dbOrigSize
      BY <1>3, <2>3, Sizes
    <3> QED
      BY <1>2, <2>3, <3>1 DEF Base
  <2> QED
    BY <2>1, <2>2, <2>3
<1> QED
  BY <1>1, <1>2, <1>4 DEF Stores, Base

\* The transaction goes on when the savepoints, the sizes and page 1 stay.
Rests(s, t) ==
    /\ t.journal = s.journal /\ t.sub = s.sub
    /\ t.aSavepoint = s.aSavepoint /\ t.memDb = s.memDb
    /\ t.dbSize = s.dbSize /\ t.dbOrigSize = s.dbOrigSize
    /\ t.dbFileVers = s.dbFileVers
    /\ 1 \in DOMAIN s.cache /\ 1 \in DOMAIN t.cache
    /\ t.cache[1].c = s.cache[1].c

\* A transaction goes on when savepoints, sizes and page 1 stay.
LEMMA TxRests ==
    ASSUME NEW s, NEW m, NEW B, Tx(s, m, B), NEW t, NEW k, Rests(s, t),
           Logged(t, k, B), SubOK(t), k.szMax = m.szMax
    PROVE  Tx(t, k, B)
<1>1. InJournal(t) = InJournal(s)
  BY DEF Rests, InJournal
<1>2. Tracked(t)
  BY DEF Rests, Tx, Tracked, MarksOK, OrderOK, Recorded, InTail, InSubTail
<1>3. Grown(t)
  BY DEF Rests, Tx, Grown
<1>4. \A sp, c : Saved(s, m, sp, 1, c) => Saved(t, k, sp, 1, c)
  BY DEF Rests, Saved, InTail, InSubTail, Recorded, Holding
<1>5. Headed(t, k, B)
  BY <1>4 DEF Rests, Tx, Headed
<1>6. ~t.memDb => Counting(t, k, B)
  BY <1>1 DEF Rests, Tx, Counting
<1> QED
  BY <1>2, <1>3, <1>5, <1>6 DEF Tx

\* y and l are s and m with the journal synced, as far as page n needs it.
Readied(s, m, B, n, y, l) ==
    /\ Typed(y) /\ StoreTyped(l) /\ l.szMax = m.szMax /\ Logged(y, l, B)
    /\ y.eState = PAGER_WRITER_DBMOD
    /\ y.journal = s.journal /\ y.sub = s.sub
    /\ y.aSavepoint = s.aSavepoint /\ y.memDb = s.memDb
    /\ y.dbSize = s.dbSize /\ y.dbOrigSize = s.dbOrigSize
    /\ y.dbFileSize = s.dbFileSize /\ y.dbFileVers = s.dbFileVers
    /\ \A i : Read(l, i) = Read(m, i)
    /\ DOMAIN y.cache = DOMAIN s.cache
    /\ \A i \in DOMAIN s.cache : /\ y.cache[i].c = s.cache[i].c
                                 /\ y.cache[i].dirty = s.cache[i].dirty
    /\ ~y.cache[n].needSync
    /\ s.eState = PAGER_WRITER_CACHEMOD => y.journalHdr = Len(y.journal)

\* After syncJournal() the journal is synced as far as page n needs.
LEMMA SyncReadies ==
    ASSUME NEW s, Sound(s), ~s.memDb, NEW m, StoreTyped(m), NEW B,
           Logged(s, m, B), NEW n \in DOMAIN s.cache,
           s.eState \in {PAGER_WRITER_CACHEMOD, PAGER_WRITER_DBMOD},
           NEW unsynced,
           unsynced = (s.cache[n].needSync \/ s.eState = PAGER_WRITER_CACHEMOD),
           NEW y, y = IF unsynced THEN syncJournal(s, m).s ELSE s,
           NEW l, l = IF unsynced THEN syncJournal(s, m).m ELSE m
    PROVE  Readied(s, m, B, n, y, l)
<1>1. Typed(s)
  BY DEF Sound
<1>2. CASE unsynced
  <2>1. Syncs(s, m, y, l)
    BY <1>1, <1>2, SyncFacts
  <2>2. Logged(y, l, B) /\ \A i : Read(l, i) = Read(m, i)
    BY <1>1, <2>1, SyncLogged
  <2> QED
    BY <2>1, <2>2 DEF Readied, Syncs, SameLimit
<1>3. CASE ~unsynced
  BY <1>1, <1>3 DEF Readied
<1> QED
  BY <1>2, <1>3

\* pcache1MakeClean: page n counts as clean.
CleanedPage(s, n) == [s EXCEPT !.cache[n] = CleanPage(@.c)]

Cleans(s, t, n) ==
    /\ t.eState = s.eState /\ t.memDb = s.memDb /\ t.dbSize = s.dbSize
    /\ t.dbOrigSize = s.dbOrigSize /\ t.dbFileSize = s.dbFileSize
    /\ t.dbFileVers = s.dbFileVers
    /\ t.hasHeldSharedLock = s.hasHeldSharedLock
    /\ t.journal = s.journal /\ t.journalHdr = s.journalHdr
    /\ t.sub = s.sub /\ t.aSavepoint = s.aSavepoint
    /\ DOMAIN t.cache = DOMAIN s.cache
    /\ \A i \in DOMAIN s.cache \ {n} : t.cache[i] = s.cache[i]
    /\ \A i \in DOMAIN s.cache : t.cache[i].c = s.cache[i].c
    /\ ~t.cache[n].dirty /\ ~t.cache[n].needSync

\* What sqlite3PcacheMakeClean() changes: one page, which is then clean.
LEMMA CleanedPageFacts ==
    ASSUME NEW s, Typed(s), NEW n \in DOMAIN s.cache
    PROVE  Cleans(s, CleanedPage(s, n), n)
<1> DEFINE x == CleanPage(s.cache[n].c)
           t == CleanedPage(s, n)
<1>1. s.cache[n].c \in Content
  BY DEF Typed, IsCache, PageType
<1>2. CleanWith(x, s.cache[n].c)
  BY <1>1, CleanPageFacts
<1> HIDE DEF x
<1>3. t = [s EXCEPT !.cache = [s.cache EXCEPT ![n] = x]]
  BY DEF x, CleanedPage
<1> HIDE DEF t
<1>4. /\ t.eState = s.eState /\ t.memDb = s.memDb /\ t.dbSize = s.dbSize
      /\ t.dbOrigSize = s.dbOrigSize /\ t.dbFileSize = s.dbFileSize
      /\ t.dbFileVers = s.dbFileVers
      /\ t.hasHeldSharedLock = s.hasHeldSharedLock
      /\ t.journal = s.journal /\ t.journalHdr = s.journalHdr
      /\ t.sub = s.sub /\ t.aSavepoint = s.aSavepoint
      /\ t.cache = [s.cache EXCEPT ![n] = x]
  BY <1>3 DEF Typed, Fields
<1>5. /\ DOMAIN t.cache = DOMAIN s.cache
      /\ \A i \in DOMAIN s.cache \ {n} : t.cache[i] = s.cache[i]
      /\ t.cache[n] = x
  BY <1>4
<1>6. /\ \A i \in DOMAIN s.cache : t.cache[i].c = s.cache[i].c
      /\ ~t.cache[n].dirty /\ ~t.cache[n].needSync
  BY <1>2, <1>5 DEF CleanWith
<1>7. Cleans(s, t, n)
  BY <1>4, <1>5, <1>6 DEF Cleans
<1> QED
  BY <1>7 DEF t

\* A page that waits for nothing and is in the store may count as clean.
LEMMA CleanedLogged ==
    ASSUME NEW s, Typed(s), ~s.memDb, NEW m, NEW B, Logged(s, m, B),
           NEW n \in DOMAIN s.cache, ~s.cache[n].needSync,
           n <= s.dbSize => Read(m, n) = s.cache[n].c,
           NEW t, Cleans(s, t, n)
    PROVE  Logged(t, m, B)
<1>1. InJournal(t) = InJournal(s)
  BY DEF Cleans, InJournal
<1>2. /\ FlagsOK(s) /\ UnsyncedOK(s) /\ Base(s, m, B) /\ Unwritten(s, m, B)
      /\ Coherent(s, m) /\ s.dbFileSize = Len(m.pages)
  BY DEF Logged
<1>3. FlagsOK(t)
  BY <1>1, <1>2 DEF Cleans, FlagsOK
<1>4. UnsyncedOK(t)
  <2>1. ASSUME NEW i \in DOMAIN s.journal, i > s.journalHdr
        PROVE  /\ s.journal[i].pgno \in DOMAIN t.cache
               /\ t.cache[s.journal[i].pgno].needSync
    <3>1. /\ s.journal[i].pgno \in DOMAIN s.cache
          /\ s.cache[s.journal[i].pgno].needSync
      BY <1>2, <2>1 DEF UnsyncedOK
    <3> QED
      BY <3>1 DEF Cleans
  <2>2. t.journal = s.journal /\ t.journalHdr = s.journalHdr /\ t.eState = s.eState
    BY DEF Cleans
  <2> QED
    BY <1>2, <2>1, <2>2 DEF UnsyncedOK
<1>5. Base(t, m, B)
  BY <1>1, <1>2 DEF Base, Cleans
<1>6. Unwritten(t, m, B)
  BY <1>2 DEF Unwritten, Cleans
<1>7. Coherent(t, m)
  BY <1>2 DEF Coherent, Cleans
<1>8. t.dbFileSize = s.dbFileSize
  BY DEF Cleans
<1> QED
  BY <1>2, <1>3, <1>4, <1>5, <1>6, <1>7, <1>8 DEF Logged

\* Page n is written and clean.
LEMMA SpilledTx ==
    ASSUME NEW s, ~s.memDb, NEW m, NEW B, Tx(s, m, B), 1 \in DOMAIN s.cache,
           NEW n \in DOMAIN s.cache, s.cache[n].dirty, n # 1,
           NEW y, NEW l, Readied(s, m, B, n, y, l),
           NEW w, w = WritePages(y, l, {n}), w.ok
    PROVE  /\ Tx(CleanedPage(w.s, n), w.m, B)
           /\ Steady(s, m, CleanedPage(w.s, n), w.m)
<1> DEFINE t == CleanedPage(w.s, n)
<1>1. Typed(y) /\ ~y.memDb /\ StoreTyped(l) /\ Logged(y, l, B) /\ n \in DOMAIN y.cache
  BY DEF Readied
<1>2. y.cache[n].dirty /\ ~y.cache[n].needSync
  BY DEF Readied
<1>3. Writes(y, l, B, {n}, w)
  BY <1>1, <1>2, WritesLogged
<1>4. /\ Typed(w.s) /\ Logged(w.s, w.m, B) /\ w.s.memDb = y.memDb
      /\ w.s.eState = y.eState /\ w.s.dbSize = y.dbSize
      /\ w.s.dbOrigSize = y.dbOrigSize /\ w.s.journal = y.journal
      /\ w.s.sub = y.sub
      /\ w.s.aSavepoint = y.aSavepoint /\ w.m.szMax = l.szMax
  BY <1>3 DEF Writes, SameJournals, SameLimit
<1>5. w.s.dbFileVers = y.dbFileVers /\ w.s.cache = y.cache
  BY <1>3 DEF Writes, Taken, Wanted
<1>6. n <= y.dbSize => Read(w.m, n) = y.cache[n].c
  <2>1. Taken(y, l, {n}) = Wanted(y, {n})
    BY <1>3 DEF Writes
  <2>2. n \in 1..MaxPage /\ y.dbSize \in Nat
    BY <1>1, Sizes
  <2>3. n <= y.dbSize => n \in Taken(y, l, {n})
    BY <2>1, <2>2 DEF Wanted
  <2>4. n \in Taken(y, l, {n}) => Read(w.m, n) = w.s.cache[n].c
    BY <2>2, <1>3 DEF Writes
  <2> QED
    BY <2>3, <2>4, <1>5
<1>7. Cleans(w.s, t, n)
  BY <1>1, <1>4, <1>5, CleanedPageFacts
<1> HIDE DEF t
<1>8. ~w.s.memDb /\ n \in DOMAIN w.s.cache /\ ~w.s.cache[n].needSync
      /\ (n <= w.s.dbSize => Read(w.m, n) = w.s.cache[n].c)
  BY <1>1, <1>2, <1>4, <1>5, <1>6
<1>9. Logged(t, w.m, B)
  BY <1>4, <1>7, <1>8, CleanedLogged
<1>10. /\ t.journal = s.journal /\ t.sub = s.sub
       /\ t.aSavepoint = s.aSavepoint /\ t.memDb = s.memDb
       /\ t.dbSize = s.dbSize /\ t.dbOrigSize = s.dbOrigSize
       /\ t.dbFileVers = s.dbFileVers /\ DOMAIN t.cache = DOMAIN s.cache
       /\ \A i \in DOMAIN s.cache : t.cache[i].c = s.cache[i].c
       /\ t.eState = PAGER_WRITER_DBMOD /\ w.m.szMax = m.szMax
  <2>1. /\ y.journal = s.journal /\ y.sub = s.sub
        /\ y.aSavepoint = s.aSavepoint /\ y.memDb = s.memDb
        /\ y.dbSize = s.dbSize /\ y.dbOrigSize = s.dbOrigSize
        /\ y.dbFileVers = s.dbFileVers /\ y.eState = PAGER_WRITER_DBMOD
        /\ l.szMax = m.szMax /\ DOMAIN y.cache = DOMAIN s.cache
        /\ \A i \in DOMAIN s.cache : y.cache[i].c = s.cache[i].c
    BY DEF Readied
  <2>2. /\ t.journal = w.s.journal /\ t.sub = w.s.sub
        /\ t.aSavepoint = w.s.aSavepoint /\ t.memDb = w.s.memDb
        /\ t.dbSize = w.s.dbSize /\ t.dbOrigSize = w.s.dbOrigSize
        /\ t.dbFileVers = w.s.dbFileVers /\ t.eState = w.s.eState
        /\ DOMAIN t.cache = DOMAIN w.s.cache
        /\ \A i \in DOMAIN w.s.cache : t.cache[i].c = w.s.cache[i].c
    BY <1>7 DEF Cleans
  <2> QED
    BY ONLY <2>1, <2>2, <1>4, <1>5
<1>11. Rests(s, t)
  BY <1>10 DEF Rests
<1>12. SubOK(t)
  <2>1. SubOK(s) /\ InJournal(t) = InJournal(s)
    BY <1>10 DEF Tx, Tracked, InJournal
  <2> QED
    BY <2>1, <1>10 DEF SubOK
<1>13. Tx(t, w.m, B)
  BY <1>9, <1>10, <1>11, <1>12, TxRests
<1>14. ASSUME NEW i \in 1..s.dbSize PROVE Holding(t, w.m, i) = Holding(s, m, i)
  <2>1. CASE i \in DOMAIN s.cache
    BY <1>10, <2>1 DEF Holding
  <2>2. CASE i \notin DOMAIN s.cache
    <3>1. i \in 1..MaxPage
      <4>1. y.dbSize = s.dbSize
        BY DEF Readied
      <4> QED
        BY <1>1, <4>1, Sizes
    <3>2. i \notin Taken(y, l, {n})
      BY <2>2 DEF Taken, Wanted
    <3>3. Read(w.m, i) = Read(l, i)
      BY <1>3, <3>1, <3>2 DEF Writes
    <3>4. Read(l, i) = Read(m, i)
      BY DEF Readied
    <3> QED
      BY <1>10, <2>2, <3>3, <3>4 DEF Holding
  <2> QED
    BY <2>1, <2>2
<1>15. Steady(s, m, t, w.m)
  BY <1>10, <1>14 DEF Steady
<1> QED
  BY <1>13, <1>15 DEF t

\* Page n did not fit, and the file had not changed.
LEMMA SpilledBroken ==
    ASSUME NEW s, Sound(s), ~s.memDb, s.eState = PAGER_WRITER_CACHEMOD,
           NEW m, StoreTyped(m), NEW B, Tx(s, m, B),
           NEW n \in DOMAIN s.cache, s.cache[n].dirty, n # 1,
           NEW y, NEW l, Readied(s, m, B, n, y, l),
           NEW w, w = WritePages(y, l, {n}), ~w.ok,
           NEW t, t = [w.s EXCEPT !.eState = PAGER_ERROR,
                                  !.dbFileSize = IF n > @ THEN n ELSE @]
    PROVE  Broken(t, w.m, B) /\ Steady(s, m, t, w.m)
<1> DEFINE T == Taken(y, l, {n})
<1>1. Typed(y) /\ ~y.memDb /\ StoreTyped(l) /\ Logged(y, l, B) /\ n \in DOMAIN y.cache
  BY DEF Readied
<1>2. y.cache[n].dirty /\ ~y.cache[n].needSync
  BY DEF Readied
<1>3. Writes(y, l, B, {n}, w)
  BY <1>1, <1>2, WritesLogged
<1>4. T = {}
  <2>1. T # Wanted(y, {n})
    BY <1>3 DEF Writes
  <2>2. T \subseteq Wanted(y, {n}) /\ Wanted(y, {n}) \subseteq {n}
    BY DEF Taken, Wanted
  <2> HIDE DEF T
  <2> QED
    BY <2>1, <2>2
<1> HIDE DEF T
<1>5. /\ Typed(w.s) /\ Logged(w.s, w.m, B) /\ w.s.memDb = y.memDb
      /\ w.s.dbOrigSize = y.dbOrigSize /\ w.s.journal = y.journal
      /\ w.s.journalHdr = y.journalHdr /\ w.m.szMax = l.szMax
      /\ w.s.dbFileSize = Max(T \cup {y.dbFileSize})
      /\ \A i \in 1..MaxPage : Read(w.m, i) = IF i \in T THEN w.s.cache[i].c
                                              ELSE Read(l, i)
      /\ 1 \notin T => w.s.dbFileVers = y.dbFileVers
      /\ w.s.aSavepoint = y.aSavepoint /\ w.s.dbSize = y.dbSize
  BY <1>3 DEF Writes, SameJournals, SameLimit, T
<1>6. w.s.dbFileSize = y.dbFileSize
  <2>1. T \in SUBSET (1..MaxPage) /\ y.dbFileSize \in 0..MaxPage
    BY <1>1, <1>4 DEF Typed
  <2> QED
    BY <2>1, <1>4, <1>5, MaxWith
<1>7. /\ t.dbOrigSize = s.dbOrigSize /\ t.journal = s.journal
      /\ t.journalHdr = Len(t.journal) /\ t.cache = w.s.cache
      /\ t.dbFileVers = s.dbFileVers /\ w.m.szMax = m.szMax
      /\ w.s.dbFileSize = s.dbFileSize
      /\ t.memDb = w.s.memDb /\ t.dbOrigSize = w.s.dbOrigSize
      /\ t.journal = w.s.journal
      /\ t.dbSize = s.dbSize /\ t.dbSize = w.s.dbSize
      /\ t.aSavepoint = s.aSavepoint
  BY <1>4, <1>5, <1>6 DEF Readied, Typed, Fields
<1>8. Stores(m, s.dbOrigSize, B)
  BY StoreBeginning DEF Tx
<1>9. Stores(w.m, t.dbOrigSize, B)
  <2>1. Len(w.m.pages) = w.s.dbFileSize /\ Len(m.pages) = s.dbFileSize
    BY <1>1, <1>5 DEF Logged, Tx
  <2>2. \A i \in 1..MaxPage : Read(w.m, i) = Read(m, i)
    BY <1>4, <1>5 DEF Readied
  <2> QED
    BY <2>1, <2>2, <1>7, <1>8 DEF Stores
<1>10. FlagsOK(t)
  BY <1>5, <1>7 DEF Logged, FlagsOK, InJournal, Readied
<1>11. JournalOK(t)
  <2>1. JournalOK(s)
    BY DEF Sound
  <2> QED
    BY ONLY <2>1, <1>7 DEF JournalOK
<1>12. s.dbOrigSize > 0 => B[1].vers.nPage = s.dbOrigSize
  BY DEF Tx, Headed
<1>14. Base(t, w.m, B)
  <2>1. Base(w.s, w.m, B)
    BY <1>5 DEF Logged
  <2>2. InJournal(t) = InJournal(w.s)
    BY ONLY <1>7 DEF InJournal
  <2> QED
    BY ONLY <1>7, <2>1, <2>2 DEF Base
<1>15. Coherent(t, w.m)
  <2>1. Coherent(w.s, w.m)
    BY <1>1, <1>5 DEF Logged
  <2> QED
    BY ONLY <1>7, <2>1 DEF Coherent
<1>16. Grown(t)
  <2>1. Grown(s)
    BY DEF Tx
  <2> QED
    BY ONLY <1>7, <2>1 DEF Grown
<1>13. NotAhead(t, w.m, B)
  <2>1. \/ s.dbFileVers.counter = B[1].vers.counter
        \/ s.dbFileVers.nPage > m.szMax
    BY DEF Tx, Counting
  <2>2. s.dbFileVers.counter \in Int
    BY DEF Sound, Typed, VersType
  <2> QED
    BY <2>1, <2>2, <1>7 DEF NotAhead
<1>17. /\ t.dbSize = s.dbSize /\ t.journal = s.journal /\ t.sub = s.sub
       /\ t.aSavepoint = s.aSavepoint /\ t.memDb = s.memDb
       /\ DOMAIN t.cache = DOMAIN s.cache
       /\ \A i \in DOMAIN s.cache : t.cache[i].c = s.cache[i].c
  <2>1. w.s.sub = y.sub /\ w.s.cache = y.cache
    BY <1>3, <1>4 DEF Writes, SameJournals, T
  <2>2. /\ t.sub = w.s.sub /\ t.cache = w.s.cache /\ t.memDb = w.s.memDb
    <3>1. Typed(w.s)
      BY <1>5
    <3> QED
      BY ONLY <3>1, t = [w.s EXCEPT !.eState = PAGER_ERROR,
                                    !.dbFileSize = IF n > @ THEN n ELSE @]
         DEF Typed, Fields
  <2>3. /\ y.sub = s.sub /\ DOMAIN y.cache = DOMAIN s.cache /\ y.memDb = FALSE
        /\ s.memDb = FALSE
        /\ \A i \in DOMAIN s.cache : y.cache[i].c = s.cache[i].c
    BY <1>1 DEF Readied, Typed, Sound
  <2>4. w.s.memDb = y.memDb /\ t.dbSize = s.dbSize /\ t.journal = s.journal
        /\ t.aSavepoint = s.aSavepoint
    BY <1>5, <1>7
  <2> QED
    BY ONLY <2>1, <2>2, <2>3, <2>4
<1>18. ASSUME NEW i \in 1..s.dbSize PROVE Holding(t, w.m, i) = Holding(s, m, i)
  <2>1. CASE i \in DOMAIN s.cache
    BY <1>17, <2>1 DEF Holding
  <2>2. CASE i \notin DOMAIN s.cache
    <3>1. i \in 1..MaxPage
      <4>1. y.dbSize = s.dbSize
        BY DEF Readied
      <4> QED
        BY <1>1, <4>1, Sizes
    <3>2. Read(w.m, i) = Read(l, i)
      BY <1>4, <1>5, <3>1
    <3>3. Read(l, i) = Read(m, i)
      BY DEF Readied
    <3> QED
      BY <1>17, <2>2, <3>2, <3>3 DEF Holding
  <2> QED
    BY <2>1, <2>2
<1>19. Steady(s, m, t, w.m)
  BY <1>17, <1>18 DEF Steady
<1> QED
  BY <1>19, <1>7, <1>9, <1>10, <1>11, <1>12, <1>13, <1>14, <1>15, <1>16 DEF Broken
-----------------------------------------------------------------------------
(* The commit.                                                             *)

\* What sqlite3PcacheCleanAll() changes: the flags, never a content.
LEMMA CleanAllCleans ==
    ASSUME NEW c, IsCache(c)
    PROVE  /\ DOMAIN CleanAll(c) = DOMAIN c
           /\ \A n \in DOMAIN c :
                 /\ CleanAll(c)[n].c = c[n].c /\ ~CleanAll(c)[n].dirty
                 /\ ~CleanAll(c)[n].writeable /\ ~CleanAll(c)[n].needSync
<1>1. DOMAIN CleanAll(c) = DOMAIN c
      /\ \A n \in DOMAIN c : CleanAll(c)[n] = CleanPage(c[n].c)
  BY DEF CleanAll
<1>2. \A n \in DOMAIN c : c[n].c \in Content
  BY DEF IsCache, PageType
<1>3. \A n \in DOMAIN c : CleanWith(CleanPage(c[n].c), c[n].c)
  BY <1>2, CleanPageFacts
<1> QED
  BY <1>1, <1>3 DEF CleanWith

\* What phase one leaves, whether every page fitted or not.
Flushed(s, m, B, d) ==
    /\ Typed(d.s) /\ d.s.eState = PAGER_WRITER_FINISHED /\ ~d.s.memDb
    /\ d.s.hasHeldSharedLock = s.hasHeldSharedLock
    /\ d.s.dbSize = s.dbSize /\ d.s.dbOrigSize = s.dbOrigSize
    /\ JournalOK(d.s) /\ d.s.journalHdr = Len(d.s.journal)
    /\ Base(d.s, d.m, B) /\ Clean(d.s) /\ 1 \in DOMAIN d.s.cache
    /\ d.s.dbFileSize = Len(d.m.pages) /\ d.s.dbSize <= d.s.dbFileSize
    /\ d.s.cache[1].c.vers.nPage = s.dbSize
    /\ d.s.dbFileVers = d.s.cache[1].c.vers
    /\ d.s.dbFileVers.counter = s.dbFileVers.counter + 1
    /\ s.dbOrigSize > 0 => 1 \in InJournal(d.s)
    /\ StoreTyped(d.m) /\ d.m.szMax = m.szMax
    /\ d.ok => Coherent(d.s, d.m)
    /\ ~d.ok => d.s.dbSize > m.szMax

\* The journal is synced and the dirty pages are written.
PagesOut(s, m, B, w) ==
    /\ Typed(w.s) /\ Logged(w.s, w.m, B) /\ ~w.s.memDb
    /\ w.s.hasHeldSharedLock = s.hasHeldSharedLock
    /\ w.s.dbSize = s.dbSize /\ w.s.dbOrigSize = s.dbOrigSize
    /\ JournalOK(w.s) /\ w.s.journalHdr = Len(w.s.journal)
    /\ 1 \in DOMAIN w.s.cache /\ w.s.cache[1].c.vers.nPage = s.dbSize
    /\ w.s.dbFileVers = w.s.cache[1].c.vers
    /\ w.s.dbFileVers.counter = s.dbFileVers.counter + 1
    /\ s.dbOrigSize > 0 => 1 \in InJournal(w.s)
    /\ StoreTyped(w.m) /\ w.m.szMax = m.szMax
    /\ w.ok => \A n \in DOMAIN w.s.cache :
                  n <= w.s.dbSize => w.s.cache[n].c = Read(w.m, n)
    /\ ~w.ok => w.s.dbSize > m.szMax

\* With all dirty pages written, the store holds what the cache holds.
LEMMA DirtyStored ==
    ASSUME NEW s, NEW m, StoreTyped(m), NEW B, Committable(s, m, B), ~s.memDb,
           NEW a, Increased(s, m, B, a),
           NEW y, NEW l, Syncs(a, m, y, l),
           NEW w, w = WritePages(y, l, Dirty(y))
    PROVE  PagesOut(s, m, B, w)
<1> DEFINE T == Taken(y, l, Dirty(y))
<1>1. /\ Typed(a) /\ ~a.memDb /\ Logged(a, m, B) /\ JournalOK(a)
      /\ 1 \in DOMAIN a.cache /\ a.cache[1].dirty
      /\ a.dbFileVers.counter < MaxVer
      /\ a.dbSize = s.dbSize /\ a.dbOrigSize = s.dbOrigSize
      /\ a.dbFileVers = s.dbFileVers
      /\ a.hasHeldSharedLock = s.hasHeldSharedLock
      /\ a.cache[1].c.vers.nPage = s.dbSize
      /\ s.dbOrigSize > 0 => 1 \in InJournal(a)
  BY DEF Increased, Committing
<1>2. Logged(y, l, B)
  BY <1>1, SyncLogged
<1>3. /\ Typed(y) /\ y.memDb = a.memDb /\ StoreTyped(l) /\ l.szMax = m.szMax
      /\ y.dbSize = a.dbSize /\ y.dbOrigSize = a.dbOrigSize
      /\ y.dbFileVers = a.dbFileVers /\ y.journal = a.journal
      /\ y.journalHdr = Len(a.journal)
      /\ y.hasHeldSharedLock = a.hasHeldSharedLock
      /\ DOMAIN y.cache = DOMAIN a.cache
      /\ \A n \in DOMAIN a.cache :
            /\ y.cache[n].c = a.cache[n].c /\ y.cache[n].dirty = a.cache[n].dirty
            /\ ~y.cache[n].needSync
  BY DEF Syncs, SameLimit
<1>4. /\ Dirty(y) \subseteq DOMAIN y.cache /\ 1 \in Dirty(y)
      /\ \A n \in Dirty(y) : y.cache[n].dirty /\ ~y.cache[n].needSync
      /\ y.dbFileVers.counter < MaxVer
  BY <1>1, <1>3 DEF Dirty
<1>5. ~y.memDb
  BY <1>1, <1>3
<1>6. Writes(y, l, B, Dirty(y), w)
  BY <1>2, <1>3, <1>4, <1>5, WritesLogged
<1>7. m.szMax \in Nat \ {0} /\ s.dbSize \in Nat /\ 1 <= s.dbSize
  BY PagerAssumption, Sizes DEF StoreTyped, Committable, Sound
<1>8. 1 \in T
  BY <1>1, <1>3, <1>4, <1>7 DEF Taken, Wanted, Fits
<1>9. w.ok = (T = Wanted(y, Dirty(y)))
  BY <1>6 DEF Writes
<1>10. T \subseteq Dirty(y)
  BY DEF Taken, Wanted
<1>11. ~w.ok => y.dbSize > m.szMax
  <2>1. ASSUME T # Wanted(y, Dirty(y)) PROVE y.dbSize > m.szMax
    <3>1. PICK n \in Wanted(y, Dirty(y)) : ~Fits(l, n)
      BY <2>1 DEF Taken
    <3> QED
      BY <3>1, <1>3, <1>1, <1>7 DEF Wanted, Fits
  <2> QED
    BY <2>1, <1>9
<1>12. \A n \in Dirty(y) : n <= y.dbSize => n \in Wanted(y, Dirty(y))
  <2>1. \A n \in DOMAIN y.cache : n \in 1..MaxPage
    BY <1>3, Sizes
  <2> QED
    BY <2>1, <1>1, <1>3, <1>4, <1>7 DEF Wanted
<1> HIDE DEF T
<1>13. /\ Logged(w.s, w.m, B) /\ Typed(w.s) /\ StoreTyped(w.m)
       /\ w.m.szMax = l.szMax
       /\ w.s.journal = y.journal /\ w.s.journalHdr = y.journalHdr
       /\ w.s.memDb = y.memDb /\ w.s.dbSize = y.dbSize
       /\ w.s.dbOrigSize = y.dbOrigSize
       /\ w.s.hasHeldSharedLock = y.hasHeldSharedLock
       /\ DOMAIN w.s.cache = DOMAIN y.cache
       /\ \A n \in DOMAIN y.cache : w.s.cache[n].dirty = y.cache[n].dirty
       /\ \A n \in 1..MaxPage : n \in T => Read(w.m, n) = w.s.cache[n].c
       /\ w.s.dbFileVers = w.s.cache[1].c.vers
       /\ w.s.cache[1].c.vers = [y.cache[1].c.vers EXCEPT !.counter =
                                    y.dbFileVers.counter + 1]
  BY <1>6, <1>8 DEF Writes, SameJournals, SameLimit, T
<1>14. /\ w.s.dbFileVers.counter = s.dbFileVers.counter + 1
       /\ w.s.cache[1].c.vers.nPage = s.dbSize
  <2>1. y.cache[1].c.vers \in VersType /\ y.cache[1].c.vers.nPage = s.dbSize
    BY <1>1, <1>3 DEF Typed, IsCache, PageType, Content
  <2> QED
    BY <2>1, <1>1, <1>3, <1>13 DEF VersType
<1>15. ASSUME w.ok, NEW n \in DOMAIN w.s.cache, n <= w.s.dbSize
       PROVE  w.s.cache[n].c = Read(w.m, n)
  <2>1. n \in 1..MaxPage /\ n \in DOMAIN y.cache
    BY <1>13, Sizes
  <2>2. CASE w.s.cache[n].dirty
    <3>3. y.cache[n].dirty
      BY <2>1, <2>2, <1>13
    <3>1. n \in Dirty(y)
      BY ONLY <2>1, <3>3 DEF Dirty
    <3>2. n \in T
      BY <3>1, <1>9, <1>12, <1>13, <1>15
    <3> QED
      BY <2>1, <3>2, <1>13
  <2>3. CASE ~w.s.cache[n].dirty
    BY <2>3, <1>5, <1>13, <1>15 DEF Logged, Coherent
  <2> QED
    BY <2>2, <2>3
<1>16. JournalOK(w.s) /\ InJournal(w.s) = InJournal(a)
       /\ w.s.journalHdr = Len(w.s.journal)
  BY <1>1, <1>3, <1>13 DEF JournalOK, InJournal
<1>17. ~w.ok => w.s.dbSize > m.szMax
  BY <1>11, <1>13
<1>18. /\ w.s.hasHeldSharedLock = s.hasHeldSharedLock /\ ~w.s.memDb
       /\ w.s.dbSize = s.dbSize /\ w.s.dbOrigSize = s.dbOrigSize
       /\ 1 \in DOMAIN w.s.cache /\ w.m.szMax = m.szMax
  BY <1>1, <1>3, <1>5, <1>13
<1>19. s.dbOrigSize > 0 => 1 \in InJournal(w.s)
  BY <1>1, <1>16
<1> QED
  BY <1>13, <1>14, <1>15, <1>16, <1>17, <1>18, <1>19 DEF PagesOut

\* sqlite3PagerCommitPhaseOne: the last page is written to make the store as
\* long as the image.
LEMMA PhaseOneFlushes ==
    ASSUME NEW s, NEW m, StoreTyped(m), NEW B, Committable(s, m, B), ~s.memDb
    PROVE  Flushed(s, m, B, PhaseOne(s, m))
<1> DEFINE a == Counted(s, m)
           b == syncJournal(a, m)
           w == WritePages(b.s, b.m, Dirty(b.s))
           grows == w.s.dbSize > w.s.dbFileSize
           size == Max({w.s.dbFileSize, w.s.dbSize})
           t == [w.s EXCEPT
                   !.eState = PAGER_WRITER_FINISHED, !.cache = CleanAll(@),
                   !.dbFileSize = Max({@, w.s.dbSize})]
           k == IF grows THEN Resized(w.m, w.s.dbSize) ELSE w.m
           ok == w.ok /\ (grows => Fits(w.m, w.s.dbSize))
           d == PhaseOne(s, m)
<1>1. d = [s |-> t, m |-> k, ok |-> ok]
  BY DEF PhaseOne
<1>2. d.s = t /\ d.m = k /\ d.ok = ok
  BY <1>1
<1> HIDE DEF d
<1>3. Increased(s, m, B, a)
  BY CountedIncreased
<1> HIDE DEF a
<1>4. Syncs(a, m, b.s, b.m)
  BY <1>3, SyncFacts DEF Increased, Committing
<1> HIDE DEF b
<1>5. PagesOut(s, m, B, w)
  BY <1>3, <1>4, DirtyStored
<1> HIDE DEF w
<1>6. Typed(w.s) /\ Logged(w.s, w.m, B) /\ ~w.s.memDb /\ StoreTyped(w.m)
  BY <1>5 DEF PagesOut
<1>7. /\ w.s.dbFileSize \in Nat /\ w.s.dbSize \in Nat /\ MaxPage \in Nat
      /\ w.s.dbFileSize <= MaxPage /\ w.s.dbSize <= MaxPage
      /\ w.s.dbFileSize = Len(w.m.pages)
  BY <1>6, Sizes DEF Logged
<1>8. size = IF w.s.dbFileSize >= w.s.dbSize THEN w.s.dbFileSize ELSE w.s.dbSize
  BY <1>7, MaxOfTwo
<1>9. /\ t.eState = PAGER_WRITER_FINISHED /\ t.cache = CleanAll(w.s.cache)
      /\ t.dbFileSize = size
      /\ t.memDb = w.s.memDb /\ t.eLock = w.s.eLock
      /\ t.hasHeldSharedLock = w.s.hasHeldSharedLock
      /\ t.changeCountDone = w.s.changeCountDone
      /\ t.dbFileVers = w.s.dbFileVers /\ t.dbSize = w.s.dbSize
      /\ t.dbOrigSize = w.s.dbOrigSize /\ t.journal = w.s.journal
      /\ t.journalHdr = w.s.journalHdr /\ t.sub = w.s.sub
      /\ t.aSavepoint = w.s.aSavepoint
  BY <1>6 DEF Typed, Fields
<1>a. Fields \subseteq DOMAIN t
  BY <1>6 DEF Typed, Fields
<1> HIDE DEF t, size
<1>10. IsCache(w.s.cache)
  BY <1>6 DEF Typed
<1>11. /\ DOMAIN t.cache = DOMAIN w.s.cache
       /\ \A n \in DOMAIN w.s.cache :
             /\ t.cache[n].c = w.s.cache[n].c /\ ~t.cache[n].dirty
             /\ ~t.cache[n].writeable /\ ~t.cache[n].needSync
  BY <1>9, <1>10, CleanAllCleans
<1>12. Typed(t)
  <2>1. IsCache(t.cache)
    BY <1>9, <1>10, CleanAllFacts
  <2>2. size \in 0..MaxPage
    BY <1>7, <1>8
  <2> QED
    BY <1>6, <1>9, <1>a, <2>1, <2>2 DEF Typed
<1>13. /\ StoreTyped(k) /\ k.szMax = w.m.szMax /\ t.dbFileSize = Len(k.pages)
       /\ \A n \in 1..MaxPage : n <= w.s.dbSize \/ ~grows => Read(k, n) = Read(w.m, n)
       /\ \A n \in 1..MaxPage : grows /\ n > w.s.dbSize => Read(k, n) = Zero
  <2>1. CASE grows
    <3>1. w.s.dbSize \in 0..MaxPage /\ t.dbFileSize = w.s.dbSize
      BY <2>1, <1>7, <1>8, <1>9
    <3>2. k = Resized(w.m, w.s.dbSize)
      BY <2>1
    <3> HIDE DEF k, grows
    <3>3. \A n \in 1..MaxPage :
             Read(k, n) = IF n <= w.s.dbSize THEN Read(w.m, n) ELSE Zero
      BY <1>6, <3>1, <3>2, ReadResized
    <3>4. Len(k.pages) = w.s.dbSize /\ SameLimit(w.m, k)
      BY <1>6, <3>1, <3>2, ReadResized
    <3>5. \A n \in 1..MaxPage : n > w.s.dbSize => ~(n <= w.s.dbSize)
      BY <1>7
    <3> QED
      BY <2>1, <3>1, <3>3, <3>4, <3>5 DEF SameLimit
  <2>2. CASE ~grows
    BY <2>2, <1>6, <1>7, <1>8, <1>9
  <2> QED
    BY <2>1, <2>2
<1>14. \A n \in 1..MaxPage : Read(k, n) = Read(w.m, n)
  <2>1. ASSUME NEW n \in 1..MaxPage, grows, n > w.s.dbSize
        PROVE  Read(w.m, n) = Zero
    BY <1>6, <1>7, <2>1, ReadBeyond
  <2> HIDE DEF grows, k
  <2> QED
    BY <1>13, <2>1, <1>7
<1>15. /\ w.ok => \A n \in DOMAIN w.s.cache :
                     n <= w.s.dbSize => w.s.cache[n].c = Read(w.m, n)
       /\ ~w.ok => w.s.dbSize > m.szMax
       /\ w.m.szMax = m.szMax /\ m.szMax \in Nat
  BY PagerAssumption, <1>5 DEF PagesOut, StoreTyped
<1>16. ~ok => t.dbSize > m.szMax
  BY <1>7, <1>9, <1>15 DEF Fits
<1> HIDE DEF k, grows
<1>17. ok => Coherent(t, k)
  <2> SUFFICES ASSUME w.ok, NEW n \in DOMAIN t.cache, n <= t.dbSize
               PROVE  t.cache[n].c = Read(k, n)
    BY DEF Coherent
  <2>1. n \in DOMAIN w.s.cache /\ n \in 1..MaxPage
    BY <1>6, <1>11, Sizes
  <2> QED
    BY <2>1, <1>9, <1>11, <1>14, <1>15
<1>18. Base(t, k, B)
  <2>1. Base(w.s, w.m, B) /\ InJournal(t) = InJournal(w.s)
    BY <1>6, <1>9 DEF Logged, InJournal
  <2>2. \A n \in 1..w.s.dbOrigSize : n \in 1..MaxPage
    BY <1>6, Sizes
  <2>3. ~t.memDb
    BY <1>6, <1>9
  <2> QED
    BY <1>6, <1>9, <1>11, <1>14, <2>1, <2>2, <2>3 DEF Base
<1>19. Clean(t) /\ t.dbSize <= t.dbFileSize
  BY <1>7, <1>8, <1>9, <1>11 DEF Clean
<1>20. JournalOK(t) /\ InJournal(t) = InJournal(w.s)
  <2>1. JournalOK(w.s)
    BY <1>5 DEF PagesOut
  <2> QED
    BY <2>1, <1>9 DEF JournalOK, InJournal
<1>21. /\ t.hasHeldSharedLock = s.hasHeldSharedLock /\ ~t.memDb
       /\ t.dbSize = s.dbSize /\ t.dbOrigSize = s.dbOrigSize
       /\ t.journalHdr = Len(t.journal) /\ 1 \in DOMAIN t.cache
       /\ t.cache[1].c.vers.nPage = s.dbSize
       /\ t.dbFileVers = t.cache[1].c.vers
       /\ t.dbFileVers.counter = s.dbFileVers.counter + 1
       /\ s.dbOrigSize > 0 => 1 \in InJournal(t)
  BY <1>5, <1>9, <1>11, <1>20 DEF PagesOut
<1>22. Flushed(s, m, B, d)
  <2> HIDE DEF ok
  <2>1. k.szMax = m.szMax
    BY <1>13, <1>15
  <2> QED
    BY <1>2, <1>9, <1>12, <1>13, <1>16, <1>17, <1>18, <1>19, <1>20, <1>21, <2>1
    DEF Flushed
<1> QED
  BY <1>22 DEF d

\* A commit whose pages fitted.
LEMMA FlushedDone ==
    ASSUME NEW s, NEW m, StoreTyped(m), NEW B, Committable(s, m, B), ~s.memDb,
           NEW d, Flushed(s, m, B, d), d.ok
    PROVE  Done(d.s, d.m, B)
<1>1. /\ Typed(s) /\ 1 <= s.dbSize
      /\ s.dbOrigSize > 0 => B[1].vers.nPage = s.dbOrigSize
      /\ \/ s.dbFileVers.counter = B[1].vers.counter
         \/ s.dbOrigSize = 0
  BY DEF Committable, Sound
<1>2. s.dbOrigSize = 0 => B[1].vers.counter = 0
  <2>1. Base(d.s, d.m, B) /\ d.s.dbOrigSize = s.dbOrigSize
    BY DEF Flushed
  <2>2. 1 \in 1..MaxPage
    BY PagerAssumption
  <2> QED
    BY <2>1, <2>2, ZeroContent DEF Base
<1>3. s.dbFileVers.counter \in Nat
  BY <1>1 DEF Typed, VersType
<1>4. B[1].vers.counter < d.s.dbFileVers.counter
  BY <1>1, <1>2, <1>3 DEF Flushed
<1> QED
  BY <1>1, <1>4 DEF Flushed, Done
=============================================================================
