------------------------------- MODULE Pager --------------------------------
(***************************************************************************)
(* The pager: how connections read and change the pages of one database    *)
(* kept in memory.  Each pager has a page cache, a rollback journal and a  *)
(* sub-journal for its savepoints, both held in memory; what they share is *)
(* the store of module MemDb.  A ":memory:" pager (memDb) has no store:    *)
(* its cache is the database.  The caller is the b-tree layer, which fixes *)
(* the order of the calls.  One call of the VDBE ends in the states        *)
(* PAGER_WRITER_FINISHED and PAGER_ERROR only to leave them again, so no   *)
(* other connection acts while a pager is in one of them.                  *)
(***************************************************************************)
EXTENDS MemDb, SequencesExt

CONSTANTS
    Pagers,         \* one per connection that may open the database
    MaxPage,        \* bound: pages of a database
    Vals,           \* the values of a page
    MaxSavepoints,  \* bound: open savepoints
    MaxSub,         \* bound: records in the sub-journal
    MaxVer,         \* bound: the file change counter
    Limits,         \* the size limits the store may have, in pages
    Turns,          \* TRUE: nobody begins to write while another reads
    FirstUndone,    \* TRUE: the first transaction of an empty store may be
                    \* rolled back after phase one of its commit
    LateFull,       \* TRUE: a spill may find the store full when the
                    \* transaction has already changed the store
    SavepointsAlone,\* bound: TRUE: savepoints are open only while no other
                    \* connection is, and not opened under a lock of BEGIN
                    \* EXCLUSIVE
    None            \* no pager

ASSUME PagerAssumption ==
    /\ IsFiniteSet(Pagers)
    /\ MaxPage \in Nat \ {0} /\ Limits \subseteq Nat \ {0}
    /\ 0 \in Vals /\ Vals \subseteq Nat
    /\ MaxSavepoints \in Nat /\ MaxSub \in Nat /\ MaxVer \in Nat
    /\ {Turns, FirstUndone, LateFull, SavepointsAlone} \subseteq BOOLEAN
    /\ None \notin Pagers

VARIABLES
    pager,          \* pager[p]: the Pager object of p
    store           \* the MemStore they share

vars == <<pager, store>>

\* Pager.eState, and one value for a pager that is not open.
NOT_OPEN              == -1
PAGER_OPEN            == 0
PAGER_READER          == 1
PAGER_WRITER_LOCKED   == 2
PAGER_WRITER_CACHEMOD == 3
PAGER_WRITER_DBMOD    == 4
PAGER_WRITER_FINISHED == 5
PAGER_ERROR           == 6

\* Fields of a transaction are emptied when it ends: nobody reads them then.
NotOpen ==
    [eState |-> NOT_OPEN, memDb |-> FALSE, eLock |-> NO_LOCK,
     hasHeldSharedLock |-> FALSE, changeCountDone |-> FALSE,
     dbFileVers |-> Zero.vers,
     dbSize |-> 0, dbOrigSize |-> 0, dbFileSize |-> 0,
     cache |-> <<>>, journal |-> <<>>, journalHdr |-> 0,
     sub |-> <<>>, aSavepoint |-> <<>>]

\* sqlite3PagerOpen.  A ":memory:" pager pretends to hold every lock.
OpenedPager(memDb) ==
    [NotOpen EXCEPT
        !.eState = IF memDb THEN PAGER_READER ELSE PAGER_OPEN,
        !.eLock = IF memDb THEN EXCLUSIVE_LOCK ELSE NO_LOCK,
        !.memDb = memDb, !.changeCountDone = memDb]
-----------------------------------------------------------------------------
(* The page cache: cache[n] is page n with its flags.                      *)

CleanPage(c) ==
    [c |-> c, dirty |-> FALSE, writeable |-> FALSE, needSync |-> FALSE]

\* sqlite3PcacheCleanAll
CleanAll(cache) == [n \in DOMAIN cache |-> CleanPage(cache[n].c)]

\* sqlite3PcacheClearSyncFlags
ClearSyncFlags(cache) ==
    [n \in DOMAIN cache |-> [cache[n] EXCEPT !.needSync = FALSE]]

\* sqlite3PcacheTruncate: page 1, which is in use, stays, all zeros.
PcacheTruncate(cache, size) ==
    [n \in DOMAIN cache \cap 1..Max({size, 1}) |->
        IF n > size THEN [cache[n] EXCEPT !.c = Zero] ELSE cache[n]]

Dirty(s) == {n \in DOMAIN s.cache : s.cache[n].dirty}

\* getPageNormal, readDbPage: page n is in the cache, read if need be.
Fetched(s, m, n) ==
    IF n \in DOMAIN s.cache THEN s
    ELSE LET onFile == ~s.memDb /\ n <= s.dbSize
             c == IF onFile THEN Read(m, n) ELSE Zero
         IN  [s EXCEPT
                 !.cache = [i \in DOMAIN @ \cup {n} |->
                               IF i = n THEN CleanPage(c) ELSE @[i]],
                 !.dbFileVers = IF onFile /\ n = 1 THEN c.vers ELSE @]
-----------------------------------------------------------------------------
(* The journals: what a page was before it changed.                        *)

Record(s, n) == [pgno |-> n, c |-> s.cache[n].c]

PagesIn(records) == {records[i].pgno : i \in DOMAIN records}

InJournal(s) == PagesIn(s.journal)

\* pager_open_journal, at the first change of a transaction.
OpenJournal(s) ==
    IF s.eState = PAGER_WRITER_LOCKED
    THEN [s EXCEPT !.eState = PAGER_WRITER_CACHEMOD,
                   !.journal = <<>>, !.journalHdr = 0]
    ELSE s

\* addToSavepointBitvecs
InSavepoints(aSavepoint, n) ==
    [i \in DOMAIN aSavepoint |->
        IF n <= aSavepoint[i].nOrig
        THEN [aSavepoint[i] EXCEPT !.inSavepoint = @ \cup {n}]
        ELSE aSavepoint[i]]

\* Mutant: the page is not marked as waiting for the journal.
AddToRollbackJournal_NoSync(s, n) ==
    [s EXCEPT !.journal = Append(@, Record(s, n)),
              !.aSavepoint = InSavepoints(@, n)]

\* pagerAddPageToRollbackJournal
AddToRollbackJournal(s, n) ==
    [s EXCEPT !.journal = Append(@, Record(s, n)),
              !.cache[n].needSync = TRUE,
              !.aSavepoint = InSavepoints(@, n)]

\* pager_write: a page of the original database is journalled once; a new
\* page has no original, but must not reach the file before the journal does.
Journalled(s, n) ==
    CASE n \in InJournal(s) -> s
      [] n \notin InJournal(s) /\ n <= s.dbOrigSize ->
            AddToRollbackJournal(s, n)
      [] OTHER ->
            [s EXCEPT !.cache[n].needSync =
                          @ \/ s.eState # PAGER_WRITER_DBMOD]

\* Mutant: the last page a savepoint covers is taken for a new one.
Requiring_NewPage(s, n) ==
    {i \in DOMAIN s.aSavepoint :
        n < s.aSavepoint[i].nOrig /\ n \notin s.aSavepoint[i].inSavepoint}

\* subjRequiresPage: the savepoints whose image of page n is saved nowhere.
Requiring(s, n) ==
    {i \in DOMAIN s.aSavepoint :
        n <= s.aSavepoint[i].nOrig /\ n \notin s.aSavepoint[i].inSavepoint}

\* subjournalPageIfRequired.  A record the earlier savepoints need must
\* outlive the release of the later ones.
SubJournalled(s, n) ==
    IF Requiring(s, n) = {} THEN s
    ELSE LET first == Min(Requiring(s, n))
             kept == [i \in DOMAIN s.aSavepoint |->
                         [s.aSavepoint[i] EXCEPT
                             !.bTruncateOnRelease = @ /\ i <= first]]
         IN  [s EXCEPT !.sub = Append(@, Record(s, n)),
                       !.aSavepoint = InSavepoints(kept, n)]

\* pager_write
pager_write(s, n) ==
    LET dirty == [OpenJournal(s) EXCEPT !.cache[n].dirty = TRUE]
        saved == [Journalled(dirty, n) EXCEPT !.cache[n].writeable = TRUE]
    IN  [SubJournalled(saved, n) EXCEPT !.dbSize = Max({@, n})]

\* sqlite3PagerWrite: page n, which is in the cache, is about to change.
PagerWrite(s, n) ==
    IF s.cache[n].writeable /\ n <= s.dbSize
    THEN SubJournalled(s, n)
    ELSE pager_write(s, n)
-----------------------------------------------------------------------------
(* Writing to the store.  From here on an operator returns the pager s and *)
(* the store m it leaves, and whether the store took every page (ok).      *)

\* Mutant: the journal is synced without asking for the exclusive lock.
syncJournal_Reserved(s, m) ==
    [s |-> [s EXCEPT !.eState = PAGER_WRITER_DBMOD,
                     !.journalHdr = Len(s.journal),
                     !.cache = ClearSyncFlags(@)],
     m |-> m]

\* syncJournal: the whole journal counts as written before the file changes.
syncJournal(s, m) ==
    [s |-> [s EXCEPT !.eState = PAGER_WRITER_DBMOD,
                     !.eLock = EXCLUSIVE_LOCK,
                     !.journalHdr = Len(s.journal),
                     !.cache = ClearSyncFlags(@)],
     m |-> Locked(m, s.eLock, EXCLUSIVE_LOCK)]

\* pager_write_changecounter
ChangeCounter(s) == [s EXCEPT !.cache[1].c.vers.counter =
                                  s.dbFileVers.counter + 1]

\* Mutant: the store grows before its limit is looked at.
WritePages_GrowsFirst(s, m, pages) ==
    LET wanted == pages \cap 1..s.dbSize
        t == IF 1 \in wanted THEN ChangeCounter(s) ELSE s
    IN  [s |-> [t EXCEPT
                   !.dbFileVers = IF 1 \in wanted THEN t.cache[1].c.vers ELSE @,
                   !.dbFileSize = Max(wanted \cup {@})],
         m |-> Written(m, wanted, [n \in wanted |-> t.cache[n].c]),
         ok |-> \A n \in wanted : Fits(m, n)]

\* pager_write_pagelist, pages ascending: the first that does not fit ends
\* it (that it raises dbFileSize too is left to Spill; a commit is rolled back
\* at once).  A page past the end of the image is not written.
WritePages(s, m, pages) ==
    LET wanted == pages \cap 1..s.dbSize
        taken == {n \in wanted : Fits(m, n)}
        t == IF 1 \in taken THEN ChangeCounter(s) ELSE s
    IN  [s |-> [t EXCEPT
                   !.dbFileVers = IF 1 \in taken THEN t.cache[1].c.vers ELSE @,
                   !.dbFileSize = Max(taken \cup {@})],
         m |-> Written(m, taken, [n \in taken |-> t.cache[n].c]),
         ok |-> taken = wanted]

\* pager_playback_one_page over a list of records; the first of each page
\* counts.  "safe" says the record was written before the page was.
Playback(s, m, records) ==
    LET first(n) == records[Min({i \in DOMAIN records : records[i].pgno = n})]
        pages == PagesIn(records) \cap 1..s.dbSize
        stored == {n \in pages : first(n).safe /\ ~s.memDb
                                 /\ s.eState >= PAGER_WRITER_DBMOD}
    IN  [s |-> [s EXCEPT
                   !.cache = [n \in DOMAIN @ |->
                                 IF n \in pages
                                 THEN [@[n] EXCEPT !.c = first(n).c]
                                 ELSE @[n]],
                   !.dbFileSize = Max(stored \cup {@}),
                   !.dbFileVers = IF 1 \in pages THEN first(1).c.vers ELSE @],
         m |-> Written(m, stored, [n \in stored |-> first(n).c]),
         ok |-> \A n \in stored : Fits(m, n)]

\* The records of the journal after the first k, and of the sub-journal.
JournalFrom(s, k) ==
    [i \in 1..(Len(s.journal) - k) |->
        [pgno |-> s.journal[k + i].pgno, c |-> s.journal[k + i].c,
         safe |-> k + i <= s.journalHdr]]

SubFrom(s, k) ==
    [i \in 1..(Len(s.sub) - k) |->
        LET r == s.sub[k + i]
        IN  [pgno |-> r.pgno, c |-> r.c,
             safe |-> r.pgno \notin DOMAIN s.cache
                      \/ ~s.cache[r.pgno].needSync]]
-----------------------------------------------------------------------------
(* The end of a transaction.                                               *)

\* pager_end_transaction: a commit also cuts the file to the image's size.
Ended(s, m, bCommit) ==
    LET reader == [s EXCEPT
            !.eState = PAGER_READER,
            !.cache = PcacheTruncate(CleanAll(@), s.dbSize),
            !.journal = <<>>, !.journalHdr = 0, !.sub = <<>>,
            !.aSavepoint = <<>>, !.dbOrigSize = 0, !.dbFileSize = 0]
        cut == bCommit /\ s.eState >= PAGER_WRITER_DBMOD
                       /\ s.dbFileSize > s.dbSize
        file == IF cut THEN Resized(m, s.dbSize) ELSE m
    IN  IF s.memDb THEN [s |-> reader, m |-> m]
        ELSE [s |-> [reader EXCEPT !.eLock = SHARED_LOCK,
                                   !.changeCountDone = FALSE],
              m |-> Locked(file, s.eLock, SHARED_LOCK)]

\* sqlite3PagerRollback, pager_playback.
RolledBack(s, m) ==
    LET onFile == ~s.memDb /\ s.eState >= PAGER_WRITER_DBMOD
        cut == [s EXCEPT !.dbSize = s.dbOrigSize, !.changeCountDone = s.memDb,
                         !.dbFileSize = IF onFile THEN s.dbOrigSize ELSE @]
        file == IF onFile THEN Resized(m, s.dbOrigSize) ELSE m
        played == Playback(cut, file, JournalFrom(cut, 0))
    IN  IF s.eState = PAGER_WRITER_LOCKED THEN Ended(s, m, FALSE)
        ELSE Ended(played.s, played.m, FALSE)

\* Mutant: page 1 is not made part of every commit.
Counted_NotAtAll(s, m) == [s EXCEPT !.changeCountDone = TRUE]

\* pager_incr_changecounter, once per transaction.
Counted(s, m) ==
    IF s.changeCountDone THEN s
    ELSE [ChangeCounter(PagerWrite(Fetched(s, m, 1), 1))
             EXCEPT !.changeCountDone = TRUE]

\* sqlite3PagerCommitPhaseOne of a pager with a file: count, sync, write.
PhaseOne(s, m) ==
    LET synced == syncJournal(Counted(s, m), m)
        wrote == WritePages(synced.s, synced.m, Dirty(synced.s))
        grows == wrote.s.dbSize > wrote.s.dbFileSize
    IN  [s |-> [wrote.s EXCEPT
                   !.eState = PAGER_WRITER_FINISHED, !.cache = CleanAll(@),
                   !.dbFileSize = Max({@, wrote.s.dbSize})],
         m |-> IF grows THEN Resized(wrote.m, wrote.s.dbSize) ELSE wrote.m,
         ok |-> wrote.ok /\ (grows => Fits(wrote.m, wrote.s.dbSize))]

\* pager_unlock: after an error nothing in the cache can be trusted.
Unlocked(s, m) ==
    [s |-> [s EXCEPT !.eState = PAGER_OPEN, !.eLock = NO_LOCK,
                     !.changeCountDone = FALSE,
                     !.cache = IF s.eState = PAGER_ERROR THEN <<>> ELSE @,
                     !.dbSize = 0, !.dbOrigSize = 0, !.dbFileSize = 0,
                     !.journal = <<>>, !.journalHdr = 0,
                     !.sub = <<>>, !.aSavepoint = <<>>],
     m |-> Locked(m, s.eLock, NO_LOCK)]
-----------------------------------------------------------------------------
(* The calls the b-tree makes.                                             *)

\* p may be called: no other pager is inside a call (see the header).
May(p) ==
    \A q \in Pagers \ {p} :
        pager[q].eState \notin {PAGER_WRITER_FINISHED, PAGER_ERROR}

Update(p, r) == pager' = [pager EXCEPT ![p] = r.s] /\ store' = r.m

Becomes(p, s) == pager' = [pager EXCEPT ![p] = s] /\ UNCHANGED store

Writing(p) ==
    pager[p].eState \in PAGER_WRITER_LOCKED..PAGER_WRITER_DBMOD

Open(p, memDb) ==
    /\ May(p)
    /\ pager[p].eState = NOT_OPEN
    /\ \A q \in Pagers : IF memDb THEN pager[q].eState = NOT_OPEN
                                  ELSE ~pager[q].memDb
    /\ SavepointsAlone => \A q \in Pagers : pager[q].aSavepoint = <<>>
    /\ pager' = [pager EXCEPT ![p] = OpenedPager(memDb)]
    /\ store' = CASE memDb -> store
                  [] ~memDb /\ store.nRef = 0 -> Created(store.szMax)
                  [] OTHER -> Shared(store)

\* sqlite3PagerClose, between two transactions.
Close(p) ==
    /\ May(p)
    /\ pager[p].eState = IF pager[p].memDb THEN PAGER_READER ELSE PAGER_OPEN
    /\ pager' = [pager EXCEPT ![p] = NotOpen]
    /\ store' = IF pager[p].memDb THEN store ELSE Closed(store)

\* Mutant: the version of the file is not compared with the cache's.
BeginRead_TrustsCache(p) ==
    LET s == pager[p]
        reader == [s EXCEPT
            !.eState = PAGER_READER, !.eLock = SHARED_LOCK,
            !.hasHeldSharedLock = TRUE, !.dbSize = Len(store.pages)]
    IN  /\ May(p)
        /\ s.eState = PAGER_OPEN
        /\ LockOK(store, NO_LOCK, SHARED_LOCK)
        /\ pager' = [pager EXCEPT ![p] = Fetched(reader, store, 1)]
        /\ store' = Locked(store, NO_LOCK, SHARED_LOCK)

\* sqlite3PagerSharedLock, then lockBtree reads page 1.  A cache filled under
\* an earlier lock is kept if the change counter says the file is the same.
BeginRead(p) ==
    LET s == pager[p]
        stale == s.hasHeldSharedLock /\ s.dbFileVers # Read(store, 1).vers
        reader == [s EXCEPT
            !.eState = PAGER_READER, !.eLock = SHARED_LOCK,
            !.hasHeldSharedLock = TRUE, !.dbSize = Len(store.pages),
            !.cache = IF stale THEN <<>> ELSE @]
    IN  /\ May(p)
        /\ s.eState = PAGER_OPEN
        /\ LockOK(store, NO_LOCK, SHARED_LOCK)
        /\ pager' = [pager EXCEPT ![p] = Fetched(reader, store, 1)]
        /\ store' = Locked(store, NO_LOCK, SHARED_LOCK)

\* sqlite3PagerGet of a page of the image.
Get(p, n) ==
    /\ May(p)
    /\ pager[p].eState \in PAGER_READER..PAGER_WRITER_DBMOD
    /\ n \in 1..pager[p].dbSize \ DOMAIN pager[p].cache
    /\ Becomes(p, Fetched(pager[p], store, n))

\* The cache drops a clean page that nobody uses; page 1 is used by whoever
\* has a transaction, and the cache of a ":memory:" pager is kept whole.
Evict(p, n) ==
    LET s == pager[p]
    IN  /\ ~s.memDb
        /\ n \in DOMAIN s.cache /\ ~s.cache[n].dirty
        /\ n = 1 => s.eState = PAGER_OPEN
        /\ Becomes(p, [s EXCEPT !.cache =
                          [i \in DOMAIN @ \ {n} |-> @[i]]])

\* newDatabase: an empty image gets its page 1 at once.
NewDatabase(s, m) ==
    IF s.dbSize > 0 THEN s
    ELSE [PagerWrite(Fetched(s, m, 1), 1) EXCEPT
             !.cache[1].c = [val |-> 0, vers |-> [counter |-> 0, nPage |-> 1]]]

\* sqlite3BtreeBeginTrans, sqlite3PagerBegin; exFlag is BEGIN EXCLUSIVE.
BeginWrite(p, exFlag) ==
    LET s == pager[p]
        want == IF exFlag THEN EXCLUSIVE_LOCK ELSE RESERVED_LOCK
        writer == [s EXCEPT !.eState = PAGER_WRITER_LOCKED,
                            !.eLock = IF s.memDb THEN @ ELSE want,
                            !.dbOrigSize = s.dbSize, !.dbFileSize = s.dbSize]
    IN  /\ May(p)
        /\ s.eState = PAGER_READER
        /\ s.dbFileVers.counter < MaxVer
        /\ s.memDb \/ LockOK(store, s.eLock, want)
        /\ Turns => \A q \in Pagers \ {p} : pager[q].eLock = NO_LOCK
        /\ Update(p, [s |-> NewDatabase(writer, store),
                      m |-> IF s.memDb THEN store
                            ELSE Locked(store, s.eLock, want)])

\* The b-tree gets page n, makes it writable and changes its content.
Write(p, n, v) ==
    LET s == PagerWrite(Fetched(pager[p], store, n), n)
    IN  /\ May(p)
        /\ Writing(p)
        /\ n <= pager[p].dbSize /\ s.cache[n].c.val # v
        /\ Len(s.sub) <= MaxSub
        /\ Becomes(p, [s EXCEPT !.cache[n].c.val = v])

\* Mutant: page 1 counts the new page before its original is journalled.
Allocate_CountsFirst(p, v) ==
    LET n == pager[p].dbSize + 1
        one == Fetched(pager[p], store, 1)
        counted == PagerWrite([one EXCEPT !.cache[1].c.vers.nPage = n], 1)
        s == PagerWrite(Fetched(counted, store, n), n)
    IN  /\ May(p)
        /\ Writing(p)
        /\ n <= MaxPage
        /\ Len(s.sub) <= MaxSub
        /\ Becomes(p, [s EXCEPT !.cache[n].c.val = v])

\* allocateBtreePage at the end of the file: a new page n, and the number of
\* pages on page 1.
Allocate(p, v) ==
    LET n == pager[p].dbSize + 1
        one == PagerWrite(Fetched(pager[p], store, 1), 1)
        counted == [one EXCEPT !.cache[1].c.vers.nPage = n]
        s == PagerWrite(Fetched(counted, store, n), n)
    IN  /\ May(p)
        /\ Writing(p)
        /\ n <= MaxPage
        /\ Len(s.sub) <= MaxSub
        /\ Becomes(p, [s EXCEPT !.cache[n].c.val = v])

\* pagerStress: the cache is full, and page n is written before the commit.
\* If it does not fit, the pager is in error until its caller gives up.
Spill(p, n) ==
    LET s == pager[p]
        unsynced == s.cache[n].needSync \/ s.eState = PAGER_WRITER_CACHEMOD
        synced == IF unsynced THEN syncJournal(s, store)
                              ELSE [s |-> s, m |-> store]
        wrote == WritePages(synced.s, synced.m, {n})
    IN  /\ May(p)
        /\ s.eState \in {PAGER_WRITER_CACHEMOD, PAGER_WRITER_DBMOD} /\ ~s.memDb
        /\ n \in Dirty(s) \ {1}
        /\ wrote.ok \/ LateFull \/ s.eState = PAGER_WRITER_CACHEMOD
        /\ Update(p, [s |-> IF wrote.ok
                            THEN [wrote.s EXCEPT
                                     !.cache[n] = CleanPage(@.c)]
                            ELSE [wrote.s EXCEPT
                                     !.eState = PAGER_ERROR,
                                     !.dbFileSize = IF n > @ THEN n ELSE @],
                      m |-> wrote.m])

\* Mutant: the savepoint starts at the end of a journal one record longer.
Savepoint_OneTooFar(s) ==
    [nOrig |-> s.dbSize, iOffset |-> Len(s.journal) + 1, iSubRec |-> Len(s.sub),
     inSavepoint |-> {}, bTruncateOnRelease |-> TRUE]

\* pagerOpenSavepoint: where the journals are now.
Savepoint(s) ==
    [nOrig |-> s.dbSize, iOffset |-> Len(s.journal), iSubRec |-> Len(s.sub),
     inSavepoint |-> {}, bTruncateOnRelease |-> TRUE]

\* sqlite3PagerOpenSavepoint up to nSavepoint savepoints.
OpenSavepoint(p, nSavepoint) ==
    LET s == pager[p]
        more == nSavepoint - Len(s.aSavepoint)
    IN  /\ May(p) /\ Writing(p)
        /\ more > 0
        /\ SavepointsAlone =>
              /\ \A q \in Pagers \ {p} : pager[q].eState = NOT_OPEN
              /\ s.eLock = RESERVED_LOCK \/ s.memDb \/ s.eState = PAGER_WRITER_DBMOD
        /\ Becomes(p, [s EXCEPT !.aSavepoint =
                          @ \o [i \in 1..more |-> Savepoint(s)]])

\* sqlite3PagerSavepoint, SAVEPOINT_RELEASE: nNew savepoints stay.
ReleaseSavepoint(p, nNew) ==
    LET s == pager[p]
        rel == s.aSavepoint[nNew + 1]
    IN  /\ May(p) /\ Writing(p)
        /\ nNew < Len(s.aSavepoint)
        /\ Becomes(p, [s EXCEPT
               !.aSavepoint = SubSeq(@, 1, nNew),
               !.sub = IF rel.bTruncateOnRelease
                       THEN SubSeq(@, 1, rel.iSubRec) ELSE @])

\* sqlite3BtreeSavepoint, SAVEPOINT_ROLLBACK, with pagerPlaybackSavepoint: to
\* the last of the nNew savepoints that stay, or to the beginning.  If a page
\* does not fit, the statement fails and takes the transaction with it.
RollbackToSavepoint(p, nNew) ==
    LET s == pager[p]
        kept == [s EXCEPT !.aSavepoint = SubSeq(@, 1, nNew)]
        sp == s.aSavepoint[nNew]
        back == [kept EXCEPT
            !.dbSize = IF nNew = 0 THEN s.dbOrigSize ELSE sp.nOrig,
            !.changeCountDone = s.memDb]
        records == IF nNew = 0 THEN JournalFrom(s, 0)
                   ELSE JournalFrom(s, sp.iOffset) \o SubFrom(s, sp.iSubRec)
        played == Playback(back, store, records)
    IN  /\ May(p) /\ Writing(p)
        /\ nNew <= Len(s.aSavepoint)
        /\ CASE s.eState = PAGER_WRITER_LOCKED -> Becomes(p, kept)
             [] s.eState # PAGER_WRITER_LOCKED /\ played.ok ->
                    Update(p, [s |-> NewDatabase(played.s, played.m),
                               m |-> played.m])
             [] OTHER -> Update(p, RolledBack(played.s, played.m))

\* autoVacuumCommit: the image is cut to size pages before the commit.
Vacuumed(s, m, size) ==
    IF size = s.dbSize THEN s
    ELSE [PagerWrite(Fetched(s, m, 1), 1) EXCEPT
             !.cache[1].c.vers.nPage = size, !.dbSize = size]

\* sqlite3PagerCommitPhaseOne.  If a page does not fit, COMMIT fails and rolls
\* the transaction back.
CommitPhaseOne(p, size) ==
    LET s == Vacuumed(pager[p], store, size)
        done == PhaseOne(s, store)
    IN  /\ May(p)
        /\ pager[p].eState \in {PAGER_WRITER_CACHEMOD, PAGER_WRITER_DBMOD}
        /\ size <= pager[p].dbSize
        /\ CASE s.memDb ->
                    Becomes(p, [s EXCEPT !.eState = PAGER_WRITER_FINISHED])
             [] ~s.memDb /\ done.ok -> Update(p, [s |-> done.s, m |-> done.m])
             [] OTHER -> Update(p, RolledBack(done.s, done.m))

\* sqlite3PagerCommitPhaseTwo; a transaction that changed nothing skipped
\* phase one.
CommitPhaseTwo(p) ==
    /\ May(p)
    /\ pager[p].eState \in {PAGER_WRITER_LOCKED, PAGER_WRITER_FINISHED}
    /\ Update(p, Ended(pager[p], store, TRUE))

\* sqlite3PagerRollback.  After phase one: another database of the same
\* transaction failed to commit.
Rollback(p) ==
    /\ May(p)
    /\ pager[p].eState \in PAGER_WRITER_LOCKED..PAGER_WRITER_FINISHED
    /\ pager[p].eState = PAGER_WRITER_FINISHED /\ pager[p].dbOrigSize = 0
           => FirstUndone \/ pager[p].memDb
    /\ Update(p, RolledBack(pager[p], store))

\* pagerUnlockAndRollback, when the last page is given back: the end of a
\* read transaction, or of one that failed.
EndRead(p) ==
    /\ May(p)
    /\ pager[p].eState \in {PAGER_READER, PAGER_ERROR} /\ ~pager[p].memDb
    /\ Update(p, Unlocked(pager[p], store))

Init ==
    /\ pager = [p \in Pagers |-> NotOpen]
    /\ \E limit \in Limits : store = [Created(limit) EXCEPT !.nRef = 0]

Next ==
    \E p \in Pagers :
        \/ \E memDb \in BOOLEAN : Open(p, memDb)
        \/ Close(p) \/ BeginRead(p) \/ EndRead(p)
        \/ \E exFlag \in BOOLEAN : BeginWrite(p, exFlag)
        \/ \E n \in 1..MaxPage : Get(p, n) \/ Evict(p, n) \/ Spill(p, n)
        \/ \E n \in 1..MaxPage, v \in Vals : Write(p, n, v)
        \/ \E v \in Vals : Allocate(p, v)
        \/ \E n \in 1..MaxSavepoints : OpenSavepoint(p, n)
        \/ \E n \in 0..MaxSavepoints :
              ReleaseSavepoint(p, n) \/ RollbackToSavepoint(p, n)
        \/ \E size \in 1..MaxPage : CommitPhaseOne(p, size)
        \/ CommitPhaseTwo(p) \/ Rollback(p)

Spec == Init /\ [][Next]_vars
-----------------------------------------------------------------------------
(* Properties.                                                             *)

VersType == [counter : 0..MaxVer, nPage : 0..MaxPage]

Content == [val : Vals, vers : VersType]

PageType ==
    [c : Content, dirty : BOOLEAN, writeable : BOOLEAN, needSync : BOOLEAN]

IsRecords(records) ==
    \A i \in DOMAIN records :
        records[i].pgno \in 1..MaxPage /\ records[i].c \in Content

SavepointType ==
    [nOrig : 0..MaxPage, iOffset : 0..MaxPage, iSubRec : 0..(MaxSub + 1),
     inSavepoint : SUBSET (1..MaxPage), bTruncateOnRelease : BOOLEAN]

\* assert_pager_state: which lock and which sizes go with each state.
StateAssertions(s) ==
    CASE s.eState = NOT_OPEN -> s = NotOpen
      [] s.eState = PAGER_OPEN -> s.eLock = NO_LOCK /\ ~s.memDb
      [] s.eState = PAGER_READER -> s.eLock >= SHARED_LOCK
      [] s.eState = PAGER_WRITER_LOCKED ->
            /\ s.eLock >= RESERVED_LOCK
            /\ s.dbSize = s.dbOrigSize /\ s.dbOrigSize = s.dbFileSize
      [] s.eState = PAGER_WRITER_CACHEMOD ->
            s.eLock >= RESERVED_LOCK /\ s.dbOrigSize = s.dbFileSize
      [] OTHER -> s.eLock = EXCLUSIVE_LOCK

\* The pagers and the store have their types, and every pager the lock and
\* the sizes that assert_pager_state demands in its state.
TypeOK ==
    /\ DOMAIN pager = Pagers
    /\ \A p \in Pagers :
        LET s == pager[p]
        IN  /\ s.eState \in NOT_OPEN..PAGER_ERROR
            /\ s.eLock \in {NO_LOCK, SHARED_LOCK, RESERVED_LOCK, EXCLUSIVE_LOCK}
            /\ {s.memDb, s.hasHeldSharedLock, s.changeCountDone} \subseteq BOOLEAN
            /\ {s.dbSize, s.dbOrigSize, s.dbFileSize} \subseteq 0..MaxPage
            /\ s.dbFileVers \in VersType
            /\ DOMAIN s.cache \subseteq 1..MaxPage
            /\ \A n \in DOMAIN s.cache : s.cache[n] \in PageType
            /\ IsRecords(s.journal) /\ s.journalHdr \in 0..Len(s.journal)
            /\ IsRecords(s.sub)
            /\ \A i \in DOMAIN s.aSavepoint : s.aSavepoint[i] \in SavepointType
            /\ StateAssertions(s)
    /\ \A n \in DOMAIN store.pages : store.pages[n] \in Content
    /\ Len(store.pages) <= store.szMax

\* The store's counters are what its users hold: one reference per open
\* pager, one read lock per pager with a lock, one write lock at most, and
\* held by the one pager that may write (memdbLock, memdbOpen, memdbClose).
LocksAgree ==
    LET users(S) == {p \in Pagers : ~pager[p].memDb /\ pager[p].eState \in S}
        holders(k) == {p \in Pagers : ~pager[p].memDb /\ pager[p].eLock >= k}
    IN  /\ store.nRef = Cardinality(users(PAGER_OPEN..PAGER_ERROR))
        /\ store.nRdLock = Cardinality(holders(SHARED_LOCK))
        /\ store.nWrLock = Cardinality(holders(RESERVED_LOCK))
        /\ holders(RESERVED_LOCK)
              = users(PAGER_WRITER_LOCKED..PAGER_ERROR)

Original(s, n) ==
    s.journal[CHOOSE i \in DOMAIN s.journal : s.journal[i].pgno = n].c

\* A page of the original database that may be overwritten, because it waits
\* for no journal, has a record in the part of the journal a rollback will
\* copy back to the file; and a page that was overwritten has one there too
\* (pager_write against pagerStress and pager_playback_one_page).
WriteAhead ==
    \A p \in Pagers :
        LET s == pager[p]
            synced == PagesIn(SubSeq(s.journal, 1, s.journalHdr))
        IN  s.eState \in PAGER_WRITER_DBMOD..PAGER_ERROR /\ ~s.memDb =>
            \A n \in 1..s.dbOrigSize :
                (\/ n \in Dirty(s) /\ ~s.cache[n].needSync
                 \/ n \in InJournal(s) /\ Read(store, n) # Original(s, n))
                => n \in synced

\* In a transaction, a clean page of the image is what the store holds:
\* nobody else has changed the store since, and no playback changed one
\* without the other.  A reader has only clean pages, so it reads one image.
CacheCoherent ==
    \A p \in Pagers :
        LET s == pager[p]
        IN  s.eState \in PAGER_READER..PAGER_WRITER_FINISHED /\ ~s.memDb =>
            \A n \in DOMAIN s.cache \cap 1..s.dbSize :
                ~s.cache[n].dirty => s.cache[n].c = Read(store, n)

\* Between transactions a pager keeps its cache.  If the counter it remembers
\* is the one in the file, the cache is what the file holds, so not reading
\* it again (sqlite3PagerSharedLock) is right.
UnchangedMeansFresh ==
    \A p \in Pagers :
        LET s == pager[p]
        IN  s.eState = PAGER_OPEN /\ s.hasHeldSharedLock
                /\ store.nWrLock = 0
                /\ s.dbFileVers = Read(store, 1).vers
            => \A n \in DOMAIN s.cache : s.cache[n].c = Read(store, n)

\* The number of pages that page 1 gives is the size of the image, also after
\* a rollback to a savepoint, from where the b-tree reads it (btreeSetNPage).
HeaderAgrees ==
    \A p \in Pagers :
        LET s == pager[p]
        IN  s.eState \in PAGER_READER..PAGER_WRITER_FINISHED
                /\ 1 \in DOMAIN s.cache
            => s.cache[1].c.vers.nPage = s.dbSize

\* When a pager leaves the error state, the file is what it was when the
\* transaction began (pagerStress, pager_error, pager_unlock).
FailureRestores ==
    [][\A p \in Pagers :
          pager[p].eState = PAGER_ERROR /\ pager'[p].eState = PAGER_OPEN
          => /\ Len(store'.pages) = pager[p].dbOrigSize
             /\ \A n \in InJournal(pager[p]) :
                    Read(store', n) = Original(pager[p], n)]_vars
-----------------------------------------------------------------------------
(* The pagers implement module Store.                                      *)

\* What pager s sees on page n, and its image.
Sees(s, n) ==
    IF n \in DOMAIN s.cache THEN s.cache[n].c.val
    ELSE IF s.memDb THEN Zero.val ELSE Read(store, n).val

ImageOf(s) == [n \in 1..s.dbSize |-> Sees(s, n)]

\* The image a rollback of s restores: originals over what it sees.
OriginalImage(s) ==
    [n \in 1..s.dbOrigSize |->
        IF n \in InJournal(s) THEN Original(s, n).val ELSE Sees(s, n)]

\* The image savepoint sp of s restores.
SavedImage(s, sp) ==
    LET records == SubSeq(s.journal, sp.iOffset + 1, Len(s.journal))
                   \o SubSeq(s.sub, sp.iSubRec + 1, Len(s.sub))
        Saved(n) == SelectInSeq(records, LAMBDA r : r.pgno = n)
    IN  [n \in 1..sp.nOrig |->
            LET i == Saved(n)
            IN  IF i = 0 THEN Sees(s, n) ELSE records[i].c.val]

HasTransaction(p) ==
    pager[p].eState \in PAGER_WRITER_LOCKED..PAGER_ERROR

TheOwner ==
    IF \E p \in Pagers : HasTransaction(p)
    THEN CHOOSE p \in Pagers : HasTransaction(p) ELSE None

Committed ==
    LET owner == TheOwner
        private == {p \in Pagers : pager[p].memDb}
    IN  CASE owner # None -> OriginalImage(pager[owner])
          [] owner = None /\ private # {} ->
                ImageOf(pager[CHOOSE p \in private : TRUE])
          [] OTHER -> [n \in DOMAIN store.pages |-> store.pages[n].val]

Working ==
    LET owner == TheOwner
    IN  IF owner = None THEN <<>> ELSE ImageOf(pager[owner])

Marks ==
    LET owner == TheOwner
    IN  IF owner = None THEN <<>>
        ELSE IF pager[owner].eState = PAGER_WRITER_FINISHED THEN <<>>
        ELSE [i \in DOMAIN pager[owner].aSavepoint |->
                 SavedImage(pager[owner], pager[owner].aSavepoint[i])]

AllImages == UNION {[1..n -> Vals] : n \in 0..MaxPage}

TheStore == INSTANCE Store WITH
    Clients <- Pagers,
    Images <- AllImages,
    Blank <- <<Zero.val>>,
    db <- Committed,
    owner <- TheOwner,
    work <- Working,
    marks <- Marks

\* A transaction becomes visible to the others in one step, at the end of its
\* commit, and until then a rollback, whenever it comes and however much has
\* been written to the store, restores what was there before; and so does a
\* rollback to a savepoint (CommitPhaseOne and Two, pager_playback,
\* pagerPlaybackSavepoint against every order of writes, spills and marks).
ImplementsStore == TheStore!Spec
=============================================================================
