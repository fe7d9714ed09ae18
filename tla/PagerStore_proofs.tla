------------------------- MODULE PagerStore_proofs --------------------------
(***************************************************************************)
(* What every pager and the store hold together, for every number of       *)
(* pagers, pages, savepoints and records: THEOREMS JournalGoesFirst,       *)
(* CachesAreCoherent, VersionTellsFreshness, HeadersAgree;                 *)
(* and that all that is seen of it is a Store: PagerImplementsStore.       *)
(*                                                                         *)
(* The argument.  CommittedIs(B) says that B is the database last          *)
(* committed.  If nobody has a write transaction, the store holds it; if   *)
(* somebody has one, every other pager is closed or waits, and the owner   *)
(* stands to B as Pager_proofs says (Tx, Done or Broken, by its            *)
(* state).  A reader has pages of B in its cache (Reads), and a pager that *)
(* waits has them if the version it remembers is B's (Fresh): the counter  *)
(* in B is never behind the one a pager remembers, and a commit passes     *)
(* them all, so that an old cache cannot be taken for a new one.  StoreOK, *)
(* that some B is committed, is inductive on top of DataInv: a call leaves *)
(* B as it is, except the end of a commit, which makes the owner's image   *)
(* the new B.                                                              *)
(*                                                                         *)
(* Playing back is followed on its own (Overlaid, Underlaid): the first    *)
(* record of a page counts, and the page gets it in the cache and, if the  *)
(* record is safe, in the store.  A record that is not safe is of a page   *)
(* the store still holds as B does, by Logged.  So rolling back leaves the *)
(* store as B (Restored).                                                  *)
(*                                                                         *)
(* The refinement.  The store that is seen is Committed: the image of B    *)
(* (Img); Working: the owner's image (ImageIn); Marks: the images its      *)
(* savepoints go back to (MarksIn).  Each action has a lemma that it is a  *)
(* step of Store or none (OpenRefines ... RollbackRefines).  What Carries  *)
(* says a step keeps of the savepoints is that it keeps the marks.         *)
(*                                                                         *)
(* Three assumptions are needed, and for each a run has a behaviour that   *)
(* breaks a property without it.  Turns: a writer may be committing while  *)
(* another reads (run shared).  ~FirstUndone: an empty store whose         *)
(* first transaction is undone after phase one keeps counter 0 while       *)
(* pagers remember a version (run fresh).  ~LateFull: a spill that         *)
(* finds the store full after the store was changed leaves it changed (run *)
(* spill_full).                                                            *)
(***************************************************************************)
EXTENDS Pager_proofs

USE DEF NO_LOCK, SHARED_LOCK, RESERVED_LOCK, EXCLUSIVE_LOCK, NOT_OPEN,
        PAGER_OPEN, PAGER_READER, PAGER_WRITER_LOCKED, PAGER_WRITER_CACHEMOD,
        PAGER_WRITER_DBMOD, PAGER_WRITER_FINISHED, PAGER_ERROR

-----------------------------------------------------------------------------
(* Playing back the journals.                                              *)

\* A record of the sub-journal may be copied to the file.
SubSafe(s, n) == n \notin DOMAIN s.cache \/ ~s.cache[n].needSync

\* R are the records of the journal after k, then of the sub-journal after j.
IsReplay(s, k, j, R) ==
    LET a == Len(s.journal) - k
    IN  /\ k \in 0..Len(s.journal) /\ j \in 0..Len(s.sub)
        /\ R \in Seq(PlayType) /\ DOMAIN R = 1..(a + (Len(s.sub) - j))
        /\ \A x \in 1..a : /\ R[x].pgno = s.journal[k + x].pgno
                           /\ R[x].c = s.journal[k + x].c
                           /\ R[x].safe = (k + x <= s.journalHdr)
        /\ \A x \in 1..(Len(s.sub) - j) :
              /\ R[a + x].pgno = s.sub[j + x].pgno
              /\ R[a + x].c = s.sub[j + x].c
              /\ R[a + x].safe = SubSafe(s, s.sub[j + x].pgno)

\* The whole journal alone is a replay: the one of pager_playback().
LEMMA WholeJournal ==
    ASSUME NEW s, Typed(s)
    PROVE  IsReplay(s, 0, Len(s.sub), JournalFrom(s, 0))
<1> DEFINE R == JournalFrom(s, 0)
<1>1. Len(s.journal) \in Nat /\ Len(s.sub) \in Nat
  BY JournalDomains
<1>2. 0 \in 0..Len(s.journal) /\ Len(s.sub) \in 0..Len(s.sub)
  BY <1>1
<1>3. /\ R \in Seq(PlayType) /\ Len(R) = Len(s.journal) - 0
      /\ \A i \in 1..(Len(s.journal) - 0) :
            /\ R[i].pgno = s.journal[0 + i].pgno
            /\ R[i].c = s.journal[0 + i].c
            /\ R[i].safe = (0 + i <= s.journalHdr)
  BY <1>2, JournalFromFacts
<1> HIDE DEF R
<1>4. DOMAIN R = 1..((Len(s.journal) - 0) + (Len(s.sub) - Len(s.sub)))
  <2>1. DOMAIN R = 1..Len(R)
    BY <1>3, LenProperties
  <2> QED
    BY <1>1, <1>3, <2>1
<1>5. 1..(Len(s.sub) - Len(s.sub)) = {}
  BY <1>1
<1>6. IsReplay(s, 0, Len(s.sub), R)
  BY <1>2, <1>3, <1>4, <1>5 DEF IsReplay
<1> QED
  BY <1>6 DEF R

\* A tail of both journals is a replay: the one of pagerPlaybackSavepoint().
LEMMA BothJournals ==
    ASSUME NEW s, Typed(s), NEW k \in 0..Len(s.journal), NEW j \in 0..Len(s.sub)
    PROVE  IsReplay(s, k, j, JournalFrom(s, k) \o SubFrom(s, j))
<1> DEFINE a == JournalFrom(s, k)
           b == SubFrom(s, j)
           R == a \o b
           m == Len(s.journal) - k
           n == Len(s.sub) - j
<1>1. Len(s.journal) \in Nat /\ Len(s.sub) \in Nat /\ m \in Nat /\ n \in Nat
  BY JournalDomains
<1>2. /\ a \in Seq(PlayType) /\ Len(a) = m
      /\ \A i \in 1..m : /\ a[i].pgno = s.journal[k + i].pgno
                         /\ a[i].c = s.journal[k + i].c
                         /\ a[i].safe = (k + i <= s.journalHdr)
  BY JournalFromFacts
<1>3. /\ b \in Seq(PlayType) /\ Len(b) = n
      /\ \A i \in 1..n : /\ b[i].pgno = s.sub[j + i].pgno
                         /\ b[i].c = s.sub[j + i].c
                         /\ b[i].safe = SubSafe(s, s.sub[j + i].pgno)
  BY SubFromFacts DEF SubSafe
<1> HIDE DEF a, b
<1>4. /\ R \in Seq(PlayType) /\ Len(R) = Len(a) + Len(b)
      /\ \A i \in 1..(Len(a) + Len(b)) :
            R[i] = IF i <= Len(a) THEN a[i] ELSE b[i - Len(a)]
  BY <1>2, <1>3, ConcatProperties
<1> HIDE DEF R
<1>5. DOMAIN R = 1..(m + n)
  <2>1. DOMAIN R = 1..Len(R)
    BY <1>4, LenProperties
  <2> QED
    BY <1>2, <1>3, <1>4, <2>1
<1>6. \A i \in 1..m : R[i] = a[i]
  <2> HIDE DEF m, n
  <2> QED
    BY <1>1, <1>2, <1>3, <1>4
<1>7. \A i \in 1..n : R[m + i] = b[i]
  <2> HIDE DEF m, n
  <2> SUFFICES ASSUME NEW i \in 1..n PROVE R[m + i] = b[i]
    OBVIOUS
  <2>1. m + i \in 1..(m + n) /\ ~(m + i <= m) /\ (m + i) - m = i
    BY <1>1
  <2> QED
    BY <2>1, <1>2, <1>3, <1>4
<1>8. IsReplay(s, k, j, R)
  BY <1>2, <1>3, <1>4, <1>5, <1>6, <1>7 DEF IsReplay
<1> QED
  BY <1>8 DEF R, a, b

\* Positions after k of J, and in a list of a and then b.
LEMMA Shifts ==
    ASSUME NEW J \in Nat, NEW k \in 0..J
    PROVE  /\ J - k \in Nat
           /\ \A i \in 1..J : i > k => i - k \in 1..(J - k) /\ k + (i - k) = i
           /\ \A x \in 1..(J - k) : k + x \in 1..J /\ k + x > k
  OBVIOUS

\* The two parts of the domain of a concatenation.
LEMMA Parts ==
    ASSUME NEW a \in Nat, NEW b \in Nat
    PROVE  /\ \A x \in 1..a : x \in 1..(a + b)
           /\ \A y \in 1..b : a + y \in 1..(a + b)
           /\ \A x \in 1..(a + b) :
                 ~(x <= a) => x - a \in 1..b /\ a + (x - a) = x
  OBVIOUS

\* The first record of a page is the one of the journal, if it has one.
Replayed(R, n, c, safe) ==
    n \in PagesIn(R) /\ First(R, n).c = c /\ First(R, n).safe = safe

\* A replayed journal record is the first one of its page: it is the original.
LEMMA ReplayedJournal ==
    ASSUME NEW s, Typed(s), JournalOK(s), NEW k, NEW j, NEW R,
           IsReplay(s, k, j, R), NEW i \in DOMAIN s.journal, i > k
    PROVE  Replayed(R, s.journal[i].pgno, s.journal[i].c, i <= s.journalHdr)
<1> DEFINE n == s.journal[i].pgno
           a == Len(s.journal) - k
           b == Len(s.sub) - j
           f == First(R, n)
<1>0. k \in 0..Len(s.journal) /\ j \in 0..Len(s.sub) /\ DOMAIN R = 1..(a + b)
  BY DEF IsReplay
<1>1. /\ k \in 0..Len(s.journal) /\ j \in 0..Len(s.sub)
      /\ R \in Seq(PlayType) /\ DOMAIN R = 1..(a + b)
      /\ \A x \in 1..a : /\ R[x].pgno = s.journal[k + x].pgno
                         /\ R[x].c = s.journal[k + x].c
                         /\ R[x].safe = (k + x <= s.journalHdr)
  BY DEF IsReplay
<1>2. /\ Len(s.journal) \in Nat /\ DOMAIN s.journal = 1..Len(s.journal)
      /\ Len(s.sub) \in Nat
  BY JournalDomains
<1>20. /\ a \in Nat
       /\ \A z \in 1..Len(s.journal) : z > k => z - k \in 1..a /\ k + (z - k) = z
       /\ \A z \in 1..a : k + z \in 1..Len(s.journal) /\ k + z > k
  BY <1>0, <1>2, Shifts
<1>21. /\ b \in Nat
       /\ \A z \in 1..Len(s.sub) : z > j => z - j \in 1..b /\ j + (z - j) = z
       /\ \A z \in 1..b : j + z \in 1..Len(s.sub) /\ j + z > j
  BY <1>0, <1>2, Shifts
<1>22. /\ \A z \in 1..a : z \in 1..(a + b)
       /\ \A z \in 1..b : a + z \in 1..(a + b)
       /\ \A z \in 1..(a + b) : ~(z <= a) => z - a \in 1..b /\ a + (z - a) = z
  BY <1>20, <1>21, Parts
<1> HIDE DEF a, b
<1>3. a \in Nat /\ b \in Nat /\ i - k \in 1..a /\ k + (i - k) = i
      /\ i - k \in 1..(a + b)
  BY <1>2, <1>20, <1>21, <1>22
<1>4. R[i - k].pgno = n /\ i - k \in DOMAIN R
  <2> HIDE DEF a, b
  <2>1. R[i - k].pgno = s.journal[k + (i - k)].pgno
    BY <1>1, <1>3
  <2> QED
    BY <1>0, <1>3, <2>1
<1>5. n \in PagesIn(R)
  BY <1>4 DEF PagesIn
<1>6. PICK x \in DOMAIN R : f = R[x] /\ \A y \in DOMAIN R : R[y].pgno = n => x <= y
  BY <1>1, <1>5, FirstFacts
<1>7. f.pgno = n
  BY <1>1, <1>5, FirstFacts
<1> HIDE DEF f
<1>8. x \in 1..a
  <2>1. x <= i - k
    BY <1>4, <1>6
  <2>2. x \in 1..(a + b)
    BY <1>0
  <2> QED
    BY ONLY <1>3, <2>1, <2>2
<1>9. k + x \in DOMAIN s.journal
  BY <1>2, <1>8, <1>20
<1>10. s.journal[k + x].pgno = s.journal[i].pgno
  BY <1>1, <1>6, <1>7, <1>8
<1>11. k + x = i
  BY <1>9, <1>10 DEF JournalOK
<1>12. f.c = s.journal[i].c /\ f.safe = (i <= s.journalHdr)
  <2> HIDE DEF a, b
  <2>1. f = R[x] /\ R[x].c = s.journal[k + x].c
        /\ R[x].safe = (k + x <= s.journalHdr)
    BY <1>1, <1>6, <1>8
  <2> QED
    BY ONLY <2>1, <1>11
<1> QED
  BY <1>5, <1>12 DEF Replayed, f

\* Otherwise it is the first of the sub-journal.
LEMMA ReplayedSub ==
    ASSUME NEW s, Typed(s), NEW k, NEW j, NEW R, IsReplay(s, k, j, R),
           NEW n \in PagesIn(R),
           \A i \in DOMAIN s.journal : i > k => s.journal[i].pgno # n
    PROVE  \E i \in DOMAIN s.sub :
              /\ i > j /\ s.sub[i].pgno = n
              /\ Replayed(R, n, s.sub[i].c, SubSafe(s, n))
              /\ \A l \in DOMAIN s.sub : l > j /\ s.sub[l].pgno = n => i <= l
<1> DEFINE a == Len(s.journal) - k
           b == Len(s.sub) - j
           f == First(R, n)
<1>0. k \in 0..Len(s.journal) /\ j \in 0..Len(s.sub) /\ DOMAIN R = 1..(a + b)
  BY DEF IsReplay
<1>1. /\ k \in 0..Len(s.journal) /\ j \in 0..Len(s.sub)
      /\ R \in Seq(PlayType) /\ DOMAIN R = 1..(a + b)
      /\ \A x \in 1..a : R[x].pgno = s.journal[k + x].pgno
      /\ \A x \in 1..b : /\ R[a + x].pgno = s.sub[j + x].pgno
                         /\ R[a + x].c = s.sub[j + x].c
                         /\ R[a + x].safe = SubSafe(s, s.sub[j + x].pgno)
  BY DEF IsReplay
<1>2. /\ Len(s.journal) \in Nat /\ DOMAIN s.journal = 1..Len(s.journal)
      /\ Len(s.sub) \in Nat /\ DOMAIN s.sub = 1..Len(s.sub)
  BY JournalDomains
<1>20. /\ a \in Nat
       /\ \A z \in 1..Len(s.journal) : z > k => z - k \in 1..a /\ k + (z - k) = z
       /\ \A z \in 1..a : k + z \in 1..Len(s.journal) /\ k + z > k
  BY <1>0, <1>2, Shifts
<1>21. /\ b \in Nat
       /\ \A z \in 1..Len(s.sub) : z > j => z - j \in 1..b /\ j + (z - j) = z
       /\ \A z \in 1..b : j + z \in 1..Len(s.sub) /\ j + z > j
  BY <1>0, <1>2, Shifts
<1>22. /\ \A z \in 1..a : z \in 1..(a + b)
       /\ \A z \in 1..b : a + z \in 1..(a + b)
       /\ \A z \in 1..(a + b) : ~(z <= a) => z - a \in 1..b /\ a + (z - a) = z
  BY <1>20, <1>21, Parts
<1> HIDE DEF a, b
<1>3. a \in Nat /\ b \in Nat
  BY <1>20, <1>21
<1>6. PICK x \in DOMAIN R : f = R[x] /\ \A y \in DOMAIN R : R[y].pgno = n => x <= y
  BY <1>1, FirstFacts
<1>7. f.pgno = n
  BY <1>1, FirstFacts
<1> HIDE DEF f
<1>8. ~(x <= a)
  <2> SUFFICES ASSUME x <= a PROVE FALSE
    OBVIOUS
  <2>1. x \in 1..a
    BY <1>0, <1>3
  <2>2. k + x \in DOMAIN s.journal /\ k + x > k
    BY <1>2, <1>20, <2>1
  <2>3. s.journal[k + x].pgno = n
    BY <1>1, <1>6, <1>7, <2>1
  <2> QED
    BY <2>2, <2>3
<1> DEFINE u == x - a
           i == j + u
<1>9. u \in 1..b /\ a + u = x
  BY <1>0, <1>8, <1>22
<1>10. i \in DOMAIN s.sub /\ i > j
  BY <1>2, <1>9, <1>21
<1>11. /\ R[x].pgno = s.sub[i].pgno /\ R[x].c = s.sub[i].c
       /\ R[x].safe = SubSafe(s, s.sub[i].pgno)
  <2>1. \A z \in 1..b : /\ R[a + z].pgno = s.sub[j + z].pgno
                        /\ R[a + z].c = s.sub[j + z].c
                        /\ R[a + z].safe = SubSafe(s, s.sub[j + z].pgno)
    BY <1>1
  <2> HIDE DEF a, b, u
  <2> QED
    BY <2>1, <1>9
<1>12. s.sub[i].pgno = n /\ f.c = s.sub[i].c /\ f.safe = SubSafe(s, n)
  <2> HIDE DEF i, u, a, b
  <2> QED
    BY <1>6, <1>7, <1>11
<1>13. ASSUME NEW l \in DOMAIN s.sub, l > j, s.sub[l].pgno = n
       PROVE  i <= l
  <2>1. l - j \in 1..b /\ j + (l - j) = l /\ a + (l - j) \in DOMAIN R
    BY <1>0, <1>2, <1>13, <1>21, <1>22
  <2>2. R[a + (l - j)].pgno = n
    <3> HIDE DEF a, b
    <3>1. R[a + (l - j)].pgno = s.sub[j + (l - j)].pgno
      BY <1>1, <2>1
    <3> QED
      BY <1>13, <2>1, <3>1
  <2>3. x <= a + (l - j)
    BY <1>6, <2>1, <2>2
  <2> QED
    <3> DEFINE v == l - j
    <3>1. u \in Nat /\ v \in Nat /\ a \in Nat /\ j \in Nat
      <4>1. v \in Nat /\ u \in Nat
        BY ONLY <1>3, <1>9, <2>1
      <4>2. j \in Nat
        BY ONLY <1>0, <1>2
      <4> QED
        BY ONLY <1>3, <4>1, <4>2
    <3>2. a + u <= a + v /\ j + v = l
      BY <1>9, <2>1, <2>3
    <3> HIDE DEF u, v
    <3>3. u <= v
      BY ONLY <3>1, <3>2
    <3> QED
      BY ONLY <3>1, <3>2, <3>3
<1>14. Replayed(R, n, s.sub[i].c, SubSafe(s, n))
  BY <1>12 DEF Replayed, f
<1> HIDE DEF i
<1> QED
  BY <1>10, <1>12, <1>13, <1>14

\* Every record of the two journals after k and j is in R.
LEMMA ReplayPages ==
    ASSUME NEW s, Typed(s), NEW k, NEW j, NEW R, IsReplay(s, k, j, R),
           NEW n \in PagesIn(R)
    PROVE  \/ \E i \in DOMAIN s.journal : i > k /\ s.journal[i].pgno = n
           \/ \E i \in DOMAIN s.sub : i > j /\ s.sub[i].pgno = n
  BY ReplayedSub

\* Every page with a replayed sub-journal record is played back.
LEMMA SubInReplay ==
    ASSUME NEW s, Typed(s), NEW k, NEW j, NEW R, IsReplay(s, k, j, R),
           NEW i \in DOMAIN s.sub, i > j
    PROVE  s.sub[i].pgno \in PagesIn(R)
<1> DEFINE a == Len(s.journal) - k
           b == Len(s.sub) - j
<1>0. k \in 0..Len(s.journal) /\ j \in 0..Len(s.sub) /\ DOMAIN R = 1..(a + b)
  BY DEF IsReplay
<1>1. /\ k \in 0..Len(s.journal) /\ j \in 0..Len(s.sub)
      /\ DOMAIN R = 1..(a + b)
      /\ \A x \in 1..b : R[a + x].pgno = s.sub[j + x].pgno
  BY DEF IsReplay
<1>2. /\ Len(s.journal) \in Nat /\ Len(s.sub) \in Nat
      /\ DOMAIN s.sub = 1..Len(s.sub)
  BY JournalDomains
<1>20. /\ a \in Nat
       /\ \A z \in 1..Len(s.journal) : z > k => z - k \in 1..a /\ k + (z - k) = z
       /\ \A z \in 1..a : k + z \in 1..Len(s.journal) /\ k + z > k
  BY <1>0, <1>2, Shifts
<1>21. /\ b \in Nat
       /\ \A z \in 1..Len(s.sub) : z > j => z - j \in 1..b /\ j + (z - j) = z
       /\ \A z \in 1..b : j + z \in 1..Len(s.sub) /\ j + z > j
  BY <1>0, <1>2, Shifts
<1>22. /\ \A z \in 1..a : z \in 1..(a + b)
       /\ \A z \in 1..b : a + z \in 1..(a + b)
       /\ \A z \in 1..(a + b) : ~(z <= a) => z - a \in 1..b /\ a + (z - a) = z
  BY <1>20, <1>21, Parts
<1> HIDE DEF a, b
<1>3. i - j \in 1..b /\ j + (i - j) = i /\ a + (i - j) \in DOMAIN R
  BY <1>0, <1>2, <1>21, <1>22
<1>4. R[a + (i - j)].pgno = s.sub[i].pgno
  <2> HIDE DEF a, b
  <2>1. R[a + (i - j)].pgno = s.sub[j + (i - j)].pgno
    BY <1>1, <1>3
  <2> QED
    BY <1>3, <2>1
<1> QED
  BY <1>3, <1>4 DEF PagesIn
-----------------------------------------------------------------------------
(* What a playback leaves.                                                 *)

\* The contents after r, the playback of R over s and m.
Overlaid(s, m, R, r) ==
    /\ DOMAIN r.s.cache = DOMAIN s.cache
    /\ \A n \in DOMAIN s.cache :
          /\ r.s.cache[n].c = IF n \in Pages(s, R)
                              THEN First(R, n).c ELSE s.cache[n].c
          /\ r.s.cache[n].dirty = s.cache[n].dirty
          /\ r.s.cache[n].needSync = s.cache[n].needSync
    /\ \A n \in 1..MaxPage :
          Read(r.m, n) = IF n \in StoredPages(s, R)
                         THEN First(R, n).c ELSE Read(m, n)
    /\ Len(r.m.pages) = Max(StoredPages(s, R) \cup {Len(m.pages)})
    /\ r.s.dbFileSize = Max(StoredPages(s, R) \cup {s.dbFileSize})
    /\ r.s.dbFileVers = IF 1 \in Pages(s, R)
                        THEN First(R, 1).c.vers ELSE s.dbFileVers

\* What a playback does not touch.
Underlaid(s, m, r) ==
    /\ Typed(r.s) /\ StoreTyped(r.m) /\ r.m.szMax = m.szMax
    /\ r.s.journal = s.journal /\ r.s.journalHdr = s.journalHdr
    /\ r.s.sub = s.sub /\ r.s.aSavepoint = s.aSavepoint
    /\ r.s.eState = s.eState /\ r.s.memDb = s.memDb
    /\ r.s.hasHeldSharedLock = s.hasHeldSharedLock
    /\ r.s.dbSize = s.dbSize /\ r.s.dbOrigSize = s.dbOrigSize

\* A playback gives each of its pages the content of its first record.
LEMMA PlaybackOverlays ==
    ASSUME NEW s, Typed(s), NEW m, StoreTyped(m), NEW R \in Seq(PlayType),
           NEW r, r = Playback(s, m, R)
    PROVE  Overlaid(s, m, R, r) /\ Underlaid(s, m, r)
<1>1. Plays(s, m, R, r)
  BY PlaybackFacts
<1>2. StoredPages(s, R) \in SUBSET (1..MaxPage)
  <2>1. s.dbSize \in 0..MaxPage /\ MaxPage \in Nat
    BY Sizes
  <2>2. 1..s.dbSize \subseteq 1..MaxPage
    BY <2>1
  <2> QED
    BY <2>2 DEF StoredPages, Pages
<1>3. \A n \in StoredPages(s, R) : First(R, n).c \in Content
  <2>1. \A n \in StoredPages(s, R) : n \in PagesIn(R)
    BY DEF StoredPages, Pages
  <2>2. \A n \in StoredPages(s, R) : First(R, n) \in PlayType
    BY <2>1, FirstFacts
  <2> QED
    BY <2>2 DEF PlayType
<1>4. r.m = Written(m, StoredPages(s, R),
                    [n \in StoredPages(s, R) |-> First(R, n).c])
  BY <1>1 DEF Plays
<1>5. /\ \A n \in 1..MaxPage :
            Read(r.m, n) = IF n \in StoredPages(s, R)
                           THEN First(R, n).c ELSE Read(m, n)
      /\ Len(r.m.pages) = Max(StoredPages(s, R) \cup {Len(m.pages)})
  <2> DEFINE W == StoredPages(s, R)
             f == [n \in W |-> First(R, n).c]
  <2>1. \A n \in W : f[n] = First(R, n).c /\ f[n] \in Content
    BY <1>3
  <2>2. W \in SUBSET (1..MaxPage) /\ r.m = Written(m, W, f)
    BY <1>2, <1>4
  <2> HIDE DEF f, W
  <2>3. /\ \A n \in 1..MaxPage : Read(r.m, n)
                = IF n \in W THEN f[n] ELSE Read(m, n)
        /\ Len(r.m.pages) = Max(W \cup {Len(m.pages)})
    <3>1. \A n \in W : f[n] \in Content
      BY <2>1
    <3>2. W \in SUBSET (1..MaxPage)
      BY <2>2
    <3>3. /\ \A n \in 1..MaxPage : Read(Written(m, W, f), n)
                  = IF n \in W THEN f[n] ELSE Read(m, n)
          /\ Len(Written(m, W, f).pages) = Max(W \cup {Len(m.pages)})
          /\ SameLimit(m, Written(m, W, f))
      BY ONLY StoreTyped(m), <3>1, <3>2, ReadWritten, Zenon
    <3> QED
      BY ONLY <2>2, <3>3
  <2>4. \A n \in 1..MaxPage :
            Read(r.m, n) = IF n \in W THEN First(R, n).c ELSE Read(m, n)
    BY <2>1, <2>3
  <2> QED
    BY <2>3, <2>4 DEF W
<1>6. \A n \in DOMAIN s.cache :
          /\ r.s.cache[n].c = IF n \in Pages(s, R)
                              THEN First(R, n).c ELSE s.cache[n].c
          /\ r.s.cache[n].dirty = s.cache[n].dirty
          /\ r.s.cache[n].needSync = s.cache[n].needSync
  <2> SUFFICES ASSUME NEW n \in DOMAIN s.cache
               PROVE  /\ r.s.cache[n].c = IF n \in Pages(s, R)
                              THEN First(R, n).c ELSE s.cache[n].c
                      /\ r.s.cache[n].dirty = s.cache[n].dirty
                      /\ r.s.cache[n].needSync = s.cache[n].needSync
    OBVIOUS
  <2>1. s.cache[n] \in PageType
    BY DEF Typed, IsCache
  <2>2. r.s.cache[n] = IF n \in Pages(s, R)
                       THEN [s.cache[n] EXCEPT !.c = First(R, n).c]
                       ELSE s.cache[n]
    BY <1>1 DEF Plays
  <2> QED
    BY ONLY <2>1, <2>2 DEF PageType
<1>7. Overlaid(s, m, R, r)
  BY <1>1, <1>5, <1>6 DEF Plays, Overlaid
<1>8. Underlaid(s, m, r)
  BY <1>1 DEF Plays, SameLimit, SameJournals, Underlaid
<1> QED
  BY <1>7, <1>8

\* Only what a savepoint or the transaction can need is played back.
Recalls(s, k, j, R) ==
    /\ \A n \in PagesIn(R) :
          \/ \E i \in DOMAIN s.journal :
                /\ i > k /\ s.journal[i].pgno = n
                /\ First(R, n).c = s.journal[i].c
                /\ First(R, n).safe = (i <= s.journalHdr)
          \/ /\ \A i \in DOMAIN s.journal : i > k => s.journal[i].pgno # n
             /\ \E i \in DOMAIN s.sub :
                   /\ i > j /\ s.sub[i].pgno = n
                   /\ First(R, n).c = s.sub[i].c
                   /\ First(R, n).safe = SubSafe(s, n)
    /\ \A i \in DOMAIN s.journal : i > k => s.journal[i].pgno \in PagesIn(R)

\* A replay plays back only what a savepoint or the transaction can need.
LEMMA ReplayRecalls ==
    ASSUME NEW s, Typed(s), JournalOK(s), NEW k, NEW j, NEW R,
           IsReplay(s, k, j, R)
    PROVE  Recalls(s, k, j, R)
<1>1. \A i \in DOMAIN s.journal : i > k =>
          Replayed(R, s.journal[i].pgno, s.journal[i].c, i <= s.journalHdr)
  BY ReplayedJournal
<1>2. \A i \in DOMAIN s.journal : i > k => s.journal[i].pgno \in PagesIn(R)
  BY <1>1 DEF Replayed
<1>3. ASSUME NEW n \in PagesIn(R),
             NEW i \in DOMAIN s.journal, i > k, s.journal[i].pgno = n
      PROVE  /\ First(R, n).c = s.journal[i].c
             /\ First(R, n).safe = (i <= s.journalHdr)
  BY <1>1, <1>3 DEF Replayed
<1>4. ASSUME NEW n \in PagesIn(R),
             \A i \in DOMAIN s.journal : i > k => s.journal[i].pgno # n
      PROVE  \E i \in DOMAIN s.sub :
                   /\ i > j /\ s.sub[i].pgno = n
                   /\ First(R, n).c = s.sub[i].c
                   /\ First(R, n).safe = SubSafe(s, n)
  <2>1. PICK i \in DOMAIN s.sub :
              /\ i > j /\ s.sub[i].pgno = n
              /\ Replayed(R, n, s.sub[i].c, SubSafe(s, n))
    BY <1>4, ReplayedSub
  <2> QED
    BY <2>1 DEF Replayed
<1> QED
  BY <1>2, <1>3, <1>4 DEF Recalls
-----------------------------------------------------------------------------
(* A playback inside a transaction.                                        *)

Back(R, r) == PagesIn(R) \cap 1..r.s.dbSize

Out(s, R, r) == {n \in Back(R, r) : First(R, n).safe /\ OnFile(s)}

\* r is what a playback of R leaves of s, cut to its size, and m.
Played(s, m, R, r) ==
    /\ Typed(r.s) /\ StoreTyped(r.m) /\ r.m.szMax = m.szMax
    /\ r.s.journal = s.journal /\ r.s.journalHdr = s.journalHdr
    /\ r.s.sub = s.sub
    /\ r.s.eState = s.eState /\ r.s.memDb = s.memDb
    /\ r.s.hasHeldSharedLock = s.hasHeldSharedLock
    /\ r.s.dbOrigSize = s.dbOrigSize
    /\ DOMAIN r.s.cache = DOMAIN s.cache
    /\ \A n \in DOMAIN s.cache :
          /\ r.s.cache[n].c = IF n \in Back(R, r)
                              THEN First(R, n).c ELSE s.cache[n].c
          /\ r.s.cache[n].dirty = s.cache[n].dirty
          /\ r.s.cache[n].needSync = s.cache[n].needSync
    /\ \A n \in 1..MaxPage :
          Read(r.m, n) = IF n \in Out(s, R, r)
                         THEN First(R, n).c ELSE Read(m, n)
    /\ Len(r.m.pages) = Max(Out(s, R, r) \cup {Len(m.pages)})
    /\ r.s.dbFileSize = Max(Out(s, R, r) \cup {s.dbFileSize})
    /\ r.s.dbFileVers = IF 1 \in Back(R, r)
                        THEN First(R, 1).c.vers ELSE s.dbFileVers

\* b is s for the size and the savepoints to which it goes back.
GoesBack(s, b) ==
    /\ Typed(b) /\ b.journal = s.journal /\ b.journalHdr = s.journalHdr
    /\ b.sub = s.sub /\ b.eState = s.eState /\ b.memDb = s.memDb
    /\ b.hasHeldSharedLock = s.hasHeldSharedLock
    /\ b.dbOrigSize = s.dbOrigSize /\ b.cache = s.cache
    /\ b.dbFileSize = s.dbFileSize /\ b.dbFileVers = s.dbFileVers

\* What a playback leaves to a pager that goes back.
LEMMA PlaybackPlayed ==
    ASSUME NEW s, NEW b, GoesBack(s, b), NEW m, StoreTyped(m),
           NEW R \in Seq(PlayType), NEW r, r = Playback(b, m, R)
    PROVE  /\ Played(s, m, R, r) /\ r.s.dbSize = b.dbSize
           /\ r.s.aSavepoint = b.aSavepoint
<1>1. Typed(b)
  BY DEF GoesBack
<1>2. Overlaid(b, m, R, r) /\ Underlaid(b, m, r)
  BY <1>1, PlaybackOverlays
<1>3. r.s.dbSize = b.dbSize /\ r.s.aSavepoint = b.aSavepoint
  BY <1>2 DEF Underlaid
<1>4. Pages(b, R) = Back(R, r)
  BY <1>3 DEF Pages, Back
<1>5. StoredPages(b, R) = Out(s, R, r)
  <2>1. OnFile(s) = (~b.memDb /\ b.eState >= PAGER_WRITER_DBMOD)
    BY DEF OnFile, GoesBack
  <2> QED
    BY <1>4, <2>1 DEF StoredPages, Out
<1>6. /\ Typed(r.s) /\ StoreTyped(r.m) /\ r.m.szMax = m.szMax
      /\ r.s.journal = s.journal /\ r.s.journalHdr = s.journalHdr
      /\ r.s.sub = s.sub
      /\ r.s.eState = s.eState /\ r.s.memDb = s.memDb
      /\ r.s.hasHeldSharedLock = s.hasHeldSharedLock
      /\ r.s.dbOrigSize = s.dbOrigSize
  BY <1>2 DEF Underlaid, GoesBack
<1>7. s.cache = b.cache /\ s.dbFileSize = b.dbFileSize
      /\ s.dbFileVers = b.dbFileVers
  BY DEF GoesBack
<1>8. Played(s, m, R, r)
  BY <1>2, <1>4, <1>5, <1>6, <1>7 DEF Overlaid, Played
<1> QED
  BY <1>3, <1>8

\* A played-back page of the original database is in the journal.
LEMMA RecalledOriginal ==
    ASSUME NEW s, SubOK(s), NEW k, NEW j, NEW R, Recalls(s, k, j, R),
           NEW n \in PagesIn(R), n <= s.dbOrigSize
    PROVE  n \in InJournal(s)
<1>1. CASE \E i \in DOMAIN s.journal : s.journal[i].pgno = n
  BY <1>1 DEF InJournal, PagesIn
<1>2. CASE \E i \in DOMAIN s.sub : s.sub[i].pgno = n
  BY <1>2 DEF SubOK
<1> QED
  BY <1>1, <1>2 DEF Recalls

\* A page whose journal record is not synced is played back as unsafe.
LEMMA RecalledUnsafe ==
    ASSUME NEW s, Typed(s), JournalOK(s), UnsyncedOK(s),
           NEW k, NEW j, NEW R, Recalls(s, k, j, R),
           NEW i \in DOMAIN s.journal, i > s.journalHdr,
           s.journal[i].pgno \in PagesIn(R)
    PROVE  ~First(R, s.journal[i].pgno).safe
<1> DEFINE n == s.journal[i].pgno
<1>1. n \in DOMAIN s.cache /\ s.cache[n].needSync
  BY DEF UnsyncedOK
<1>2. CASE \E x \in DOMAIN s.journal :
              /\ x > k /\ s.journal[x].pgno = n
              /\ First(R, n).safe = (x <= s.journalHdr)
  <2>1. PICK x \in DOMAIN s.journal :
              s.journal[x].pgno = n /\ First(R, n).safe = (x <= s.journalHdr)
    BY <1>2
  <2>2. x = i
    BY <2>1 DEF JournalOK
  <2>3. i \in Int /\ s.journalHdr \in Int
    BY JournalDomains DEF Typed
  <2>4. First(R, n).safe = (i <= s.journalHdr)
    BY <2>1, <2>2
  <2>5. ~(i <= s.journalHdr)
    BY <2>3
  <2> QED
    BY ONLY <2>4, <2>5
<1>3. CASE First(R, n).safe = SubSafe(s, n)
  BY <1>1, <1>3 DEF SubSafe
<1> QED
  BY <1>2, <1>3 DEF Recalls

\* A played-back page that is cached clean has its record synced.
LEMMA RecalledClean ==
    ASSUME NEW s, Typed(s), s.eState \in {PAGER_WRITER_CACHEMOD, PAGER_WRITER_DBMOD},
           FlagsOK(s), UnsyncedOK(s), SubOK(s),
           NEW k, NEW j, NEW R, Recalls(s, k, j, R),
           NEW n \in PagesIn(R), n \in DOMAIN s.cache, ~s.cache[n].dirty
    PROVE  First(R, n).safe /\ s.eState = PAGER_WRITER_DBMOD
<1>1. ~s.cache[n].needSync
  BY DEF FlagsOK
<1>2. ASSUME NEW i \in DOMAIN s.journal, s.journal[i].pgno = n
      PROVE  i <= s.journalHdr /\ s.eState = PAGER_WRITER_DBMOD
  <2>1. i \in Int /\ s.journalHdr \in Int /\ i >= 1
    BY JournalDomains DEF Typed
  <2>2. ~(i > s.journalHdr)
    BY <1>1, <1>2 DEF UnsyncedOK
  <2>3. s.eState = PAGER_WRITER_CACHEMOD => s.journalHdr = 0
    BY DEF UnsyncedOK
  <2> QED
    BY <2>1, <2>2, <2>3
<1>3. ASSUME NEW i \in DOMAIN s.sub, s.sub[i].pgno = n
      PROVE  s.eState = PAGER_WRITER_DBMOD
  BY <1>3 DEF SubOK
<1>4. SubSafe(s, n)
  BY <1>1 DEF SubSafe
<1>5. CASE \E i \in DOMAIN s.journal :
                /\ i > k /\ s.journal[i].pgno = n
                /\ First(R, n).safe = (i <= s.journalHdr)
  BY <1>2, <1>5
<1>6. CASE \E i \in DOMAIN s.sub :
                   /\ i > j /\ s.sub[i].pgno = n
                   /\ First(R, n).safe = SubSafe(s, n)
  BY <1>3, <1>4, <1>6
<1> QED
  BY <1>5, <1>6 DEF Recalls

\* The transaction goes on after a playback, whatever its size is now.
LEMMA PlayedLogged ==
    ASSUME NEW s, Sound(s), s.eState # PAGER_WRITER_LOCKED,
           NEW m, StoreTyped(m), NEW B, Logged(s, m, B), SubOK(s),
           NEW k, NEW j, NEW R, Recalls(s, k, j, R),
           NEW r, Played(s, m, R, r), r.s.dbSize <= s.dbSize
    PROVE  Logged(r.s, r.m, B)
<1> DEFINE P == Back(R, r)
           T == Out(s, R, r)
<1>1. Typed(s) /\ JournalOK(s) /\ InTx(s)
  BY DEF Sound
<1>2. s.eState \in {PAGER_WRITER_CACHEMOD, PAGER_WRITER_DBMOD}
  BY <1>1 DEF InTx
<1>3. /\ r.s.journal = s.journal /\ r.s.journalHdr = s.journalHdr
      /\ r.s.sub = s.sub
      /\ r.s.eState = s.eState /\ r.s.memDb = s.memDb
      /\ r.s.dbOrigSize = s.dbOrigSize
      /\ DOMAIN r.s.cache = DOMAIN s.cache
      /\ \A n \in DOMAIN s.cache :
          /\ r.s.cache[n].c = IF n \in P THEN First(R, n).c ELSE s.cache[n].c
          /\ r.s.cache[n].dirty = s.cache[n].dirty
          /\ r.s.cache[n].needSync = s.cache[n].needSync
  BY DEF Played
<1>4. \A n \in 1..MaxPage :
          Read(r.m, n) = IF n \in T THEN First(R, n).c ELSE Read(m, n)
  BY DEF Played
<1>5. P \subseteq PagesIn(R) /\ T \subseteq P
  BY DEF Back, Out
<1>6. \A n \in T : First(R, n).safe
  BY DEF Out
<1>7. FlagsOK(s) /\ UnsyncedOK(s) /\ Base(s, m, B)
  BY DEF Logged
<1>8. /\ s.dbSize \in Nat /\ s.dbOrigSize \in Nat
      /\ s.dbOrigSize <= MaxPage /\ MaxPage \in Nat
      /\ \A n \in DOMAIN s.cache : n \in 1..MaxPage /\ n \in Nat
  BY <1>1, Sizes
<1>9. r.s.dbSize \in Nat
  BY Sizes DEF Played
<1> HIDE DEF P, T
<1>10. InJournal(r.s) = InJournal(s)
  BY <1>3 DEF InJournal
<1>11. FlagsOK(r.s)
  BY ONLY <1>3, <1>7, <1>10 DEF FlagsOK
<1>12. UnsyncedOK(r.s)
  BY ONLY <1>3, <1>7 DEF UnsyncedOK
<1>13. \A n \in 1..s.dbOrigSize : n \notin InJournal(s) => n \notin P /\ n \notin T
  BY <1>5, RecalledOriginal
<1>14. Base(r.s, r.m, B)
  <2>1. \A n \in 1..s.dbOrigSize : n \in 1..MaxPage
    BY <1>8
  <2>2. ASSUME NEW n \in 1..s.dbOrigSize, n \notin InJournal(s)
        PROVE  /\ n \in DOMAIN s.cache => r.s.cache[n].c = s.cache[n].c
               /\ Read(r.m, n) = Read(m, n)
    BY <1>3, <1>4, <1>13, <2>1, <2>2
  <2> QED
    BY ONLY <1>3, <1>7, <1>10, <2>2 DEF Base
<1>15. CASE s.memDb
  BY <1>3, <1>11, <1>12, <1>14, <1>15 DEF Logged
<1>16. CASE ~s.memDb
  <2>1. Unwritten(s, m, B) /\ Coherent(s, m) /\ s.dbFileSize = Len(m.pages)
    BY <1>16 DEF Logged
  <2>2. Unwritten(r.s, r.m, B)
    <3>1. ASSUME NEW i \in DOMAIN s.journal, i > s.journalHdr
          PROVE  Read(r.m, s.journal[i].pgno) = Read(m, s.journal[i].pgno)
      <4>1. s.journal[i].pgno \in 1..MaxPage
        BY <1>1, JournalDomains DEF RecordType
      <4>2. s.journal[i].pgno \notin T
        BY <1>1, <1>5, <1>6, <1>7, <3>1, RecalledUnsafe
      <4> QED
        BY <1>4, <4>1, <4>2
    <3> QED
      BY ONLY <1>3, <2>1, <3>1 DEF Unwritten
  <2>3. Coherent(r.s, r.m)
    <3>1. ASSUME NEW n \in DOMAIN s.cache, ~s.cache[n].dirty, n <= r.s.dbSize
          PROVE  r.s.cache[n].c = Read(r.m, n)
      <4>1. n \in 1..MaxPage /\ n <= s.dbSize
        BY <1>8, <1>9, <3>1
      <4>2. CASE n \in P
        <5>1. First(R, n).safe /\ s.eState = PAGER_WRITER_DBMOD
          BY <1>1, <1>2, <1>5, <1>7, <3>1, <4>2, RecalledClean
        <5>2. n \in T
          BY <5>1, <1>16, <4>2 DEF T, P, Out, OnFile
        <5> QED
          BY <1>3, <1>4, <4>1, <4>2, <5>2
      <4>3. CASE n \notin P
        <5>1. n \notin T
          BY <1>5, <4>3
        <5>2. s.cache[n].c = Read(m, n)
          BY <2>1, <3>1, <4>1 DEF Coherent
        <5> QED
          BY <1>3, <1>4, <4>1, <4>3, <5>1, <5>2
      <4> QED
        BY <4>2, <4>3
    <3> QED
      BY ONLY <1>3, <3>1 DEF Coherent
  <2>4. r.s.dbFileSize = Len(r.m.pages)
    BY <2>1 DEF Played
  <2> QED
    BY <1>3, <1>11, <1>12, <1>14, <2>2, <2>3, <2>4 DEF Logged
<1> QED
  BY <1>15, <1>16
-----------------------------------------------------------------------------
(* The savepoints that stay.                                               *)

\* t has the first n savepoints of s.
Fewer(s, t, n) ==
    /\ n \in 0..Len(s.aSavepoint) /\ n \in Nat
    /\ Len(t.aSavepoint) = n /\ DOMAIN t.aSavepoint = 1..n
    /\ \A i \in 1..n : /\ i \in DOMAIN s.aSavepoint
                       /\ t.aSavepoint[i] = s.aSavepoint[i]

\* Cutting the savepoints to the first n leaves fewer of them.
LEMMA FewerMarks ==
    ASSUME NEW s, Typed(s), NEW n \in 0..Len(s.aSavepoint), NEW t,
           t.aSavepoint = SubSeq(s.aSavepoint, 1, n)
    PROVE  Fewer(s, t, n)
<1>1. s.aSavepoint \in Seq(MarkType) /\ Len(s.aSavepoint) \in Nat
      /\ DOMAIN s.aSavepoint = 1..Len(s.aSavepoint)
  BY JournalDomains DEF Typed
<1>2. /\ Len(t.aSavepoint) = n /\ DOMAIN t.aSavepoint = 1..n
      /\ \A i \in 1..n : t.aSavepoint[i] = s.aSavepoint[i]
  BY <1>1, FirstOf
<1>3. n \in Nat /\ \A i \in 1..n : i \in 1..Len(s.aSavepoint)
  BY <1>1
<1> QED
  BY <1>1, <1>2, <1>3 DEF Fewer

\* A record of s is one of t, and the other way round.
LEMMA RecordedSame ==
    ASSUME NEW s, NEW t, t.journal = s.journal, t.sub = s.sub, NEW sp, NEW n, NEW k
    PROVE  /\ InTail(t, sp, n) = InTail(s, sp, n)
           /\ Recorded(t, sp, n, k) = Recorded(s, sp, n, k)
  BY DEF Recorded, InTail, InSubTail

\* The savepoints that are left keep every record they need.
LEMMA TrackedFewer ==
    ASSUME NEW s, Tracked(s), NEW t, NEW n, Fewer(s, t, n),
           t.journal = s.journal, t.sub = s.sub, t.eState = s.eState,
           t.dbOrigSize = s.dbOrigSize, DOMAIN t.cache = DOMAIN s.cache,
           \A i \in DOMAIN s.cache : t.cache[i].dirty = s.cache[i].dirty
    PROVE  Tracked(t)
<1>1. SubOK(s) /\ MarksOK(s) /\ OrderOK(s)
  BY DEF Tracked
<1>2. SubOK(t)
  BY ONLY <1>1, t.journal = s.journal, t.sub = s.sub, t.eState = s.eState,
     t.dbOrigSize = s.dbOrigSize, DOMAIN t.cache = DOMAIN s.cache,
     \A i \in DOMAIN s.cache : t.cache[i].dirty = s.cache[i].dirty
     DEF SubOK, InJournal
<1>3. \A i \in DOMAIN t.aSavepoint : /\ i \in DOMAIN s.aSavepoint
                                     /\ t.aSavepoint[i] = s.aSavepoint[i]
  BY DEF Fewer
<1>4. MarksOK(t)
  <2>1. ASSUME NEW i \in DOMAIN t.aSavepoint, NEW x \in t.aSavepoint[i].inSavepoint,
               x <= t.aSavepoint[i].nOrig
        PROVE  Recorded(t, t.aSavepoint[i], x, Len(t.sub))
    <3>1. Recorded(s, s.aSavepoint[i], x, Len(s.sub))
      BY <1>1, <1>3, <2>1 DEF MarksOK
    <3> QED
      BY <1>3, <3>1, RecordedSame
  <2> QED
    BY <2>1 DEF MarksOK
<1>5. OrderOK(t)
  <2>1. ASSUME NEW i \in DOMAIN t.aSavepoint, NEW j \in DOMAIN t.aSavepoint, i < j
        PROVE  /\ t.aSavepoint[i].nOrig <= t.aSavepoint[j].nOrig
               /\ t.aSavepoint[j].bTruncateOnRelease =>
                    \A k \in DOMAIN t.sub :
                       k > t.aSavepoint[j].iSubRec
                       /\ t.sub[k].pgno <= t.aSavepoint[i].nOrig
                       => Recorded(t, t.aSavepoint[i], t.sub[k].pgno,
                                   t.aSavepoint[j].iSubRec)
    <3>1. /\ s.aSavepoint[i].nOrig <= s.aSavepoint[j].nOrig
          /\ s.aSavepoint[j].bTruncateOnRelease =>
                \A k \in DOMAIN s.sub :
                    k > s.aSavepoint[j].iSubRec
                    /\ s.sub[k].pgno <= s.aSavepoint[i].nOrig
                    => Recorded(s, s.aSavepoint[i], s.sub[k].pgno,
                                s.aSavepoint[j].iSubRec)
      BY <1>1, <1>3, <2>1 DEF OrderOK
    <3> QED
      BY <1>3, <3>1, RecordedSame
  <2> QED
    BY <2>1 DEF OrderOK
<1> QED
  BY <1>2, <1>4, <1>5 DEF Tracked

\* The savepoints that are left still lie below the database's size.
LEMMA GrownFewer ==
    ASSUME NEW s, Grown(s), NEW t, NEW n, Fewer(s, t, n),
           t.dbOrigSize = s.dbOrigSize, s.dbOrigSize <= t.dbSize,
           \A i \in 1..n : s.aSavepoint[i].nOrig <= t.dbSize
    PROVE  Grown(t)
  BY DEF Grown, Fewer

\* The savepoints that stay are older than the records played back.
Older(s, k, j, n) ==
    \A i \in 1..n : s.aSavepoint[i].iOffset <= k /\ s.aSavepoint[i].iSubRec <= j

\* The pages of a replay are recorded for every older savepoint.
LEMMA RecalledRecorded ==
    ASSUME NEW s, Typed(s), NEW k \in Int, NEW j \in Int, NEW R,
           Recalls(s, k, j, R), NEW n, Older(s, k, j, n),
           NEW i \in 1..n, i \in DOMAIN s.aSavepoint, NEW x \in PagesIn(R)
    PROVE  Recorded(s, s.aSavepoint[i], x, Len(s.sub))
<1> DEFINE sp == s.aSavepoint[i]
<1>1. sp.iOffset \in Nat /\ sp.iSubRec \in Nat
  BY JournalDomains DEF MarkType
<1>2. sp.iOffset <= k /\ sp.iSubRec <= j
  BY DEF Older
<1> HIDE DEF sp
<1>3. Len(s.sub) \in Nat /\ DOMAIN s.sub = 1..Len(s.sub)
      /\ Len(s.journal) \in Nat /\ DOMAIN s.journal = 1..Len(s.journal)
  BY JournalDomains
<1>4. CASE \E y \in DOMAIN s.journal : y > k /\ s.journal[y].pgno = x
  <2>1. PICK y \in DOMAIN s.journal : y > k /\ s.journal[y].pgno = x
    BY <1>4
  <2>2. y > sp.iOffset
    BY <1>1, <1>2, <1>3, <2>1
  <2> QED
    BY <2>1, <2>2 DEF Recorded, InTail, sp
<1>5. CASE \E y \in DOMAIN s.sub : y > j /\ s.sub[y].pgno = x
  <2>1. PICK y \in DOMAIN s.sub : y > j /\ s.sub[y].pgno = x
    BY <1>5
  <2>2. y > sp.iSubRec /\ y <= Len(s.sub)
    BY <1>1, <1>2, <1>3, <2>1
  <2> QED
    BY <2>1, <2>2 DEF Recorded, InSubTail, sp
<1> QED
  BY <1>4, <1>5 DEF Recalls

\* What they have saved stays saved.
LEMMA PlayedCarries ==
    ASSUME NEW s, Typed(s), NEW m, NEW k \in Int, NEW j \in Int, NEW R,
           Recalls(s, k, j, R), NEW r, Played(s, m, R, r),
           NEW n, Fewer(s, r.s, n), Older(s, k, j, n)
    PROVE  Carries(s, m, r.s, r.m)
<1>1. /\ r.s.journal = s.journal /\ r.s.sub = s.sub /\ r.s.memDb = s.memDb
      /\ DOMAIN r.s.cache = DOMAIN s.cache
      /\ \A x \in DOMAIN s.cache :
            r.s.cache[x].c = IF x \in Back(R, r) THEN First(R, x).c
                                                 ELSE s.cache[x].c
      /\ \A x \in 1..MaxPage :
            Read(r.m, x) = IF x \in Out(s, R, r) THEN First(R, x).c
                                                 ELSE Read(m, x)
  BY DEF Played
<1>2. \A x \in 1..MaxPage : x \notin PagesIn(R)
          => Holding(r.s, r.m, x) = Holding(s, m, x)
  <2> SUFFICES ASSUME NEW x \in 1..MaxPage, x \notin PagesIn(R)
               PROVE  Holding(r.s, r.m, x) = Holding(s, m, x)
    OBVIOUS
  <2>1. x \notin Back(R, r) /\ x \notin Out(s, R, r)
    BY DEF Back, Out
  <2> QED
    BY <1>1, <2>1 DEF Holding
<1>3. /\ n \in Nat /\ n <= Len(s.aSavepoint) /\ Len(s.aSavepoint) \in Nat
      /\ Len(r.s.aSavepoint) = n
      /\ \A i \in 1..n : /\ i \in DOMAIN s.aSavepoint
                         /\ r.s.aSavepoint[i] = s.aSavepoint[i]
  <2>1. Len(s.aSavepoint) \in Nat
    BY JournalDomains
  <2>2. n \in 0..Len(s.aSavepoint)
    BY DEF Fewer
  <2>3. n <= Len(s.aSavepoint)
    BY ONLY <2>1, <2>2
  <2> QED
    BY <2>1, <2>3 DEF Fewer
<1>4. ASSUME NEW i \in 1..n, NEW x \in 1..s.aSavepoint[i].nOrig, NEW c,
             Saved(s, m, s.aSavepoint[i], x, c)
      PROVE  Saved(r.s, r.m, s.aSavepoint[i], x, c)
  <2> DEFINE sp == s.aSavepoint[i]
  <2>1. x \in 1..MaxPage
    <3>1. sp \in MarkType
      BY <1>3, JournalDomains
    <3>2. sp.nOrig \in 0..MaxPage /\ MaxPage \in Nat
      BY <3>1, PagerAssumption DEF MarkType
    <3> QED
      BY <1>4, <3>2
  <2>2. ~Recorded(s, sp, x, Len(s.sub)) => x \notin PagesIn(R)
    BY <1>3, RecalledRecorded
  <2>3. /\ InTail(r.s, sp, x) = InTail(s, sp, x)
        /\ Recorded(r.s, sp, x, Len(s.sub)) = Recorded(s, sp, x, Len(s.sub))
    BY <1>1, RecordedSame
  <2> HIDE DEF sp
  <2>4. Saved(s, m, sp, x, c)
    BY <1>4 DEF sp
  <2>5. Saved(r.s, r.m, sp, x, c)
    BY ONLY <1>1, <1>2, <2>1, <2>2, <2>3, <2>4 DEF Saved
  <2> QED
    BY <2>5 DEF sp
<1> QED
  BY <1>3, <1>4 DEF Carries

\* And the savepoint to which the playback goes back gets what it saved.
LEMMA PlayedSaved ==
    ASSUME NEW s, Typed(s), JournalOK(s), NEW m, NEW sp, NEW R,
           IsReplay(s, sp.iOffset, sp.iSubRec, R), NEW r, Played(s, m, R, r),
           NEW x \in DOMAIN s.cache, x \in 1..r.s.dbSize,
           NEW c, Saved(s, m, sp, x, c)
    PROVE  r.s.cache[x].c = c
<1>1. r.s.cache[x].c = IF x \in PagesIn(R) THEN First(R, x).c ELSE s.cache[x].c
  BY DEF Played, Back
<1>2. CASE \E i \in DOMAIN s.journal :
          i > sp.iOffset /\ s.journal[i].pgno = x /\ s.journal[i].c = c
  <2>1. PICK i \in DOMAIN s.journal :
          i > sp.iOffset /\ s.journal[i].pgno = x /\ s.journal[i].c = c
    BY <1>2
  <2>2. Replayed(R, x, c, i <= s.journalHdr)
    BY <2>1, ReplayedJournal
  <2> QED
    BY <1>1, <2>2 DEF Replayed
<1>3. ASSUME ~InTail(s, sp, x), NEW i \in DOMAIN s.sub,
             i > sp.iSubRec, s.sub[i].pgno = x, s.sub[i].c = c,
             \A l \in DOMAIN s.sub :
                   l > sp.iSubRec /\ s.sub[l].pgno = x => i <= l
      PROVE  r.s.cache[x].c = c
  <2>1. x \in PagesIn(R)
    BY <1>3, SubInReplay
  <2>2. \A l \in DOMAIN s.journal : l > sp.iOffset => s.journal[l].pgno # x
    BY <1>3 DEF InTail
  <2>3. PICK l \in DOMAIN s.sub :
              /\ l > sp.iSubRec /\ s.sub[l].pgno = x
              /\ Replayed(R, x, s.sub[l].c, SubSafe(s, x))
              /\ \A y \in DOMAIN s.sub : y > sp.iSubRec /\ s.sub[y].pgno = x => l <= y
    BY <2>1, <2>2, ReplayedSub
  <2>4. l = i
    <3>1. l <= i /\ i <= l
      BY <1>3, <2>3
    <3>2. l \in Int /\ i \in Int
      BY JournalDomains
    <3> QED
      BY ONLY <3>1, <3>2
  <2> QED
    BY <1>1, <1>3, <2>1, <2>3, <2>4 DEF Replayed
<1>4. CASE ~Recorded(s, sp, x, Len(s.sub)) /\ Holding(s, m, x) = c
  <2>1. x \notin PagesIn(R)
    <3>1. SUFFICES ASSUME x \in PagesIn(R) PROVE FALSE
      OBVIOUS
    <3>2. CASE \E i \in DOMAIN s.journal : i > sp.iOffset /\ s.journal[i].pgno = x
      BY <1>4, <3>2 DEF Recorded, InTail
    <3>3. CASE \E i \in DOMAIN s.sub : i > sp.iSubRec /\ s.sub[i].pgno = x
      <4>1. \A i \in DOMAIN s.sub : i <= Len(s.sub)
        BY JournalDomains
      <4> QED
        BY <1>4, <3>3, <4>1 DEF Recorded, InSubTail
    <3> QED
      BY <3>1, <3>2, <3>3, ReplayPages
  <2> QED
    BY <1>1, <1>4, <2>1 DEF Holding
<1> QED
  BY <1>2, <1>3, <1>4 DEF Saved
-----------------------------------------------------------------------------
(* Going back to a savepoint, or to the beginning.                         *)

\* R goes back to the n-th savepoint of s, or, if n = 0, to its beginning;
\* the image had this size.
Rewinds(s, n, R, size) ==
    /\ n \in 0..Len(s.aSavepoint)
    /\ n = 0 => size = s.dbOrigSize /\ IsReplay(s, 0, Len(s.sub), R)
    /\ n > 0 => /\ n \in DOMAIN s.aSavepoint
                /\ size = s.aSavepoint[n].nOrig
                /\ IsReplay(s, s.aSavepoint[n].iOffset,
                            s.aSavepoint[n].iSubRec, R)

\* What Rewinds gives the lemmas about playbacks.
LEMMA RewindsFacts ==
    ASSUME NEW s, Sound(s), Tracked(s), Grown(s), NEW n, NEW R, NEW size,
           Rewinds(s, n, R, size)
    PROVE  \E k \in Int, j \in Int :
              /\ IsReplay(s, k, j, R) /\ Recalls(s, k, j, R) /\ Older(s, k, j, n)
              /\ n = 0 => k = 0
              /\ n > 0 => /\ k = s.aSavepoint[n].iOffset
                          /\ j = s.aSavepoint[n].iSubRec
              /\ R \in Seq(PlayType)
              /\ s.dbOrigSize <= size /\ size <= s.dbSize
              /\ \A i \in 1..n : s.aSavepoint[i].nOrig <= size
<1>1. Typed(s) /\ JournalOK(s) /\ MarksInside(s)
  BY DEF Sound
<1>2. /\ Len(s.journal) \in Nat /\ Len(s.sub) \in Nat
      /\ Len(s.aSavepoint) \in Nat
      /\ DOMAIN s.aSavepoint = 1..Len(s.aSavepoint)
      /\ \A i \in DOMAIN s.aSavepoint : s.aSavepoint[i] \in MarkType
  BY <1>1, JournalDomains
<1>3. n \in Nat
  BY <1>2 DEF Rewinds
<1>4. CASE n = 0
  <2>1. IsReplay(s, 0, Len(s.sub), R) /\ size = s.dbOrigSize
    BY <1>4 DEF Rewinds
  <2>2. Recalls(s, 0, Len(s.sub), R)
    BY <1>1, <2>1, ReplayRecalls
  <2>3. 1..n = {}
    BY <1>4
  <2>4. Older(s, 0, Len(s.sub), n)
    BY <2>3 DEF Older
  <2>5. R \in Seq(PlayType)
    BY <2>1 DEF IsReplay
  <2>6. s.dbOrigSize <= s.dbSize /\ s.dbOrigSize \in Nat
    BY <1>1, Sizes DEF Grown
  <2>7. s.dbOrigSize <= size /\ size <= s.dbSize
    BY ONLY <2>1, <2>6
  <2>8. 0 \in Int /\ Len(s.sub) \in Int /\ ~(n > 0)
    BY <1>2, <1>4
  <2> QED
    BY <2>1, <2>2, <2>3, <2>4, <2>5, <2>7, <2>8
<1>5. CASE n > 0
  <2> DEFINE sp == s.aSavepoint[n]
             k == sp.iOffset
             j == sp.iSubRec
  <2>1. n \in DOMAIN s.aSavepoint /\ size = sp.nOrig /\ IsReplay(s, k, j, R)
    BY <1>5 DEF Rewinds
  <2>2. Recalls(s, k, j, R)
    BY <1>1, <2>1, ReplayRecalls
  <2>3. \A i \in 1..n : i \in DOMAIN s.aSavepoint /\ i <= n /\ (i = n \/ i < n)
    BY <1>2, <1>3, <2>1
  <2>4. Older(s, k, j, n)
    BY <1>1, <2>1, <2>3 DEF Older, MarksInside
  <2>5. R \in Seq(PlayType)
    BY <2>1 DEF IsReplay
  <2>6. s.dbOrigSize <= size /\ size <= s.dbSize
    BY <2>1 DEF Grown
  <2>7. k \in Int /\ j \in Int /\ sp.nOrig \in Int
    <3>1. sp \in MarkType
      BY <1>2, <2>1
    <3> QED
      BY <3>1 DEF MarkType
  <2>8. \A i \in 1..n : s.aSavepoint[i].nOrig <= size
    <3>1. \A i \in 1..n : i < n => s.aSavepoint[i].nOrig <= sp.nOrig
      BY <2>1, <2>3 DEF Tracked, OrderOK
    <3>2. sp.nOrig <= sp.nOrig
      BY <2>7
    <3> QED
      BY <2>1, <2>3, <3>1, <3>2
  <2>9. n # 0
    BY <1>5
  <2> QED
    BY <2>1, <2>2, <2>4, <2>5, <2>6, <2>7, <2>8, <2>9
<1> QED
  BY <1>3, <1>4, <1>5

\* After a playback the transaction and its older savepoints go on.
LEMMA PlayedFollows ==
    ASSUME NEW s, Sound(s), s.eState # PAGER_WRITER_LOCKED,
           NEW m, StoreTyped(m), NEW B, Tx(s, m, B),
           NEW n, NEW R, NEW size, Rewinds(s, n, R, size),
           NEW r, Played(s, m, R, r), r.s.dbSize = size, Fewer(s, r.s, n)
    PROVE  /\ Logged(r.s, r.m, B) /\ Tracked(r.s) /\ Grown(r.s)
           /\ Carries(s, m, r.s, r.m)
<1>1. Typed(s) /\ Logged(s, m, B) /\ Tracked(s) /\ Grown(s) /\ SubOK(s)
  BY DEF Sound, Tx, Tracked
<1>2. PICK k \in Int, j \in Int :
              /\ IsReplay(s, k, j, R) /\ Recalls(s, k, j, R) /\ Older(s, k, j, n)
              /\ R \in Seq(PlayType)
              /\ s.dbOrigSize <= size /\ size <= s.dbSize
              /\ \A i \in 1..n : s.aSavepoint[i].nOrig <= size
  BY <1>1, RewindsFacts
<1>3. Logged(r.s, r.m, B)
  BY <1>1, <1>2, PlayedLogged
<1>4. /\ r.s.journal = s.journal /\ r.s.sub = s.sub /\ r.s.eState = s.eState
      /\ r.s.dbOrigSize = s.dbOrigSize /\ DOMAIN r.s.cache = DOMAIN s.cache
      /\ \A i \in DOMAIN s.cache : r.s.cache[i].dirty = s.cache[i].dirty
  BY DEF Played
<1>5. Tracked(r.s)
  BY <1>1, <1>4, TrackedFewer
<1>6. Grown(r.s)
  BY <1>1, <1>2, <1>4, GrownFewer
<1>7. Carries(s, m, r.s, r.m)
  BY <1>1, <1>2, PlayedCarries
<1> QED
  BY <1>3, <1>5, <1>6, <1>7

\* The contents of page 1 that a playback can bring back count as B does.
LEMMA PlayedCounting ==
    ASSUME NEW s, Sound(s), s.eState # PAGER_WRITER_LOCKED, ~s.memDb,
           1 \in DOMAIN s.cache,
           NEW m, NEW B, Logged(s, m, B), SubOK(s), Counting(s, m, B),
           NEW k, NEW j, NEW R, Recalls(s, k, j, R), NEW r, Played(s, m, R, r)
    PROVE  Counting(r.s, r.m, B)
<1> DEFINE b == B[1].vers.counter
<1>1. /\ s.cache[1].c.vers.counter = b
      /\ \A i \in DOMAIN s.sub :
            s.sub[i].pgno = 1 => s.sub[i].c.vers.counter = b
      /\ \/ s.dbFileVers.counter = b
         \/ s.dbOrigSize = 0 /\ s.dbFileVers.nPage > m.szMax
      /\ s.dbOrigSize > 0 /\ 1 \notin InJournal(s) => s.dbFileVers = B[1].vers
  BY DEF Counting
<1>2. \A i \in DOMAIN s.journal : s.journal[i].c = B[s.journal[i].pgno]
  BY DEF Logged, Base
<1>3. 1 \in PagesIn(R) => First(R, 1).c.vers.counter = b
  <2> SUFFICES ASSUME 1 \in PagesIn(R) PROVE First(R, 1).c.vers.counter = b
    OBVIOUS
  <2>1. CASE \E i \in DOMAIN s.journal :
                s.journal[i].pgno = 1 /\ First(R, 1).c = s.journal[i].c
    BY <1>2, <2>1
  <2>2. CASE \E i \in DOMAIN s.sub :
                   s.sub[i].pgno = 1 /\ First(R, 1).c = s.sub[i].c
    BY <1>1, <2>2
  <2> QED
    BY <2>1, <2>2 DEF Recalls
<1>4. 1 \in PagesIn(R) /\ s.dbOrigSize > 0 => 1 \in InJournal(s)
  <2>1. s.dbOrigSize \in Nat
    BY Sizes DEF Sound
  <2>2. s.dbOrigSize > 0 => 1 <= s.dbOrigSize
    BY <2>1
  <2> QED
    BY <2>2, RecalledOriginal
<1> HIDE DEF b
<1>5. 1 \in Back(R, r) => 1 \in PagesIn(R)
  BY DEF Back
<1>6. /\ r.s.journal = s.journal /\ r.s.sub = s.sub
      /\ r.s.dbOrigSize = s.dbOrigSize /\ r.m.szMax = m.szMax
      /\ r.s.cache[1].c = IF 1 \in Back(R, r) THEN First(R, 1).c
                                              ELSE s.cache[1].c
      /\ r.s.dbFileVers = IF 1 \in Back(R, r)
                          THEN First(R, 1).c.vers ELSE s.dbFileVers
  BY DEF Played
<1>7. /\ r.s.cache[1].c.vers.counter = b
      /\ \A i \in DOMAIN r.s.sub :
            r.s.sub[i].pgno = 1 => r.s.sub[i].c.vers.counter = b
      /\ \/ r.s.dbFileVers.counter = b
         \/ r.s.dbOrigSize = 0 /\ r.s.dbFileVers.nPage > r.m.szMax
  BY <1>1, <1>3, <1>5, <1>6
<1>8. r.s.dbOrigSize > 0 /\ 1 \notin InJournal(r.s) => r.s.dbFileVers = B[1].vers
  BY <1>1, <1>4, <1>5, <1>6 DEF InJournal
<1> QED
  BY <1>7, <1>8 DEF Counting, b

\* After a playback page 1 gives the size of the database it heads.
LEMMA PlayedHeaded ==
    ASSUME NEW s, Sound(s), s.eState # PAGER_WRITER_LOCKED,
           1 \in DOMAIN s.cache,
           NEW m, NEW B, Tx(s, m, B),
           NEW n, NEW R, NEW size, Rewinds(s, n, R, size), size > 0,
           NEW r, Played(s, m, R, r), r.s.dbSize = size, Fewer(s, r.s, n)
    PROVE  Headed(r.s, r.m, B)
<1>1. /\ Typed(s) /\ JournalOK(s) /\ Logged(s, m, B) /\ Tracked(s) /\ Grown(s)
      /\ Headed(s, m, B) /\ Base(s, m, B)
  BY DEF Sound, Tx, Logged
<1>2. PICK k \in Int, j \in Int :
              /\ IsReplay(s, k, j, R) /\ Recalls(s, k, j, R) /\ Older(s, k, j, n)
              /\ n = 0 => k = 0
              /\ n > 0 => /\ k = s.aSavepoint[n].iOffset
                          /\ j = s.aSavepoint[n].iSubRec
              /\ s.dbOrigSize <= size /\ size <= s.dbSize
  BY <1>1, RewindsFacts
<1>3. r.s.cache[1].c = IF 1 \in Back(R, r) THEN First(R, 1).c
                                           ELSE s.cache[1].c
  BY DEF Played
<1>4. 1 \in 1..size /\ size \in Nat
  BY Sizes DEF Played
<1>5. n \in Nat /\ s.dbOrigSize \in Nat
  BY <1>1, JournalDomains, Sizes DEF Rewinds
<1>6. r.s.cache[1].c.vers.nPage = size
  <2>1. CASE n = 0
    <3>1. size = s.dbOrigSize /\ k = 0
      BY <1>2, <2>1 DEF Rewinds
    <3>2. B[1].vers.nPage = size
      BY <1>1, <3>1 DEF Headed
    <3>3. CASE 1 \in InJournal(s)
      <4>1. PICK i \in DOMAIN s.journal : s.journal[i].pgno = 1
        BY <3>3 DEF InJournal, PagesIn
      <4>2. i > k
        BY <1>1, <3>1, <4>1, JournalDomains
      <4>3. Replayed(R, 1, s.journal[i].c, i <= s.journalHdr)
        BY <1>1, <1>2, <4>1, <4>2, ReplayedJournal
      <4>4. 1 \in Back(R, r)
        BY <1>4, <4>3 DEF Replayed, Back
      <4>5. s.journal[i].c = B[1]
        BY <1>1, <4>1 DEF Base
      <4> QED
        BY <1>3, <3>2, <4>3, <4>4, <4>5 DEF Replayed
    <3>4. CASE 1 \notin InJournal(s)
      <4>1. 1 \in 1..s.dbOrigSize
        BY <1>4, <3>1
      <4>2. 1 \notin PagesIn(R)
        <5>1. SubOK(s) /\ 1 <= s.dbOrigSize
          BY <1>1, <4>1 DEF Tracked
        <5> QED
          BY <1>2, <3>4, <5>1, RecalledOriginal
      <4>3. s.cache[1].c = B[1]
        BY <1>1, <3>4, <4>1 DEF Base
      <4> QED
        BY <1>3, <3>2, <4>2, <4>3 DEF Back
    <3> QED
      BY <3>3, <3>4
  <2>2. CASE n > 0
    <3>1. /\ n \in DOMAIN s.aSavepoint /\ size = s.aSavepoint[n].nOrig
          /\ IsReplay(s, s.aSavepoint[n].iOffset, s.aSavepoint[n].iSubRec, R)
      BY <2>2 DEF Rewinds
    <3>2. PICK c \in Content : /\ Saved(s, m, s.aSavepoint[n], 1, c)
                               /\ c.vers.nPage = s.aSavepoint[n].nOrig
      BY <1>1, <3>1 DEF Headed
    <3>3. r.s.cache[1].c = c
      BY <1>1, <1>4, <3>1, <3>2, PlayedSaved
    <3> QED
      BY <3>1, <3>2, <3>3
  <2> QED
    BY <1>5, <2>1, <2>2
<1>7. \A i \in DOMAIN r.s.aSavepoint :
          \E c \in Content : /\ Saved(r.s, r.m, r.s.aSavepoint[i], 1, c)
                             /\ c.vers.nPage = r.s.aSavepoint[i].nOrig
  <2>1. Carries(s, m, r.s, r.m)
    BY <1>1, <1>2, PlayedCarries
  <2> SUFFICES ASSUME NEW i \in DOMAIN r.s.aSavepoint
               PROVE  \E c \in Content :
                         /\ Saved(r.s, r.m, r.s.aSavepoint[i], 1, c)
                         /\ c.vers.nPage = r.s.aSavepoint[i].nOrig
    OBVIOUS
  <2>2. /\ i \in DOMAIN s.aSavepoint /\ r.s.aSavepoint[i] = s.aSavepoint[i]
        /\ i \in 1..Len(r.s.aSavepoint)
    BY DEF Fewer
  <2>3. PICK c \in Content : /\ Saved(s, m, s.aSavepoint[i], 1, c)
                             /\ c.vers.nPage = s.aSavepoint[i].nOrig
    BY <1>1, <2>2 DEF Headed
  <2>4. 1 \in 1..s.aSavepoint[i].nOrig
    <3>1. s.aSavepoint[i] \in SavepointType /\ 1 <= s.aSavepoint[i].nOrig
      BY <2>2 DEF Sound, MarksBound
    <3>2. s.aSavepoint[i].nOrig \in 0..MaxPage /\ MaxPage \in Nat
      BY <3>1, PagerAssumption DEF SavepointType
    <3> QED
      BY <3>1, <3>2
  <2>5. Saved(r.s, r.m, r.s.aSavepoint[i], 1, c)
    BY <2>1, <2>2, <2>3, <2>4 DEF Carries
  <2> QED
    BY <2>2, <2>3, <2>5
<1>8. s.dbOrigSize > 0 => B[1].vers.nPage = s.dbOrigSize
  BY <1>1 DEF Headed
<1> QED
  BY <1>6, <1>7, <1>8 DEF Headed, Played

\* A playback leaves the transaction as it was at the savepoint.
LEMMA PlayedTx ==
    ASSUME NEW s, Sound(s), s.eState # PAGER_WRITER_LOCKED,
           1 \in DOMAIN s.cache,
           NEW m, StoreTyped(m), NEW B, Tx(s, m, B),
           NEW n, NEW R, NEW size, Rewinds(s, n, R, size),
           NEW r, Played(s, m, R, r), r.s.dbSize = size, Fewer(s, r.s, n)
    PROVE  /\ size > 0 => Tx(r.s, r.m, B)
           /\ ~s.memDb => Counting(r.s, r.m, B)
<1>1. Logged(r.s, r.m, B) /\ Tracked(r.s) /\ Grown(r.s)
  BY PlayedFollows
<1>2. ~s.memDb => Counting(r.s, r.m, B)
  <2>1. Logged(s, m, B) /\ SubOK(s) /\ Tracked(s) /\ Grown(s)
        /\ (~s.memDb => Counting(s, m, B))
    BY DEF Tx, Tracked
  <2>2. PICK k \in Int, j \in Int : Recalls(s, k, j, R)
    BY <2>1, RewindsFacts
  <2> QED
    BY <2>1, <2>2, PlayedCounting
<1>3. size > 0 => Headed(r.s, r.m, B)
  BY PlayedHeaded
<1>4. r.s.memDb = s.memDb
  BY DEF Played
<1> QED
  BY <1>1, <1>2, <1>3, <1>4 DEF Tx
-----------------------------------------------------------------------------
(* The first page of an empty image, and the end of a transaction.         *)

\* newDatabase() makes page 1 of an empty database inside its transaction.
LEMMA FirstTx ==
    ASSUME NEW s, Sound(s), NEW m, StoreTyped(m), NEW B,
           Logged(s, m, B), Tracked(s), Grown(s),
           s.dbSize = 0, s.aSavepoint = <<>>,
           ~s.memDb => /\ Counts(s, 0)
                       /\ \/ s.dbFileVers.counter = 0
                          \/ s.dbFileVers.nPage > m.szMax
    PROVE  Tx(NewDatabase(s, m), m, B)
<1> DEFINE t == NewDatabase(s, m)
<1>1. Follows(s, m, B, t) /\ t.cache[1].c.vers = [counter |-> 0, nPage |-> 1]
  BY NewDatabaseFollows DEF Counts
<1>2. Sound(t) /\ SameFile(s, t) /\ t.dbSize = 1
  BY NewDatabaseSound
<1> HIDE DEF t
<1>3. Typed(t) /\ Typed(s)
  BY <1>2 DEF Sound
<1>4. Logged(t, m, B) /\ Tracked(t) /\ Grown(t)
  BY <1>1, <1>3, FollowsGrown DEF Follows
<1>5. s.dbOrigSize = 0 /\ t.dbOrigSize = 0
  <2>1. s.dbOrigSize \in Nat /\ s.dbOrigSize <= 0
    BY <1>3, Sizes DEF Grown
  <2> QED
    BY <1>2, <2>1 DEF SameFile
<1>6. t.aSavepoint = <<>> /\ DOMAIN t.aSavepoint = {}
  <2>1. Len(t.aSavepoint) = Len(s.aSavepoint) /\ Len(s.aSavepoint) = 0
    BY <1>1 DEF Follows
  <2>2. DOMAIN t.aSavepoint = 1..Len(t.aSavepoint)
        /\ t.aSavepoint \in Seq(MarkType)
    BY <1>3, JournalDomains DEF Typed
  <2> QED
    BY <2>1, <2>2, EmptySeq
<1>7. Headed(t, m, B)
  BY <1>1, <1>2, <1>5, <1>6 DEF Headed
<1>8. ASSUME ~s.memDb PROVE Counting(t, m, B)
  <2>1. Counts(t, 0)
    BY <1>1, <1>8 DEF Follows
  <2>2. B[1].vers.counter = 0
    <3>1. 1 \in 1..MaxPage /\ 1 > 0
      BY PagerAssumption
    <3>2. B[1] = Zero
      BY <1>5, <3>1 DEF Logged, Base
    <3> QED
      BY <3>2, ZeroContent
  <2>3. t.dbFileVers = s.dbFileVers
    BY <1>2 DEF SameFile
  <2> QED
    BY <1>5, <1>8, <2>1, <2>2, <2>3 DEF Counting, Counts
<1>9. t.memDb = s.memDb
  BY <1>2 DEF SameFile
<1>10. Tx(t, m, B)
  BY <1>4, <1>7, <1>8, <1>9 DEF Tx
<1> QED
  BY <1>10 DEF t

\* A pager, before it ends a transaction, of which nothing stays.
Restored(s, m, B) ==
    /\ Typed(s) /\ B \in Databases /\ 1 \in DOMAIN s.cache
    /\ ~s.memDb => s.hasHeldSharedLock
    /\ \A n \in DOMAIN s.cache : n <= s.dbSize => s.cache[n].c = B[n]
    /\ \A n \in 1..MaxPage : n > s.dbSize => B[n] = Zero
    /\ s.dbSize > 0 => B[1].vers.nPage = s.dbSize
    /\ s.memDb => \A n \in 1..s.dbSize : n \in DOMAIN s.cache \/ B[n] = Zero
    /\ ~s.memDb => /\ Stores(m, s.dbSize, B) /\ NotAhead(s, m, B)
                   /\ s.dbSize > 0 => s.dbFileVers = B[1].vers

\* A pager after a transaction that left B.
Settled(s, m, B) ==
    /\ s.eState = PAGER_READER /\ HoldsOK(s, m, B)
    /\ B \in Databases
    /\ s.memDb => /\ B[1].vers.nPage = s.dbSize
                  /\ \A n \in 1..s.dbSize : Holding(s, m, n) = B[n]
    /\ ~s.memDb => Stores(m, Len(m.pages), B) /\ StoreHeaded(m)

\* A store that holds a committed database gives its size in page 1.
LEMMA StoreGivesSize ==
    ASSUME NEW m, StoreTyped(m), NEW B, Stores(m, Len(m.pages), B),
           Len(m.pages) > 0 => B[1].vers.nPage = Len(m.pages)
    PROVE  StoreHeaded(m)
<1>1. SUFFICES ASSUME m.pages # <<>> PROVE m.pages[1].vers.nPage = Len(m.pages)
  BY DEF StoreHeaded
<1>2. m.pages \in Seq(Content) /\ Len(m.pages) \in Nat
      /\ DOMAIN m.pages = 1..Len(m.pages)
  BY LenProperties DEF StoreTyped
<1>3. Len(m.pages) # 0
  BY <1>1, <1>2, EmptySeq
<1>4. Len(m.pages) > 0 /\ 1 \in DOMAIN m.pages
  BY <1>2, <1>3
<1>5. 1 \in 1..MaxPage
  BY PagerAssumption
<1>6. m.pages[1] = B[1]
  BY <1>4, <1>5 DEF Stores, Read
<1> QED
  BY <1>4, <1>6

\* pager_end_transaction() settles what nothing stays of.
LEMMA EndedSettles ==
    ASSUME NEW s, NEW m, StoreTyped(m), NEW B, Restored(s, m, B),
           NEW bCommit \in BOOLEAN, ~bCommit \/ s.eState < PAGER_WRITER_DBMOD,
           NEW r, r = Ended(s, m, bCommit)
    PROVE  Settled(r.s, r.m, B)
<1>1. Typed(s)
  BY DEF Restored
<1>2. Ends(s, m, bCommit, r)
  BY <1>1, EndedFacts
<1>3. /\ Typed(r.s) /\ StoreTyped(r.m) /\ r.m.szMax = m.szMax
      /\ r.s.eState = PAGER_READER /\ r.s.memDb = s.memDb
      /\ r.s.hasHeldSharedLock = s.hasHeldSharedLock
      /\ r.s.dbFileVers = s.dbFileVers /\ r.s.dbSize = s.dbSize
  BY <1>2 DEF Ends, SameLimit
<1>4. s.eState \in Int
  <2>1. s.eState \in NOT_OPEN..PAGER_ERROR
    BY <1>1 DEF Typed
  <2> QED
    BY ONLY <2>1
<1>5. r.m.pages = m.pages
  <2>1. ~(bCommit /\ s.eState >= PAGER_WRITER_DBMOD)
    BY <1>4
  <2> QED
    BY <1>2, <2>1 DEF Ends
<1>6. \A n : Read(r.m, n) = Read(m, n)
  BY <1>5 DEF Read
<1>7. s.dbSize \in Nat /\ \A n \in DOMAIN s.cache : n \in 1..MaxPage
  BY <1>1, Sizes
<1>8. \A n \in DOMAIN r.s.cache : r.s.cache[n].c = B[n]
  <2> SUFFICES ASSUME NEW n \in DOMAIN r.s.cache PROVE r.s.cache[n].c = B[n]
    OBVIOUS
  <2>1. n \in DOMAIN s.cache
    BY <1>2 DEF Ends
  <2>2. r.s.cache[n].c = IF n > s.dbSize THEN Zero ELSE s.cache[n].c
    BY <1>2 DEF Ends, CleanWith
  <2>3. n > s.dbSize \/ n <= s.dbSize
    BY <1>7, <2>1
  <2>4. n > s.dbSize => ~(n <= s.dbSize)
    BY <1>7, <2>1
  <2> QED
    BY <1>7, <2>1, <2>2, <2>3, <2>4 DEF Restored
<1>9. CASE s.memDb
  <2>1. 1 \in DOMAIN r.s.cache => r.s.cache[1].c.vers.nPage = r.s.dbSize
    <3>1. CASE s.dbSize > 0
      BY <1>3, <1>8, <3>1 DEF Restored
    <3>2. CASE ~(s.dbSize > 0)
      <4>1. s.dbSize = 0 /\ 1 \in 1..MaxPage /\ 1 > s.dbSize
        BY <1>7, <3>2, PagerAssumption
      <4>2. B[1] = Zero
        BY <4>1 DEF Restored
      <4> QED
        BY <1>3, <1>8, <4>1, <4>2, ZeroContent
    <3> QED
      BY <3>1, <3>2
  <2>2. HoldsOK(r.s, r.m, B)
    BY <1>3, <1>9, <2>1 DEF HoldsOK, InTx
  <2>3. B[1].vers.nPage = s.dbSize
    <3>1. CASE s.dbSize > 0
      BY <3>1 DEF Restored
    <3>2. CASE ~(s.dbSize > 0)
      <4>1. s.dbSize = 0 /\ 1 \in 1..MaxPage /\ 1 > s.dbSize
        BY <1>7, <3>2, PagerAssumption
      <4>2. B[1] = Zero
        BY <4>1 DEF Restored
      <4> QED
        BY <4>1, <4>2, ZeroContent
    <3> QED
      BY <3>1, <3>2
  <2>4. ASSUME NEW n \in 1..s.dbSize PROVE Holding(r.s, r.m, n) = B[n]
    <3>1. CASE n \in DOMAIN r.s.cache
      BY <1>8, <3>1 DEF Holding
    <3>2. CASE n \notin DOMAIN r.s.cache
      <4>1. n \notin DOMAIN s.cache
        <5>1. DOMAIN r.s.cache
                = DOMAIN s.cache \cap 1..(IF s.dbSize >= 1 THEN s.dbSize ELSE 1)
          BY <1>2 DEF Ends
        <5>2. n \in 1..(IF s.dbSize >= 1 THEN s.dbSize ELSE 1)
          BY <1>7, <2>4
        <5> QED
          BY <3>2, <5>1, <5>2
      <4>2. B[n] = Zero
        BY <1>9, <2>4, <4>1 DEF Restored
      <4> QED
        BY <1>3, <1>9, <3>2, <4>2 DEF Holding
    <3> QED
      BY <3>1, <3>2
  <2> QED
    BY <1>3, <1>9, <2>2, <2>3, <2>4 DEF Settled, Restored
<1>10. CASE ~s.memDb
  <2>1. /\ Stores(m, s.dbSize, B) /\ NotAhead(s, m, B) /\ s.hasHeldSharedLock
        /\ s.dbSize > 0 => s.dbFileVers = B[1].vers
    BY <1>10 DEF Restored
  <2>2. Stores(r.m, Len(r.m.pages), B) /\ s.dbSize = Len(r.m.pages)
    BY <1>5, <1>6, <2>1 DEF Stores
  <2>3. StoreHeaded(r.m)
    <3>1. Len(r.m.pages) > 0 => B[1].vers.nPage = Len(r.m.pages)
      BY <2>2 DEF Restored
    <3> QED
      BY <1>3, <2>2, <3>1, StoreGivesSize
  <2>4. Reads(r.s, r.m, B)
    BY <1>3, <1>8, <2>1, <2>2 DEF Reads, NotAhead
  <2>5. HoldsOK(r.s, r.m, B)
    BY <1>3, <1>10, <2>1, <2>4 DEF HoldsOK, InTx
  <2> QED
    BY <1>3, <1>10, <2>2, <2>3, <2>5 DEF Settled, Restored
<1> QED
  BY <1>9, <1>10
-----------------------------------------------------------------------------
(* Rolling back a transaction.                                             *)

\* A transaction that can be undone: what it began with is in the journal,
\* or is still there.
Undo(s, m, B) ==
    /\ Typed(s) /\ s.eState \in PAGER_WRITER_CACHEMOD..PAGER_WRITER_FINISHED
    /\ 1 \in DOMAIN s.cache
    /\ JournalOK(s) /\ Base(s, m, B)
    /\ s.dbOrigSize > 0 => B[1].vers.nPage = s.dbOrigSize
    /\ s.memDb => InJournal(s) \subseteq DOMAIN s.cache
    /\ ~s.memDb =>
          /\ s.hasHeldSharedLock /\ Unwritten(s, m, B)
          /\ s.eState < PAGER_WRITER_DBMOD =>
                s.journalHdr = 0 /\ Len(m.pages) = s.dbOrigSize
          /\ s.dbOrigSize > 0 => 1 \in InJournal(s) \/ s.dbFileVers = B[1].vers
          /\ s.dbOrigSize = 0 => NotAhead(s, m, B)

\* What pager_playback does, before the transaction ends.
Undone(s, m) ==
    Playback(CutBack(s), FileBack(s, m), JournalFrom(CutBack(s), 0))

\* sqlite3PagerRollback() is a playback followed by the end of the transaction.
LEMMA UndoneEnds ==
    ASSUME NEW s, NEW m, s.eState # PAGER_WRITER_LOCKED
    PROVE  RolledBack(s, m) = Ended(Undone(s, m).s, Undone(s, m).m, FALSE)
  BY DEF RolledBack, Undone, CutBack, FileBack, OnFile

\* The first record of every page of the journal is its original.
Originals(s, B, R) ==
    /\ PagesIn(R) = InJournal(s)
    /\ \A n \in InJournal(s) : First(R, n).c = B[n]
    /\ \A n \in InJournal(s) :
          ~First(R, n).safe =>
              \E i \in DOMAIN s.journal : i > s.journalHdr /\ s.journal[i].pgno = n

\* The records of the journal are the contents before the transaction.
LEMMA JournalOriginals ==
    ASSUME NEW s, Typed(s), JournalOK(s), NEW B,
           \A i \in DOMAIN s.journal : s.journal[i].c = B[s.journal[i].pgno],
           NEW R, R = JournalFrom(s, 0)
    PROVE  Originals(s, B, R)
<1>1. IsReplay(s, 0, Len(s.sub), R)
  BY WholeJournal
<1>2. Recalls(s, 0, Len(s.sub), R)
  BY <1>1, ReplayRecalls
<1>3. /\ Len(s.journal) \in Nat /\ DOMAIN s.journal = 1..Len(s.journal)
      /\ Len(s.sub) \in Nat /\ DOMAIN s.sub = 1..Len(s.sub)
      /\ s.journalHdr \in Int
  BY JournalDomains DEF Typed
<1>4. \A i \in DOMAIN s.journal : i > 0
  BY <1>3
<1>5. \A i \in DOMAIN s.sub : ~(i > Len(s.sub))
  BY <1>3
<1>6. \A n \in PagesIn(R) :
          \E i \in DOMAIN s.journal :
                /\ s.journal[i].pgno = n /\ First(R, n).c = s.journal[i].c
                /\ First(R, n).safe = (i <= s.journalHdr)
  BY <1>2, <1>5 DEF Recalls
<1>7. PagesIn(R) \subseteq InJournal(s)
  BY <1>6 DEF InJournal, PagesIn
<1>8. InJournal(s) \subseteq PagesIn(R)
  <2>1. \A i \in DOMAIN s.journal : s.journal[i].pgno \in PagesIn(R)
    BY <1>2, <1>4 DEF Recalls
  <2>2. \A n \in InJournal(s) : \E i \in DOMAIN s.journal : s.journal[i].pgno = n
    BY DEF InJournal, PagesIn
  <2> QED
    BY <2>1, <2>2
<1>9. ASSUME NEW n \in InJournal(s)
      PROVE  /\ First(R, n).c = B[n]
             /\ ~First(R, n).safe =>
                  \E i \in DOMAIN s.journal :
                     i > s.journalHdr /\ s.journal[i].pgno = n
  <2>1. PICK i \in DOMAIN s.journal :
                /\ s.journal[i].pgno = n /\ First(R, n).c = s.journal[i].c
                /\ First(R, n).safe = (i <= s.journalHdr)
    BY <1>6, <1>8
  <2>2. ~(i <= s.journalHdr) => i > s.journalHdr
    BY <1>3
  <2> QED
    BY <2>1, <2>2
<1> QED
  BY <1>7, <1>8, <1>9 DEF Originals

\* Playing the journal back restores the database before the transaction.
LEMMA UndoneRestored ==
    ASSUME NEW s, NEW m, StoreTyped(m), NEW B, Undo(s, m, B),
           NEW r, r = Undone(s, m)
    PROVE  Restored(r.s, r.m, B)
<1> DEFINE cut == CutBack(s)
           file == FileBack(s, m)
           R == JournalFrom(cut, 0)
<1>1. Typed(s) /\ JournalOK(s) /\ Base(s, m, B) /\ 1 \in DOMAIN s.cache
  BY DEF Undo
<1>2. /\ Typed(cut) /\ SameJournals(s, cut)
      /\ cut.eState = s.eState /\ cut.memDb = s.memDb
      /\ cut.hasHeldSharedLock = s.hasHeldSharedLock
      /\ cut.dbSize = s.dbOrigSize
      /\ cut.dbOrigSize = s.dbOrigSize
      /\ cut.dbFileVers = s.dbFileVers
      /\ cut.cache = s.cache
      /\ cut.dbFileSize = IF OnFile(s) THEN s.dbOrigSize ELSE s.dbFileSize
  BY <1>1, CutBackFacts
<1>3. /\ s.dbOrigSize \in Nat /\ s.dbOrigSize <= MaxPage /\ MaxPage \in Nat
      /\ s.dbOrigSize \in 0..MaxPage
      /\ \A n \in DOMAIN s.cache : n \in 1..MaxPage /\ n \in Nat
  <2>1. /\ s.dbOrigSize \in Nat /\ s.dbOrigSize <= MaxPage /\ MaxPage \in Nat
        /\ \A n \in DOMAIN s.cache : n \in 1..MaxPage /\ n \in Nat
    BY <1>1, Sizes
  <2> QED
    BY <2>1
<1>4. StoreTyped(file) /\ file.szMax = m.szMax
  BY <1>3, ResizedFacts DEF FileBack, SameLimit
<1>5. OnFile(s) => /\ Len(file.pages) = s.dbOrigSize
                   /\ \A n \in 1..MaxPage : Read(file, n)
                         = IF n <= s.dbOrigSize THEN Read(m, n) ELSE Zero
  BY <1>3, ReadResized DEF FileBack
<1>6. ~OnFile(s) => file = m
  BY DEF FileBack
<1>7. GoesBack(cut, cut)
  BY <1>2 DEF GoesBack
<1>8. cut.journal = s.journal /\ cut.journalHdr = s.journalHdr
  BY <1>2 DEF SameJournals
<1>9. Originals(cut, B, R)
  <2>1. JournalOK(cut)
    BY <1>1, <1>2, <1>8 DEF JournalOK
  <2>2. \A i \in DOMAIN cut.journal : cut.journal[i].c = B[cut.journal[i].pgno]
    BY <1>1, <1>8 DEF Base
  <2> QED
    BY <1>2, <2>1, <2>2, JournalOriginals
<1>10. R \in Seq(PlayType)
  BY <1>2, WholeJournal DEF IsReplay
<1>11. r = Playback(cut, file, R)
  BY DEF Undone
<1> HIDE DEF cut, file, R
<1>12. Played(cut, file, R, r) /\ r.s.dbSize = s.dbOrigSize
  BY <1>2, <1>4, <1>7, <1>10, <1>11, PlaybackPlayed
<1>13. InJournal(cut) = InJournal(s)
  BY <1>8 DEF InJournal
<1>14. \A n \in InJournal(s) : n \in 1..s.dbOrigSize
  <2>1. \A i \in DOMAIN s.journal : s.journal[i].pgno \in 1..MaxPage
    BY <1>1, JournalDomains DEF RecordType
  <2>2. \A n \in InJournal(s) : \E i \in DOMAIN s.journal : s.journal[i].pgno = n
    BY DEF InJournal, PagesIn
  <2>3. \A n \in InJournal(s) : n \in 1..MaxPage /\ n <= s.dbOrigSize
    BY <1>1, <2>1, <2>2 DEF JournalOK
  <2> QED
    BY <1>3, <2>3
<1>15. Back(R, r) = InJournal(s)
  BY <1>9, <1>12, <1>13, <1>14 DEF Back, Originals
<1>16. OnFile(cut) = OnFile(s)
  BY <1>2 DEF OnFile
<1>17. Out(cut, R, r) = {n \in InJournal(s) : First(R, n).safe /\ OnFile(s)}
  BY <1>15, <1>16 DEF Out
<1> DEFINE T == Out(cut, R, r)
<1>18. /\ \A n \in InJournal(s) : First(R, n).c = B[n]
       /\ \A n \in InJournal(s) :
            ~First(R, n).safe =>
              \E i \in DOMAIN s.journal : i > s.journalHdr /\ s.journal[i].pgno = n
  BY <1>8, <1>9, <1>13 DEF Originals
<1>19. T \subseteq InJournal(s)
  BY <1>17
<1>20. \A n \in T : First(R, n).c = B[n]
  BY <1>18, <1>19
<1>21. ~s.memDb => \A n \in InJournal(s) : n \notin T => Read(m, n) = B[n]
  <2> SUFFICES ASSUME ~s.memDb, NEW n \in InJournal(s), n \notin T
               PROVE  Read(m, n) = B[n]
    OBVIOUS
  <2>1. Unwritten(s, m, B) /\ (s.eState < PAGER_WRITER_DBMOD => s.journalHdr = 0)
    BY DEF Undo
  <2>2. PICK i \in DOMAIN s.journal : i > s.journalHdr /\ s.journal[i].pgno = n
    <3>1. CASE OnFile(s)
      BY <1>17, <1>18, <3>1
    <3>2. CASE ~OnFile(s)
      <4>1. s.journalHdr = 0
        <5>1. s.eState \in NOT_OPEN..PAGER_ERROR
          BY <1>1 DEF Typed
        <5>2. ~(s.eState >= PAGER_WRITER_DBMOD)
          BY <3>2 DEF OnFile
        <5>3. s.eState < PAGER_WRITER_DBMOD
          BY ONLY <5>1, <5>2
        <5> QED
          BY <2>1, <5>3
      <4>2. \A i \in DOMAIN s.journal : i > 0
        BY <1>1, JournalDomains
      <4>3. \E i \in DOMAIN s.journal : s.journal[i].pgno = n
        BY DEF InJournal, PagesIn
      <4> QED
        BY <4>1, <4>2, <4>3
    <3> QED
      BY <3>1, <3>2
  <2> QED
    BY <2>1, <2>2 DEF Unwritten
<1>22. \A n \in 1..MaxPage : n > s.dbOrigSize => B[n] = Zero
  BY <1>1 DEF Base
<1>23. \A n \in 1..s.dbOrigSize : n \notin InJournal(s) =>
          /\ n \in DOMAIN s.cache => s.cache[n].c = B[n]
          /\ ~s.memDb => Read(m, n) = B[n]
  BY <1>1 DEF Base
<1>24. /\ Typed(r.s) /\ StoreTyped(r.m) /\ r.m.szMax = m.szMax
       /\ r.s.memDb = s.memDb /\ r.s.hasHeldSharedLock = s.hasHeldSharedLock
       /\ DOMAIN r.s.cache = DOMAIN s.cache
       /\ \A n \in DOMAIN s.cache :
             r.s.cache[n].c = IF n \in InJournal(s) THEN First(R, n).c
                                                    ELSE s.cache[n].c
       /\ \A n \in 1..MaxPage :
             Read(r.m, n) = IF n \in T THEN First(R, n).c ELSE Read(file, n)
       /\ Len(r.m.pages) = Max(T \cup {Len(file.pages)})
       /\ r.s.dbFileVers = IF 1 \in InJournal(s)
                           THEN First(R, 1).c.vers ELSE s.dbFileVers
  BY <1>2, <1>4, <1>12, <1>15 DEF Played
<1> HIDE DEF T
<1>25. \A n \in DOMAIN r.s.cache : n <= r.s.dbSize => r.s.cache[n].c = B[n]
  <2> SUFFICES ASSUME NEW n \in DOMAIN s.cache, n <= s.dbOrigSize
               PROVE  r.s.cache[n].c = B[n]
    BY <1>12, <1>24
  <2>1. n \in 1..s.dbOrigSize
    BY <1>3
  <2> QED
    BY <1>18, <1>23, <1>24, <2>1
<1>26. ASSUME ~s.memDb PROVE Stores(r.m, s.dbOrigSize, B)
  <2>1. \A n \in 1..s.dbOrigSize : Read(r.m, n) = B[n]
    <3> SUFFICES ASSUME NEW n \in 1..s.dbOrigSize PROVE Read(r.m, n) = B[n]
      OBVIOUS
    <3>1. n \in 1..MaxPage /\ n <= s.dbOrigSize
      BY <1>3
    <3>2. Read(file, n) = Read(m, n)
      BY <1>5, <1>6, <3>1
    <3>3. n \notin T => Read(m, n) = B[n]
      BY <1>21, <1>23, <1>26
    <3> QED
      BY <1>20, <1>24, <3>1, <3>2, <3>3
  <2>2. Len(file.pages) = s.dbOrigSize
    <3>1. CASE ~OnFile(s)
      <4>1. s.eState \in NOT_OPEN..PAGER_ERROR
        BY <1>1 DEF Typed
      <4>2. ~(s.eState >= PAGER_WRITER_DBMOD)
        BY <1>26, <3>1 DEF OnFile
      <4>3. s.eState < PAGER_WRITER_DBMOD
        BY ONLY <4>1, <4>2
      <4> QED
        BY <1>6, <1>26, <3>1, <4>3 DEF Undo
    <3> QED
      BY <1>5, <3>1
  <2>3. \A n \in 1..MaxPage : n > s.dbOrigSize => Read(r.m, n) = B[n]
    <3> SUFFICES ASSUME NEW n \in 1..MaxPage, n > s.dbOrigSize
                 PROVE  Read(r.m, n) = B[n]
      OBVIOUS
    <3>1. n \notin T
      <4>1. n \notin 1..s.dbOrigSize
        BY <1>3
      <4> QED
        BY <1>14, <1>19, <4>1
    <3>2. Read(file, n) = Zero
      BY <1>4, <2>2, ReadBeyond
    <3> QED
      BY <1>22, <1>24, <3>1, <3>2
  <2>4. Len(r.m.pages) = s.dbOrigSize
    <3>1. T \in SUBSET (1..MaxPage)
      <4>1. \A n \in 1..s.dbOrigSize : n \in 1..MaxPage
        BY <1>3
      <4> QED
        BY <1>14, <1>19, <4>1
    <3>2. \A n \in T : n <= s.dbOrigSize
      BY <1>14, <1>19
    <3>3. Max(T \cup {s.dbOrigSize}) <= s.dbOrigSize
          /\ Max(T \cup {s.dbOrigSize}) >= s.dbOrigSize
          /\ Max(T \cup {s.dbOrigSize}) \in 0..MaxPage
      <4>1. s.dbOrigSize <= s.dbOrigSize
        BY <1>3
      <4> QED
        BY <1>3, <3>1, <3>2, <4>1, MaxWith
    <3> QED
      BY <1>3, <1>24, <2>2, <3>3
  <2>5. \A n \in 1..MaxPage : n \in 1..s.dbOrigSize \/ n > s.dbOrigSize
    BY <1>3
  <2> QED
    BY <1>1, <2>1, <2>3, <2>4, <2>5 DEF Stores, Base
<1>27. 1 \in InJournal(s) => r.s.dbFileVers = B[1].vers
  BY <1>18, <1>24
<1>28. ASSUME ~s.memDb
       PROVE  /\ s.dbOrigSize > 0 => r.s.dbFileVers = B[1].vers
              /\ NotAhead(r.s, r.m, B)
  <2>1. s.dbOrigSize > 0 => r.s.dbFileVers = B[1].vers
    BY <1>24, <1>27, <1>28 DEF Undo
  <2>2. B[1].vers.counter <= B[1].vers.counter
    <3>1. B[1] \in Content
      BY <1>1, PagerAssumption DEF Base, Databases
    <3>2. B[1].vers.counter \in Nat
      BY <3>1, PagerAssumption DEF Content, VersType
    <3> QED
      BY <3>2
  <2>3. s.dbOrigSize > 0 => NotAhead(r.s, r.m, B)
    BY <2>1, <2>2 DEF NotAhead
  <2>4. ASSUME s.dbOrigSize = 0 PROVE NotAhead(r.s, r.m, B)
    <3>1. 1 \notin InJournal(s)
      BY <1>14, <2>4
    <3>2. r.s.dbFileVers = s.dbFileVers
      BY <1>24, <3>1
    <3>3. NotAhead(s, m, B)
      BY <1>28, <2>4 DEF Undo
    <3> QED
      BY <1>24, <3>2, <3>3 DEF NotAhead
  <2> QED
    BY <1>3, <2>1, <2>3, <2>4
<1>29. s.dbOrigSize > 0 => B[1].vers.nPage = s.dbOrigSize
  BY DEF Undo
<1>34. ASSUME s.memDb, NEW n \in 1..r.s.dbSize
       PROVE  n \in DOMAIN r.s.cache \/ B[n] = Zero
  <2>1. n \in 1..s.dbOrigSize
    BY <1>12, <1>34
  <2>2. n \in InJournal(s) => n \in DOMAIN s.cache
    BY <1>34 DEF Undo
  <2>3. n \notin InJournal(s) => n \in DOMAIN s.cache \/ B[n] = Zero
    BY <1>1, <1>34, <2>1 DEF Base
  <2> QED
    BY <1>24, <2>2, <2>3
<1>30. ~s.memDb => s.hasHeldSharedLock
  BY DEF Undo
<1>31. B \in Databases
  BY <1>1 DEF Base
<1>32. \A n \in 1..MaxPage : n > r.s.dbSize => B[n] = Zero
  BY <1>12, <1>22
<1>33. ~s.memDb => /\ Stores(r.m, r.s.dbSize, B) /\ NotAhead(r.s, r.m, B)
                   /\ r.s.dbSize > 0 => r.s.dbFileVers = B[1].vers
  BY <1>12, <1>26, <1>28
<1> QED
  BY <1>1, <1>12, <1>24, <1>25, <1>29, <1>30, <1>31, <1>32, <1>33, <1>34
  DEF Restored

\* A rollback leaves the database that was there before the transaction.
LEMMA RolledBackSettles ==
    ASSUME NEW s, NEW m, StoreTyped(m), NEW B, Undo(s, m, B),
           NEW r, r = RolledBack(s, m)
    PROVE  Settled(r.s, r.m, B)
<1> DEFINE u == Undone(s, m)
<1>1. s.eState # PAGER_WRITER_LOCKED /\ Typed(s)
  BY DEF Undo
<1>2. r = Ended(u.s, u.m, FALSE)
  BY <1>1, UndoneEnds
<1>3. Restored(u.s, u.m, B)
  BY UndoneRestored
<1>4. StoreTyped(u.m)
  <2>1. s.dbOrigSize \in 0..MaxPage
    BY <1>1 DEF Typed
  <2>2. StoreTyped(FileBack(s, m))
    BY <2>1, ResizedFacts DEF FileBack, SameLimit
  <2>3. Typed(CutBack(s)) /\ JournalFrom(CutBack(s), 0) \in Seq(PlayType)
    BY <1>1, CutBackFacts, WholeJournal DEF IsReplay
  <2> QED
    BY <2>2, <2>3, PlaybackOverlays DEF Undone, Underlaid
<1> HIDE DEF u
<1> QED
  BY <1>2, <1>3, <1>4, EndedSettles

\* A ":memory:" database keeps the pages of its journal.
LEMMA MemJournalCached ==
    ASSUME NEW s, Typed(s), UnsyncedOK(s), s.eState # PAGER_WRITER_DBMOD,
           s.eState \in PAGER_WRITER_CACHEMOD..PAGER_WRITER_FINISHED,
           s.eState # PAGER_WRITER_FINISHED
    PROVE  InJournal(s) \subseteq DOMAIN s.cache
<1>1. s.eState < PAGER_WRITER_DBMOD
  OBVIOUS
<1>2. \A i \in DOMAIN s.journal : i > s.journalHdr
  BY <1>1, JournalDomains DEF UnsyncedOK
<1> QED
  BY <1>2 DEF UnsyncedOK, InJournal, PagesIn

\* A transaction that is logged, counted and holds its lock can be undone.
LEMMA LoggedUndo ==
    ASSUME NEW s, Sound(s), s.eState # PAGER_WRITER_LOCKED,
           1 \in DOMAIN s.cache, NEW m, NEW B, Logged(s, m, B),
           s.dbOrigSize > 0 => B[1].vers.nPage = s.dbOrigSize,
           s.memDb => s.eState # PAGER_WRITER_DBMOD,
           ~s.memDb => Counting(s, m, B) /\ s.hasHeldSharedLock
    PROVE  Undo(s, m, B)
<1>1. Typed(s) /\ JournalOK(s) /\ Base(s, m, B) /\ UnsyncedOK(s)
  BY DEF Sound, Logged
<1>2. s.eState \in PAGER_WRITER_CACHEMOD..PAGER_WRITER_FINISHED
  BY DEF Sound, InTx
<1>3. ASSUME ~s.memDb
      PROVE  /\ Unwritten(s, m, B)
             /\ s.eState < PAGER_WRITER_DBMOD =>
                   s.journalHdr = 0 /\ Len(m.pages) = s.dbOrigSize
  <2>1. Unwritten(s, m, B) /\ s.dbFileSize = Len(m.pages)
    BY <1>3 DEF Logged
  <2>2. s.eState < PAGER_WRITER_DBMOD => s.journalHdr = 0
    BY <1>1 DEF UnsyncedOK
  <2>3. s.eState < PAGER_WRITER_DBMOD => s.eState # PAGER_WRITER_DBMOD
    BY <1>2
  <2>4. s.eState # PAGER_WRITER_DBMOD => s.dbOrigSize = s.dbFileSize
    BY DEF Sound
  <2> QED
    BY <2>1, <2>2, <2>3, <2>4
<1>4. ASSUME ~s.memDb
      PROVE  /\ s.dbOrigSize > 0 => 1 \in InJournal(s) \/ s.dbFileVers = B[1].vers
             /\ s.dbOrigSize = 0 => NotAhead(s, m, B)
  <2>1. Counting(s, m, B)
    BY <1>4
  <2>2. s.dbFileVers.counter = B[1].vers.counter
        => s.dbFileVers.counter <= B[1].vers.counter
    <3>1. s.dbFileVers.counter \in Nat
      BY <1>1, PagerAssumption DEF Typed, VersType
    <3> QED
      BY <3>1
  <2> QED
    BY <2>1, <2>2 DEF Counting, NotAhead
<1>5. s.memDb => InJournal(s) \subseteq DOMAIN s.cache
  <2>1. InTx(s)
    BY DEF Sound
  <2>2. s.eState # PAGER_WRITER_FINISHED
    BY <2>1 DEF InTx
  <2> QED
    BY <1>1, <1>2, <2>2, MemJournalCached
<1> QED
  BY <1>1, <1>2, <1>3, <1>4, <1>5 DEF Undo

\* A transaction that has changed nothing yet has nothing to restore.
LEMMA LockedRestored ==
    ASSUME NEW s, NEW m, StoreTyped(m), Changing(s, m.szMax),
           s.eState = PAGER_WRITER_LOCKED, NEW B, Tx(s, m, B),
           ~s.memDb => s.hasHeldSharedLock
    PROVE  Restored(s, m, B)
<1>1. /\ Sound(s) /\ Typed(s) /\ Blank(s) /\ 1 \in DOMAIN s.cache
      /\ s.dbSize = s.dbOrigSize
  BY DEF Changing, Sound
<1>2. Logged(s, m, B) /\ Base(s, m, B)
  BY DEF Tx, Logged
<1>3. InJournal(s) = {}
  <2>1. s.journal = <<>>
    BY <1>1 DEF Blank
  <2> QED
    BY <2>1 DEF InJournal, PagesIn
<1>4. s.dbOrigSize \in Nat /\ \A n \in DOMAIN s.cache : n \in 1..MaxPage
  BY <1>1, Sizes
<1>5. \A n \in DOMAIN s.cache : n <= s.dbSize => s.cache[n].c = B[n]
  <2> SUFFICES ASSUME NEW n \in DOMAIN s.cache, n <= s.dbSize
               PROVE  s.cache[n].c = B[n]
    OBVIOUS
  <2>1. n \in 1..s.dbOrigSize
    BY <1>1, <1>4
  <2> QED
    BY <1>2, <1>3, <2>1 DEF Base
<1>6. \A n \in 1..MaxPage : n > s.dbSize => B[n] = Zero
  BY <1>1, <1>2 DEF Base
<1>7. s.dbSize > 0 => B[1].vers.nPage = s.dbSize
  BY <1>1 DEF Tx, Headed
<1>8. ASSUME ~s.memDb
      PROVE  /\ Stores(m, s.dbSize, B) /\ NotAhead(s, m, B)
             /\ s.dbSize > 0 => s.dbFileVers = B[1].vers
  <2>1. s.eState < PAGER_WRITER_DBMOD
    OBVIOUS
  <2>2. Stores(m, s.dbSize, B)
    BY <1>1, <1>2, <1>8, <2>1, StoreBeginning
  <2>3. Counting(s, m, B)
    BY <1>8 DEF Tx
  <2>4. s.dbSize > 0 => s.dbFileVers = B[1].vers
    BY <1>1, <1>3, <2>3 DEF Counting
  <2>5. s.dbFileVers.counter \in Nat
    BY <1>1, PagerAssumption DEF Typed, VersType
  <2>6. NotAhead(s, m, B)
    BY <2>3, <2>5 DEF Counting, NotAhead
  <2> QED
    BY <2>2, <2>4, <2>6
<1>9. ASSUME s.memDb, NEW n \in 1..s.dbSize PROVE n \in DOMAIN s.cache \/ B[n] = Zero
  BY <1>1, <1>2, <1>3, <1>9 DEF Base
<1> QED
  BY <1>1, <1>2, <1>5, <1>6, <1>7, <1>8, <1>9 DEF Restored, Base

\* A commit that did not fit.
LEMMA FlushedUndo ==
    ASSUME NEW s, NEW m, NEW B, Committable(s, m, B), ~s.memDb,
           s.hasHeldSharedLock, NEW d, Flushed(s, m, B, d), ~d.ok
    PROVE  Undo(d.s, d.m, B)
<1>1. Unwritten(d.s, d.m, B)
  <2>1. d.s.journalHdr = Len(d.s.journal) /\ Typed(d.s)
    BY DEF Flushed
  <2>2. \A i \in DOMAIN d.s.journal : ~(i > d.s.journalHdr)
    BY <2>1, JournalDomains
  <2> QED
    BY <2>2 DEF Unwritten
<1>2. NotAhead(d.s, d.m, B)
  <2>1. d.s.dbFileVers.nPage > d.m.szMax
    BY DEF Flushed
  <2> QED
    BY <2>1 DEF NotAhead
<1>3. d.s.dbOrigSize > 0 => B[1].vers.nPage = d.s.dbOrigSize
  BY DEF Flushed, Committable
<1>4. d.s.dbOrigSize > 0 => 1 \in InJournal(d.s)
  BY DEF Flushed
<1>5. /\ Typed(d.s) /\ d.s.eState = PAGER_WRITER_FINISHED
      /\ 1 \in DOMAIN d.s.cache /\ JournalOK(d.s) /\ Base(d.s, d.m, B)
      /\ d.s.hasHeldSharedLock /\ ~d.s.memDb
  BY DEF Flushed
<1> QED
  BY <1>1, <1>2, <1>3, <1>4, <1>5 DEF Undo

\* A rollback after phase one.
LEMMA DoneUndo ==
    ASSUME NEW s, NEW m, NEW B, Finished(s, m.szMax), Done(s, m, B),
           ~s.memDb => s.dbOrigSize # 0 /\ s.hasHeldSharedLock
    PROVE  Undo(s, m, B)
<1>1. Typed(s) /\ s.eState = PAGER_WRITER_FINISHED /\ 1 \in DOMAIN s.cache
  BY DEF Finished
<1>2. JournalOK(s) /\ Base(s, m, B)
      /\ (s.dbOrigSize > 0 => B[1].vers.nPage = s.dbOrigSize)
  BY DEF Done
<1>3. ASSUME ~s.memDb PROVE Unwritten(s, m, B)
  <2>1. s.journalHdr = Len(s.journal)
    BY <1>3 DEF Done
  <2>2. \A i \in DOMAIN s.journal : ~(i > s.journalHdr)
    BY <1>1, <2>1, JournalDomains
  <2> QED
    BY <2>2 DEF Unwritten
<1>4. ASSUME ~s.memDb PROVE s.dbOrigSize > 0 => 1 \in InJournal(s)
  BY <1>4 DEF Done
<1>5. s.memDb => InJournal(s) \subseteq DOMAIN s.cache
  BY DEF Done
<1> QED
  BY <1>1, <1>2, <1>3, <1>4, <1>5 DEF Undo

\* The database that a commit leaves.
Holdings(m) == [n \in 1..MaxPage |-> Read(m, n)]

\* A commit leaves what the store holds, newer than what was there.
LEMMA DoneSettles ==
    ASSUME NEW s, NEW m, StoreTyped(m), NEW B, Finished(s, m.szMax),
           Done(s, m, B), ~s.memDb, s.hasHeldSharedLock,
           NEW r, r = Ended(s, m, TRUE)
    PROVE  /\ Settled(r.s, r.m, Holdings(r.m))
           /\ B[1].vers.counter < Holdings(r.m)[1].vers.counter
           /\ Holdings(r.m)[1].vers.nPage <= m.szMax
           /\ Holdings(r.m)[1].vers.nPage = s.dbSize
           /\ \A n \in 1..s.dbSize : Holdings(r.m)[n] = Holding(s, m, n)
<1> DEFINE C == Holdings(r.m)
<1>1. Typed(s) /\ s.eState = PAGER_WRITER_FINISHED /\ 1 \in DOMAIN s.cache
      /\ s.dbSize <= m.szMax
  BY DEF Finished
<1>2. /\ Clean(s) /\ Coherent(s, m) /\ s.dbFileSize = Len(m.pages)
      /\ 1 <= s.dbSize /\ s.dbSize <= s.dbFileSize
      /\ s.dbFileVers = s.cache[1].c.vers
      /\ B[1].vers.counter < s.dbFileVers.counter
      /\ s.cache[1].c.vers.nPage = s.dbSize
  BY DEF Done
<1>3. Ends(s, m, TRUE, r)
  BY <1>1, EndedFacts
<1>4. /\ Typed(r.s) /\ StoreTyped(r.m) /\ r.m.szMax = m.szMax
      /\ r.s.eState = PAGER_READER /\ r.s.memDb = s.memDb
      /\ r.s.hasHeldSharedLock = s.hasHeldSharedLock
      /\ r.s.dbFileVers = s.dbFileVers /\ r.s.dbSize = s.dbSize
  BY <1>3 DEF Ends, SameLimit
<1>5. s.dbSize \in 0..MaxPage /\ s.dbSize \in Nat /\ s.dbFileSize \in Nat
      /\ MaxPage \in Nat /\ \A n \in DOMAIN s.cache : n \in 1..MaxPage /\ n \in Nat
  BY <1>1, Sizes DEF Typed
<1>20. r.m.pages = IF s.dbFileSize > s.dbSize
                   THEN Resized(m, s.dbSize).pages ELSE m.pages
  <2>1. r.m.pages = IF ~s.memDb /\ TRUE /\ s.eState >= PAGER_WRITER_DBMOD
                       /\ s.dbFileSize > s.dbSize
                    THEN Resized(m, s.dbSize).pages ELSE m.pages
    BY <1>3 DEF Ends
  <2>2. (s.eState >= PAGER_WRITER_DBMOD) = TRUE
    BY <1>1
  <2>3. ~s.memDb
    OBVIOUS
  <2> QED
    BY ONLY <2>1, <2>2, <2>3
<1>6. \A n \in 1..MaxPage : n <= s.dbSize => Read(r.m, n) = Read(m, n)
  <2>1. CASE s.dbFileSize > s.dbSize
    <3>1. r.m.pages = Resized(m, s.dbSize).pages
      BY <1>20, <2>1
    <3>2. \A n : Read(r.m, n) = Read(Resized(m, s.dbSize), n)
      BY <3>1 DEF Read
    <3> QED
      BY <1>5, <3>2, ReadResized
  <2>2. CASE ~(s.dbFileSize > s.dbSize)
    <3>1. r.m.pages = m.pages
      BY <1>20, <2>2
    <3> QED
      BY <3>1 DEF Read
  <2> QED
    BY <2>1, <2>2
<1>7. Len(r.m.pages) = s.dbSize
  <2>1. CASE s.dbFileSize > s.dbSize
    <3>1. r.m.pages = Resized(m, s.dbSize).pages
      BY <1>20, <2>1
    <3> QED
      BY <1>5, <3>1, ReadResized
  <2>2. CASE ~(s.dbFileSize > s.dbSize)
    <3>1. r.m.pages = m.pages
      BY <1>20, <2>2
    <3>2. s.dbFileSize = s.dbSize
      BY <1>2, <1>5, <2>2
    <3> QED
      BY <1>2, <3>1, <3>2
  <2> QED
    BY <2>1, <2>2
<1>8. \A n \in 1..MaxPage : C[n] = Read(r.m, n)
  BY DEF Holdings
<1>9. C \in Databases
  <2>1. \A n \in 1..MaxPage : Read(r.m, n) \in Content
    BY <1>4, ReadContent
  <2> QED
    BY <2>1 DEF Databases, Holdings
<1> HIDE DEF C
<1>10. Stores(r.m, Len(r.m.pages), C)
  BY <1>8, <1>9 DEF Stores
<1>11. \A n \in DOMAIN r.s.cache : r.s.cache[n].c = C[n]
  <2> SUFFICES ASSUME NEW n \in DOMAIN r.s.cache PROVE r.s.cache[n].c = C[n]
    OBVIOUS
  <2>1. DOMAIN r.s.cache
          = DOMAIN s.cache \cap 1..(IF s.dbSize >= 1 THEN s.dbSize ELSE 1)
    BY <1>3 DEF Ends
  <2>2. n \in DOMAIN s.cache /\ n \in 1..s.dbSize
    BY <1>2, <1>5, <2>1
  <2>3. n <= s.dbSize /\ ~(n > s.dbSize) /\ n \in 1..MaxPage
    BY <1>5, <2>2
  <2>4. r.s.cache[n].c = s.cache[n].c
    BY <1>3, <2>3 DEF Ends, CleanWith
  <2>5. s.cache[n].c = Read(m, n)
    BY <1>2, <2>2, <2>3 DEF Coherent, Clean
  <2> QED
    BY <1>6, <1>8, <2>3, <2>4, <2>5
<1>12. 1 \in 1..MaxPage /\ C[1] = s.cache[1].c
  <2>1. 1 \in 1..MaxPage
    BY PagerAssumption
  <2>2. s.cache[1].c = Read(m, 1)
    BY <1>1, <1>2 DEF Coherent, Clean
  <2> QED
    BY <1>2, <1>6, <1>8, <2>1, <2>2
<1>13. StoreHeaded(r.m)
  BY <1>2, <1>4, <1>7, <1>10, <1>12, StoreGivesSize
<1>14. s.dbFileVers.counter \in Nat
  BY <1>1, PagerAssumption DEF Typed, VersType
<1>15. NotAhead(r.s, r.m, C)
  <2>1. r.s.dbFileVers = s.dbFileVers /\ s.dbFileVers = s.cache[1].c.vers
        /\ C[1] = s.cache[1].c
    BY <1>2, <1>4, <1>12
  <2>2. r.s.dbFileVers.counter = C[1].vers.counter
    BY ONLY <2>1
  <2>3. r.s.dbFileVers.counter \in Nat
    BY <1>14, <2>1
  <2>4. r.s.dbFileVers.counter <= C[1].vers.counter
    BY ONLY <2>2, <2>3
  <2> QED
    BY ONLY <2>4 DEF NotAhead
<1>16. Reads(r.s, r.m, C)
  BY <1>2, <1>4, <1>7, <1>11, <1>12, <1>15 DEF Reads
<1>17. HoldsOK(r.s, r.m, C)
  <2>1. r.s.eState = 1 /\ ~r.s.memDb /\ r.s.hasHeldSharedLock
    BY <1>4
  <2> QED
    BY ONLY <1>16, <2>1 DEF HoldsOK, InTx, PAGER_OPEN, PAGER_READER,
       PAGER_WRITER_LOCKED, PAGER_WRITER_DBMOD, PAGER_WRITER_FINISHED, PAGER_ERROR
<1>18. Settled(r.s, r.m, C)
  BY <1>4, <1>9, <1>10, <1>13, <1>17 DEF Settled
<1>19. B[1].vers.counter < C[1].vers.counter /\ C[1].vers.nPage <= m.szMax
  BY <1>1, <1>2, <1>12
<1>21. C[1].vers.nPage = s.dbSize
  BY <1>2, <1>12
<1>22. ASSUME NEW n \in 1..s.dbSize PROVE C[n] = Holding(s, m, n)
  <2>1. n \in 1..MaxPage /\ n <= s.dbSize
    BY <1>5
  <2>2. C[n] = Read(m, n)
    BY <1>6, <1>8, <2>1
  <2>3. n \in DOMAIN s.cache => s.cache[n].c = Read(m, n)
    BY <1>2, <2>1 DEF Coherent, Clean
  <2> QED
    BY <2>2, <2>3 DEF Holding
<1> QED
  BY <1>18, <1>19, <1>21, <1>22 DEF C

-----------------------------------------------------------------------------
(* One pager moves.                                                        *)

\* What a pager holds against the store depends on its pages and its limit.
LEMMA HoldsSame ==
    ASSUME NEW s, NEW m, NEW k, NEW B, HoldsOK(s, m, B),
           k.pages = m.pages, k.szMax = m.szMax
    PROVE  HoldsOK(s, k, B)
<1>1. \A n : Read(k, n) = Read(m, n)
  BY DEF Read
<1>2. \A n : Holding(s, k, n) = Holding(s, m, n)
  BY <1>1 DEF Holding
<1>3. \A sp, n, c : Saved(s, m, sp, n, c) <=> Saved(s, k, sp, n, c)
  BY ONLY <1>2 DEF Saved
<1>4. NotAhead(s, m, B) => NotAhead(s, k, B)
  BY DEF NotAhead
<1>5. Coherent(s, m) => Coherent(s, k)
  BY ONLY <1>1 DEF Coherent
<1>6. Base(s, m, B) => Base(s, k, B)
  BY ONLY <1>1 DEF Base
<1>7. Unwritten(s, m, B) => Unwritten(s, k, B)
  BY ONLY <1>1 DEF Unwritten
<1>8. Logged(s, m, B) => Logged(s, k, B)
  BY <1>5, <1>6, <1>7 DEF Logged
<1>9. Headed(s, m, B) => Headed(s, k, B)
  BY ONLY <1>3 DEF Headed
<1>10. Counting(s, m, B) => Counting(s, k, B)
  BY DEF Counting
<1>11. Tx(s, m, B) => Tx(s, k, B)
  BY ONLY <1>8, <1>9, <1>10 DEF Tx
<1>12. Done(s, m, B) => Done(s, k, B)
  BY <1>5, <1>6 DEF Done
<1>13. \A size : Stores(m, size, B) => Stores(k, size, B)
  BY <1>1 DEF Stores
<1>14. Broken(s, m, B) => Broken(s, k, B)
  BY ONLY <1>4, <1>5, <1>6, <1>13 DEF Broken
<1>15. Fresh(s, m, B) => Fresh(s, k, B)
  BY ONLY <1>4 DEF Fresh
<1>16. Reads(s, m, B) => Reads(s, k, B)
  BY <1>4 DEF Reads
<1>17. HoldsOK(s, m, B)
  OBVIOUS
<1> QED
  BY ONLY <1>11, <1>12, <1>14, <1>15, <1>16, <1>17 DEF HoldsOK

\* C is a later database than B, and one that fits.
Newer(m, B, C) ==
    B[1].vers.counter < C[1].vers.counter /\ C[1].vers.nPage <= m.szMax

\* The first page of a database has a version.
LEMMA FirstVersion ==
    ASSUME NEW B \in Databases
    PROVE  /\ B[1].vers \in VersType /\ B[1].vers.counter \in Nat
           /\ B[1].vers.nPage \in Nat
<1>1. B[1] \in Content
  BY PagerAssumption DEF Databases
<1>2. B[1].vers \in VersType
  BY <1>1 DEF Content
<1> QED
  BY <1>2, PagerAssumption DEF VersType

\* A pager that is not in a transaction does not take a later database for
\* the one its cache holds.
LEMMA WaitsFor ==
    ASSUME NEW s, Typed(s), s.eState <= PAGER_OPEN, NEW m, NEW k, NEW B, NEW C,
           HoldsOK(s, m, B), StoreTyped(m), k.szMax = m.szMax,
           B \in Databases, C \in Databases, C = B \/ Newer(m, B, C)
    PROVE  HoldsOK(s, k, C)
<1>1. s.eState \in NOT_OPEN..PAGER_ERROR
  BY DEF Typed
<1>2. s.eState = -1 \/ s.eState = 0
  BY <1>1
<1>3. CASE s.eState = -1
  BY ONLY <1>3 DEF HoldsOK, InTx, PAGER_OPEN, PAGER_READER,
     PAGER_WRITER_LOCKED, PAGER_WRITER_DBMOD, PAGER_WRITER_FINISHED, PAGER_ERROR
<1>4. ASSUME s.eState = 0 PROVE HoldsOK(s, k, C)
  <2>1. Fresh(s, m, B)
    BY <1>4 DEF HoldsOK
  <2>2. s.dbFileVers.counter \in Nat /\ s.dbFileVers.nPage \in Nat
    BY PagerAssumption DEF Typed, VersType
  <2>3. /\ B[1].vers.counter \in Nat /\ C[1].vers.counter \in Nat
        /\ C[1].vers.nPage \in Nat
    BY FirstVersion
  <2>4. m.szMax \in Nat
    BY PagerAssumption DEF StoreTyped
  <2>5. NotAhead(s, k, C)
    <3>1. CASE s.dbFileVers.nPage > m.szMax
      BY <3>1 DEF NotAhead
    <3>2. CASE s.dbFileVers.counter <= B[1].vers.counter
      <4>1. s.dbFileVers.counter <= C[1].vers.counter
        BY <2>2, <2>3, <3>2 DEF Newer
      <4> QED
        BY <4>1 DEF NotAhead
    <3> QED
      BY <2>1, <3>1, <3>2 DEF Fresh, NotAhead
  <2>6. s.dbFileVers = C[1].vers => \A n \in DOMAIN s.cache : s.cache[n].c = C[n]
    <3>1. ASSUME Newer(m, B, C), s.dbFileVers = C[1].vers PROVE FALSE
      <4>1. s.dbFileVers.counter = C[1].vers.counter
            /\ s.dbFileVers.nPage = C[1].vers.nPage
        BY <3>1
      <4>2. \/ s.dbFileVers.nPage > m.szMax
            \/ s.dbFileVers.counter <= B[1].vers.counter
        BY <2>1 DEF Fresh, NotAhead
      <4>3. B[1].vers.counter < C[1].vers.counter /\ C[1].vers.nPage <= m.szMax
        BY <3>1 DEF Newer
      <4> QED
        BY <2>2, <2>3, <2>4, <4>1, <4>2, <4>3
    <3> QED
      BY <2>1, <3>1 DEF Fresh
  <2>7. Fresh(s, k, C)
    BY <2>1, <2>5, <2>6 DEF Fresh
  <2> QED
    BY ONLY <1>4, <2>7 DEF HoldsOK, InTx, PAGER_OPEN, PAGER_READER,
     PAGER_WRITER_LOCKED, PAGER_WRITER_DBMOD, PAGER_WRITER_FINISHED, PAGER_ERROR
<1> QED
  BY <1>2, <1>3, <1>4

\* The pagers are typed.
LEMMA PagersTyped ==
    ASSUME DataInv, NEW p \in Pagers
    PROVE  /\ Typed(pager[p]) /\ StateOfLock(pager[p])
           /\ LocalOK(pager[p], store.szMax)
           /\ StoreTyped(store) /\ StoreFits(store)
<1>1. LocalOK(pager[p], store.szMax) /\ StoreTyped(store) /\ StoreFits(store)
  BY DEF DataInv, DataOK
<1>2. StateOfLock(pager[p])
  BY DEF DataInv, IInv, Agrees
<1> QED
  BY <1>1, <1>2, LocalTyped

\* A set with a member has members.
LEMMA NotNobody ==
    ASSUME NEW S, IsFiniteSet(S), NEW x \in S
    PROVE  Cardinality(S) # 0
BY FS_EmptySet

\* What the new database C asks of the others when p becomes t and the store k.
Alone(p, t) ==
    /\ Owning(t) => \A q \in Pagers \ {p} : pager[q].eState <= PAGER_OPEN
    /\ t.eState > PAGER_OPEN => \A q \in Pagers \ {p} : ~Owning(pager[q])

\* The store stays sound when one pager moves and nobody else writes.
LEMMA OneMoves ==
    ASSUME IInv, NEW p \in Pagers, NEW t, t.eState \in Int, NEW k,
           NEW C \in Databases,
           NEW B, CommittedIs(B),
           pager' = [pager EXCEPT ![p] = t], store' = k,
           k.nRef = 0 => k.pages = <<>>,
           HoldsOK(t, k, C),
           \A q \in Pagers \ {p} : HoldsOK(pager[q], k, C),
           (\A q \in Pagers \ {p} : ~Owning(pager[q])) /\ ~Owning(t)
              => Stores(k, Len(k.pages), C) /\ StoreHeaded(k),
           Alone(p, t)
    PROVE  CommittedIs(C)'
<1>1. pager'[p] = t /\ \A q \in Pagers \ {p} : pager'[q] = pager[q]
  BY DEF IInv
<1>2. \A q \in Pagers : HoldsOK(pager'[q], store', C)
  BY <1>1
<1>3. (\A q \in Pagers : ~Owning(pager'[q]))
         => Stores(store', Len(store'.pages), C) /\ StoreHeaded(store')
  BY <1>1
<1>4. ASSUME NEW a \in Pagers, NEW b \in Pagers, Owning(pager'[a]), b # a
      PROVE  pager'[b].eState <= PAGER_OPEN
  <2>1. CASE a = p
    BY <1>1, <1>4, <2>1 DEF Alone
  <2>2. CASE a # p /\ b = p
    <3>1. Owning(pager[a])
      BY <1>1, <1>4, <2>2
    <3>2. ~(t.eState > PAGER_OPEN)
      BY <2>2, <3>1 DEF Alone
    <3>3. t.eState <= PAGER_OPEN
      BY <3>2
    <3> QED
      BY <1>1, <2>2, <3>3
  <2>3. CASE a # p /\ b # p
    BY <1>1, <1>4, <2>3 DEF CommittedIs
  <2> QED
    BY <2>1, <2>2, <2>3
<1> QED
  BY <1>2, <1>3, <1>4 DEF CommittedIs

\* A step that leaves the pages of the store alone.
LEMMA QuietStep ==
    ASSUME IInv, NEW p \in Pagers, NEW t, t.eState \in Int, NEW k,
           NEW B, CommittedIs(B),
           pager' = [pager EXCEPT ![p] = t], store' = k,
           k.pages = store.pages, k.szMax = store.szMax,
           k.nRef = 0 => k.pages = <<>>,
           HoldsOK(t, store, B),
           Owning(t) => \/ Owning(pager[p])
                        \/ \A q \in Pagers \ {p} : pager[q].eState <= PAGER_OPEN,
           Owning(pager[p]) =>
              \/ Owning(t)
              \/ Stores(store, Len(store.pages), B) /\ StoreHeaded(store),
           t.eState > PAGER_OPEN =>
              \/ pager[p].eState > PAGER_OPEN
              \/ \A q \in Pagers \ {p} : ~Owning(pager[q])
    PROVE  CommittedIs(B)'
<1>1. B \in Databases
  BY DEF CommittedIs
<1>2. HoldsOK(t, k, B)
  BY HoldsSame
<1>3. \A q \in Pagers \ {p} : HoldsOK(pager[q], k, B)
  BY HoldsSame DEF CommittedIs
<1>4. \A n : Read(k, n) = Read(store, n)
  BY DEF Read
<1>5. Stores(store, Len(store.pages), B) /\ StoreHeaded(store)
      => Stores(k, Len(k.pages), B) /\ StoreHeaded(k)
  BY <1>4 DEF Stores, StoreHeaded
<1>6. (\A q \in Pagers \ {p} : ~Owning(pager[q])) /\ ~Owning(t)
         => Stores(k, Len(k.pages), B) /\ StoreHeaded(k)
  <2>1. CASE Owning(pager[p])
    BY <1>5, <2>1
  <2>2. CASE ~Owning(pager[p])
    BY <1>5, <2>2 DEF CommittedIs
  <2> QED
    BY <2>1, <2>2
<1>7. Alone(p, t)
  <2>1. ASSUME Owning(t), NEW q \in Pagers \ {p}
        PROVE  pager[q].eState <= PAGER_OPEN
    BY <2>1 DEF CommittedIs
  <2>2. ASSUME t.eState > PAGER_OPEN, NEW q \in Pagers \ {p}
        PROVE  ~Owning(pager[q])
    <3>1. CASE pager[p].eState > PAGER_OPEN
      <4>1. pager[p].eState \in Int
        BY DEF IInv, Agrees, StateOfLock
      <4>2. ~(pager[p].eState <= PAGER_OPEN)
        BY <3>1, <4>1
      <4> QED
        BY <4>2, <2>2 DEF CommittedIs
    <3> QED
      BY <2>2, <3>1
  <2> QED
    BY <2>1, <2>2 DEF Alone
<1> QED
  BY <1>1, <1>2, <1>3, <1>6, <1>7, OneMoves

\* A step of the pager that has the transaction, which may change the store.
LEMMA OwnerStep ==
    ASSUME DataInv, NEW p \in Pagers, NEW t, Typed(t), NEW k,
           NEW B, CommittedIs(B), NEW C \in Databases,
           pager' = [pager EXCEPT ![p] = t], store' = k, IInv',
           Owning(pager[p]), t.memDb = FALSE, t.eState # NOT_OPEN,
           k.szMax = store.szMax, HoldsOK(t, k, C),
           C = B \/ Newer(store, B, C),
           Owning(t) \/ (Stores(k, Len(k.pages), C) /\ StoreHeaded(k))
    PROVE  CommittedIs(C)'
<1>1. k.nRef # 0
  <2>1. pager'[p] = t
    BY DEF DataInv, IInv
  <2>2. p \in {q \in Pagers : ~pager'[q].memDb /\ pager'[q].eState # NOT_OPEN}
    BY <2>1
  <2>3. IsFiniteSet({q \in Pagers : ~pager'[q].memDb /\ pager'[q].eState # NOT_OPEN})
    BY PagerAssumption, FS_Subset
  <2>4. store'.nRef = Cardinality(Users)'
    BY DEF IInv
  <2>5. store'.nRef
          = Cardinality({q \in Pagers : ~pager'[q].memDb
                                        /\ pager'[q].eState # NOT_OPEN})
    BY <2>4 DEF Users
  <2> QED
    BY <2>2, <2>3, <2>5, NotNobody
<1>2. \A q \in Pagers \ {p} : pager[q].eState <= PAGER_OPEN
  BY DEF CommittedIs
<1>3. ASSUME NEW q \in Pagers \ {p} PROVE HoldsOK(pager[q], k, C) /\ ~Owning(pager[q])
  <2>1. Typed(pager[q]) /\ StoreTyped(store)
    BY <1>3, PagersTyped
  <2>2. HoldsOK(pager[q], store, B) /\ B \in Databases
    BY DEF CommittedIs
  <2>3. HoldsOK(pager[q], k, C)
    BY <1>2, <2>1, <2>2, WaitsFor
  <2>6. pager[q].eState \in NOT_OPEN..PAGER_ERROR
    BY <2>1 DEF Typed
  <2>4. pager[q].eState \in Int
    BY ONLY <2>6
  <2>5. ~Owning(pager[q])
    BY <1>2, <2>4 DEF Owning
  <2> QED
    BY <2>3, <2>5
<1>4. t.eState \in Int
  BY DEF Typed
<1>5. Alone(p, t)
  BY <1>2, <1>3 DEF Alone
<1>6. IInv
  BY DEF DataInv
<1> QED
  BY <1>1, <1>3, <1>4, <1>5, <1>6, OneMoves

\* A pager that is open is not NOT_OPEN.
LEMMA OpenOnes ==
    ASSUME DataInv, NEW p \in Pagers, pager[p].eState # NOT_OPEN
    PROVE  /\ pager[p].eState \in PAGER_OPEN..PAGER_ERROR
           /\ pager[p].memDb =>
                 /\ \A q \in Pagers \ {p} : pager[q] = NotOpen
                 /\ store.nRef = 0
           /\ ~pager[p].memDb =>
                 /\ \A q \in Pagers : ~pager[q].memDb
                 /\ store.nRef # 0
<1>1. pager[p].eState \in PAGER_OPEN..PAGER_ERROR
  <2>1. Typed(pager[p])
    BY PagersTyped
  <2>2. pager[p].eState \in NOT_OPEN..PAGER_ERROR
    BY <2>1 DEF Typed
  <2>3. pager[p].eState # NOT_OPEN
    OBVIOUS
  <2> QED
    BY ONLY <2>2, <2>3
<1>2. ASSUME pager[p].memDb, NEW q \in Pagers \ {p} PROVE pager[q] = NotOpen
  <2>1. pager[q].eState = NOT_OPEN
    BY <1>2 DEF DataInv, IInv, MemDbAlone
  <2> QED
    BY <1>2, <2>1, PagersTyped, LocalCases
<1>3. ASSUME pager[p].memDb PROVE store.nRef = 0
  <2>1. Users = {}
    BY <1>2, <1>3, EmptyTyped DEF Users
  <2> QED
    BY <2>1, FS_EmptySet DEF DataInv, IInv
<1>4. ASSUME ~pager[p].memDb PROVE store.nRef # 0 /\ \A q \in Pagers : ~pager[q].memDb
  <2>1. p \in Users
    BY <1>4 DEF Users
  <2>2. IsFiniteSet(Users)
    BY PagerAssumption, FS_Subset DEF Users
  <2>3. store.nRef # 0
    BY <2>1, <2>2, NotNobody DEF DataInv, IInv
  <2>4. \A q \in Pagers : ~pager[q].memDb
    BY <1>4 DEF DataInv, IInv, MemDbAlone
  <2> QED
    BY <2>3, <2>4
<1> QED
  BY <1>1, <1>2, <1>3, <1>4

\* A database of zeros.
Nothing == [n \in 1..MaxPage |-> Zero]

\* A store without pages holds the empty database.
LEMMA NothingStored ==
    ASSUME NEW m, m.pages = <<>>
    PROVE  /\ Nothing \in Databases
           /\ Stores(m, Len(m.pages), Nothing) /\ StoreHeaded(m)
<1>1. Nothing \in Databases
  BY ZeroContent DEF Nothing, Databases
<1>2. \A n : Read(m, n) = Zero
  BY EmptySeq DEF Read
<1>3. Len(m.pages) = Len(m.pages)
  OBVIOUS
<1> QED
  BY <1>1, <1>2 DEF Stores, StoreHeaded, Nothing

\* A step of the pager of a ":memory:" database.
LEMMA MemStep ==
    ASSUME DataInv, NEW p \in Pagers, NEW t, Typed(t),
           NEW B, CommittedIs(B), NEW C \in Databases,
           pager' = [pager EXCEPT ![p] = t], store' = store,
           pager[p].eState # NOT_OPEN, pager[p].memDb, t.memDb,
           t.eState \in PAGER_READER..PAGER_WRITER_FINISHED,
           HoldsOK(t, store, C)
    PROVE  StoreOK' /\ (Owning(t) => CommittedIs(C)')
<1>1. (\A q \in Pagers \ {p} : pager[q] = NotOpen) /\ store.nRef = 0
  BY OpenOnes
<1>2. store.pages = <<>>
  BY <1>1 DEF CommittedIs
<1>3. \A x : HoldsOK(NotOpen, store, x)
  BY EmptyTyped DEF HoldsOK, InTx
<1>4. NotOpen.eState <= PAGER_OPEN /\ ~Owning(NotOpen)
  BY EmptyTyped DEF Owning
<1>5. Alone(p, t)
  BY <1>1, <1>4 DEF Alone
<1>6. IInv /\ t.eState \in Int
  BY DEF DataInv, Typed
<1>7. CASE Owning(t)
  BY <1>1, <1>2, <1>3, <1>5, <1>6, <1>7, OneMoves DEF StoreOK
<1>8. CASE ~Owning(t)
  <2>1. t.eState = PAGER_READER
    BY <1>8 DEF Owning
  <2>2. HoldsOK(t, store, Nothing)
    BY <2>1 DEF HoldsOK, InTx
  <2>3. Nothing \in Databases /\ Stores(store, Len(store.pages), Nothing)
        /\ StoreHeaded(store)
    BY <1>2, NothingStored
  <2> QED
    BY <1>1, <1>2, <1>3, <1>5, <1>6, <1>8, <2>2, <2>3, OneMoves DEF StoreOK
<1> QED
  BY <1>7, <1>8
-----------------------------------------------------------------------------
(* Opening, reading and closing keep the invariant.                        *)

\* The database, by the state of whoever could have changed the store.
LEMMA NobodyOwns ==
    ASSUME NEW B, CommittedIs(B), \A q \in Pagers : ~Owning(pager[q])
    PROVE  /\ B \in Databases /\ Stores(store, Len(store.pages), B)
           /\ StoreHeaded(store) /\ \A n \in 1..MaxPage : Read(store, n) = B[n]
BY DEF CommittedIs, Stores

\* While a pager reads, nobody has a transaction.
LEMMA ReaderAlone ==
    ASSUME DataInv, NEW B, CommittedIs(B), NEW p \in Pagers,
           pager[p].eState = PAGER_READER
    PROVE  \A q \in Pagers : ~Owning(pager[q])
<1>1. ~Owning(pager[p]) /\ ~(pager[p].eState <= PAGER_OPEN)
  BY DEF Owning
<1> QED
  BY <1>1 DEF CommittedIs

\* Where the lock of the writer is free, nobody has a transaction.
LEMMA LockFree ==
    ASSUME DataInv, NEW p \in Pagers, pager[p].eState = PAGER_OPEN,
           store.nWrLock = 0
    PROVE  \A q \in Pagers : ~Owning(pager[q])
<1> SUFFICES ASSUME NEW q \in Pagers, Owning(pager[q]) PROVE FALSE
  OBVIOUS
<1>1. ~pager[p].memDb
  <2>1. StateOfLock(pager[p])
    BY PagersTyped
  <2> QED
    BY <2>1 DEF StateOfLock
<1>2. ~pager[q].memDb
  BY <1>1, OpenOnes
<1>3. StateOfLock(pager[q])
  BY PagersTyped
<1>4. Holds(pager[q], RESERVED_LOCK)
  BY <1>2, <1>3 DEF StateOfLock, Owning, Holds
<1> QED
  BY <1>4 DEF DataInv, IInv, Agrees

\* What has become of a pager is typed.
LEMMA BecameTyped ==
    ASSUME DataInv, DataInv', NEW p \in Pagers, NEW t,
           pager' = [pager EXCEPT ![p] = t]
    PROVE  /\ Typed(t) /\ t.eState \in Int /\ StateOfLock(t)
           /\ LocalOK(t, store'.szMax) /\ IInv' /\ StoreTyped(store')
<1>1. pager'[p] = t
  BY DEF DataInv, IInv
<1>2. LocalOK(t, store'.szMax) /\ StoreTyped(store')
  BY <1>1 DEF DataInv, DataOK
<1>3. StateOfLock(t) /\ IInv'
  BY <1>1 DEF DataInv, IInv, Agrees
<1>4. Typed(t)
  BY <1>2, LocalTyped
<1>5. t.eState \in NOT_OPEN..PAGER_ERROR
  BY <1>4 DEF Typed
<1>6. t.eState \in Int
  BY ONLY <1>5
<1> QED
  BY <1>2, <1>3, <1>4, <1>6

\* sqlite3PagerOpen.
LEMMA OpenKeepsStore ==
    ASSUME DataInv, DataInv', NEW B, CommittedIs(B), NEW p \in Pagers,
           NEW memDb \in BOOLEAN, Open(p, memDb)
    PROVE  CommittedIs(B)'
<1> DEFINE t == OpenedPager(memDb)
<1>1. /\ pager' = [pager EXCEPT ![p] = t]
      /\ pager[p].eState = NOT_OPEN /\ IInv
      /\ \A q \in Pagers : IF memDb THEN pager[q].eState = NOT_OPEN
                                    ELSE ~pager[q].memDb
  BY DEF Open, DataInv
<1>2. /\ t.eState = IF memDb THEN PAGER_READER ELSE PAGER_OPEN
      /\ t.memDb = memDb /\ ~t.hasHeldSharedLock
      /\ t.cache = <<>> /\ t.dbFileVers = Zero.vers
  BY DEF OpenedPager, NotOpen
<1> HIDE DEF t
<1>3. DOMAIN t.cache = {}
  BY <1>2, EmptySeq
<1>4. B \in Databases
  BY DEF CommittedIs
<1>5. HoldsOK(t, store, B)
  <2>1. CASE memDb
    BY <1>2, <1>3, <2>1 DEF HoldsOK, InTx
  <2>2. CASE ~memDb
    <3>1. t.dbFileVers.counter = 0
      BY <1>2, ZeroContent
    <3>2. NotAhead(t, store, B)
      BY <1>4, <3>1, FirstVersion DEF NotAhead
    <3>3. Fresh(t, store, B)
      BY <1>3, <3>2 DEF Fresh
    <3> QED
      BY <1>2, <2>2, <3>3 DEF HoldsOK, InTx
  <2> QED
    BY <2>1, <2>2
<1>6. store.nRef \in Nat
  <2>1. IsFiniteSet(Users)
    BY PagerAssumption, FS_Subset DEF Users
  <2> QED
    BY <2>1, FS_CardinalityType, <1>1 DEF IInv
<1>7. /\ store'.pages = store.pages /\ store'.szMax = store.szMax
      /\ store'.nRef = 0 => store'.pages = <<>>
  <2>1. CASE memDb
    <3>1. store' = store
      BY <2>1 DEF Open
    <3> QED
      BY <3>1 DEF CommittedIs
  <2>2. CASE ~memDb /\ store.nRef = 0
    <3>1. store' = Created(store.szMax) /\ store.pages = <<>>
      BY <2>2 DEF Open, CommittedIs
    <3> QED
      BY <3>1 DEF Created
  <2>3. CASE ~memDb /\ store.nRef # 0
    <3>1. store' = Shared(store) /\ IsStore(store) /\ StoreTyped(store)
      BY <2>3, PagersTyped DEF Open, DataInv, IInv
    <3>2. /\ store'.pages = store.pages /\ store'.szMax = store.szMax
          /\ store'.nRef = store.nRef + 1
      BY <3>1 DEF Shared, IsStore, StoreTyped
    <3> QED
      BY <1>6, <3>2
  <2> QED
    BY <2>1, <2>2, <2>3
<1>8. t.eState \in Int /\ ~Owning(t) /\ ~Owning(pager[p])
  BY <1>1, <1>2 DEF Owning
<1>9. t.eState > PAGER_OPEN => \A q \in Pagers \ {p} : ~Owning(pager[q])
  BY <1>1, <1>2 DEF Owning
<1> QED
  BY <1>1, <1>5, <1>7, <1>8, <1>9, QuietStep

\* sqlite3PagerClose: the last one takes the database with it.
LEMMA CloseKeepsStore ==
    ASSUME DataInv, DataInv', NEW B, CommittedIs(B), NEW p \in Pagers, Close(p)
    PROVE  /\ StoreOK'
           /\ \/ CommittedIs(B)' /\ store'.pages = store.pages
              \/ store'.pages = <<>> /\ \A q \in Pagers : ~Owning(pager[q])
<1>1. /\ pager' = [pager EXCEPT ![p] = NotOpen] /\ IInv
      /\ store' = IF pager[p].memDb THEN store ELSE Closed(store)
      /\ pager[p].eState = IF pager[p].memDb THEN PAGER_READER ELSE PAGER_OPEN
  BY DEF Close, DataInv
<1>2. \A m, x : HoldsOK(NotOpen, m, x)
  BY EmptyTyped DEF HoldsOK, InTx
<1>3. NotOpen.eState \in Int /\ ~Owning(NotOpen) /\ ~Owning(pager[p])
      /\ ~(NotOpen.eState > PAGER_OPEN)
  BY <1>1, EmptyTyped DEF Owning
<1>4. IsStore(store) /\ StoreTyped(store) /\ store.nRef \in Int
  BY PagersTyped DEF DataInv, IInv
<1>5. CASE pager[p].memDb
  <2>1. store' = store /\ (store.nRef = 0 => store.pages = <<>>)
    BY <1>1, <1>5 DEF CommittedIs
  <2> QED
    BY <1>1, <1>2, <1>3, <2>1, QuietStep DEF StoreOK
<1>6. CASE ~pager[p].memDb /\ store.nRef > 1
  <2>1. store' = [store EXCEPT !.nRef = @ - 1]
    BY <1>1, <1>6 DEF Closed
  <2>2. /\ store'.pages = store.pages /\ store'.szMax = store.szMax
        /\ store'.nRef = store.nRef - 1
    BY <1>4, <2>1 DEF IsStore, StoreTyped
  <2>3. store'.nRef # 0
    BY <1>4, <1>6, <2>2
  <2> QED
    BY <1>1, <1>2, <1>3, <2>2, <2>3, QuietStep DEF StoreOK
<1>7. CASE ~pager[p].memDb /\ ~(store.nRef > 1)
  <2>1. store'.pages = <<>>
    BY <1>1, <1>7 DEF Closed, Created
  <2>2. IsFiniteSet(Users) /\ p \in Users
    BY <1>1, <1>7, PagerAssumption, FS_Subset DEF Users
  <2>3. Cardinality(Users) <= 1 /\ Cardinality(Users) \in Nat
    BY <1>1, <1>4, <1>7, <2>2, FS_CardinalityType DEF IInv
  <2>4. Cardinality(Users \ {p}) = 0 /\ IsFiniteSet(Users \ {p})
    <3>1. /\ IsFiniteSet(Users \ {p})
          /\ Cardinality(Users \ {p}) = Cardinality(Users) - 1
      BY <2>2, FS_RemoveElement
    <3>2. Cardinality(Users \ {p}) \in Nat
      BY <3>1, FS_CardinalityType
    <3> QED
      BY <2>3, <3>1, <3>2
  <2>5. Users \ {p} = {}
    BY <2>4, FS_EmptySet
  <2>6. ASSUME NEW q \in Pagers \ {p} PROVE pager[q] = NotOpen
    <3>1. ~pager[q].memDb
      BY <1>1, <1>7, OpenOnes
    <3>2. pager[q].eState = NOT_OPEN
      BY <2>5, <3>1 DEF Users
    <3> QED
      BY <3>2, PagersTyped, LocalCases
  <2>7. Alone(p, NotOpen)
    BY <1>3 DEF Alone
  <2>8. /\ Nothing \in Databases
        /\ Stores(store', Len(store'.pages), Nothing) /\ StoreHeaded(store')
    BY <2>1, NothingStored
  <2>9. \A q \in Pagers \ {p} : HoldsOK(pager[q], store', Nothing)
    BY <1>2, <2>6
  <2>10. HoldsOK(NotOpen, store', Nothing) /\ (store'.nRef = 0 => store'.pages = <<>>)
    BY <1>2, <2>1
  <2>11. PICK k, C : k = store' /\ C = Nothing
    OBVIOUS
  <2>12. \A q \in Pagers : ~Owning(pager[q])
    BY <1>3, <2>6
  <2>13. StoreOK'
    BY <1>1, <1>3, <2>7, <2>8, <2>9, <2>10, <2>11, <2>12, OneMoves DEF StoreOK
  <2> QED
    BY <2>1, <2>12, <2>13
<1> QED
  BY <1>5, <1>6, <1>7

\* sqlite3PagerSharedLock, and lockBtree.
LEMMA BeginReadKeepsStore ==
    ASSUME DataInv, DataInv', NEW B, CommittedIs(B), NEW p \in Pagers, BeginRead(p)
    PROVE  CommittedIs(B)'
<1> DEFINE s == pager[p]
           stale == s.hasHeldSharedLock /\ s.dbFileVers # Read(store, 1).vers
           reader == [s EXCEPT
               !.eState = PAGER_READER, !.eLock = SHARED_LOCK,
               !.hasHeldSharedLock = TRUE, !.dbSize = Len(store.pages),
               !.cache = IF stale THEN <<>> ELSE @]
           t == Fetched(reader, store, 1)
           k == Locked(store, NO_LOCK, SHARED_LOCK)
<1>1. /\ s.eState = PAGER_OPEN /\ LockOK(store, NO_LOCK, SHARED_LOCK)
      /\ pager' = [pager EXCEPT ![p] = t] /\ store' = k /\ IInv
  BY DEF BeginRead, DataInv
<1>2. Typed(s) /\ StoreTyped(store) /\ StateOfLock(s)
  BY PagersTyped
<1>3. store.nWrLock = 0
  BY <1>1 DEF LockOK
<1>4. \A q \in Pagers : ~Owning(pager[q])
  BY <1>1, <1>3, LockFree
<1>5. /\ B \in Databases /\ \A n \in 1..MaxPage : Read(store, n) = B[n]
  BY <1>4, NobodyOwns
<1>6. Fresh(s, store, B) /\ ~s.memDb
  BY <1>1, <1>2 DEF CommittedIs, HoldsOK, StateOfLock
<1>7. /\ Typed(reader) /\ reader.eState = PAGER_READER /\ ~reader.memDb
      /\ reader.hasHeldSharedLock /\ reader.dbSize = Len(store.pages)
      /\ reader.dbFileVers = s.dbFileVers
      /\ reader.cache = IF stale THEN <<>> ELSE s.cache
  <2>1. Len(store.pages) \in 0..MaxPage
    BY <1>2, PagerAssumption, LenProperties DEF StoreTyped
  <2>2. IsCache(<<>>)
    BY EmptySeq DEF IsCache
  <2> QED
    BY <1>2, <1>6, <2>1, <2>2 DEF Typed, Fields
<1>8. 1 \in 1..MaxPage
  BY PagerAssumption
<1>9. Read(store, 1) = B[1]
  BY <1>5, <1>8
<1> HIDE DEF reader
<1>10. Fetches(reader, store, t, 1)
  BY <1>2, <1>7, <1>8, FetchedFacts
<1> HIDE DEF t
<1>11. ASSUME NEW n \in DOMAIN reader.cache
       PROVE  reader.cache[n].c = B[n] /\ reader.dbFileVers = B[1].vers
  <2>1. ~stale /\ n \in DOMAIN s.cache /\ reader.cache = s.cache
    BY <1>7, <1>11, EmptySeq
  <2>2. s.hasHeldSharedLock
    BY <1>2, <1>6, <2>1 DEF Fresh, Typed
  <2>3. s.dbFileVers = B[1].vers
    BY <1>9, <2>1, <2>2
  <2> QED
    BY <1>6, <1>7, <2>1, <2>3 DEF Fresh
<1>12. NotAhead(reader, store, B)
  BY <1>6, <1>7 DEF Fresh, NotAhead
<1>13. ASSUME 1 \notin DOMAIN reader.cache
       PROVE  t.cache[1].c = B[1]
  <2>1. t.cache[1] = CleanPage(IF ~reader.memDb /\ 1 <= reader.dbSize
                               THEN Read(store, 1) ELSE Zero)
    BY <1>10, <1>13 DEF Fetches
  <2>2. CASE 1 <= reader.dbSize
    BY <1>7, <1>9, <2>1, <2>2 DEF CleanPage
  <2>3. CASE ~(1 <= reader.dbSize)
    <3>1. Len(store.pages) \in Nat /\ 1 > Len(store.pages)
      BY <1>2, <1>7, <2>3, LenProperties DEF StoreTyped
    <3>2. Read(store, 1) = Zero
      BY <1>2, <1>8, <3>1, ReadBeyond
    <3> QED
      BY <1>9, <2>1, <2>3, <3>2 DEF CleanPage
  <2> QED
    BY <2>2, <2>3
<1>14. \A n \in DOMAIN t.cache : t.cache[n].c = B[n]
  BY <1>10, <1>11, <1>13 DEF Fetches
<1>15. /\ t.dbSize = Len(store.pages) /\ t.eState = PAGER_READER /\ ~t.memDb
       /\ t.hasHeldSharedLock
  BY <1>7, <1>10 DEF Fetches
<1>16. t.dbFileVers = s.dbFileVers \/ t.dbFileVers = B[1].vers
  BY <1>7, <1>9, <1>10 DEF Fetches
<1>17. ASSUME t.dbSize > 0 PROVE t.dbFileVers = B[1].vers
  <2>1. CASE 1 \in DOMAIN reader.cache
    BY <1>10, <1>11, <2>1 DEF Fetches
  <2>2. CASE 1 \notin DOMAIN reader.cache
    <3>1. 1 <= reader.dbSize /\ ~reader.memDb
      <4>1. reader.dbSize \in Nat /\ reader.dbSize > 0
        BY <1>7, <1>15, <1>17, Sizes
      <4> QED
        BY <1>7, <4>1
    <3> QED
      BY <1>9, <1>10, <2>2, <3>1 DEF Fetches
  <2> QED
    BY <2>1, <2>2
<1>18. NotAhead(t, store, B)
  <2>1. CASE t.dbFileVers = s.dbFileVers
    BY <1>6, <2>1 DEF Fresh, NotAhead
  <2>2. CASE t.dbFileVers = B[1].vers
    <3>1. t.dbFileVers.counter = B[1].vers.counter /\ B[1].vers.counter \in Nat
      BY <1>5, <2>2, FirstVersion
    <3>2. t.dbFileVers.counter <= B[1].vers.counter
      BY ONLY <3>1
    <3> QED
      BY <3>2 DEF NotAhead
  <2> QED
    BY <1>16, <2>1, <2>2
<1>19. HoldsOK(t, store, B)
  <2>1. Reads(t, store, B)
    BY <1>14, <1>15, <1>17, <1>18 DEF Reads
  <2> QED
    BY <1>15, <2>1 DEF HoldsOK, InTx
<1>20. k.pages = store.pages /\ k.szMax = store.szMax /\ k.nRef = store.nRef
  <2>1. IsStore(store)
    BY <1>1 DEF IInv
  <2> QED
    BY <1>2, <2>1, LockedFacts, LockedStep DEF SameLimit
<1>21. k.nRef = 0 => k.pages = <<>>
  BY <1>20 DEF CommittedIs
<1>22. ~Owning(t) /\ t.eState \in Int
  BY <1>15 DEF Owning
<1> HIDE DEF k, s
<1> QED
  BY <1>1, <1>4, <1>19, <1>20, <1>21, <1>22, QuietStep DEF s
-----------------------------------------------------------------------------
(* The end of a read, and the cache.                                       *)

\* What pager_unlock leaves.
LEMMA UnlockedFacts ==
    ASSUME NEW s, Typed(s), NEW m
    PROVE  LET t == Unlocked(s, m).s
           IN  /\ t.eState = PAGER_OPEN /\ t.memDb = s.memDb
               /\ t.dbFileVers = s.dbFileVers
               /\ t.hasHeldSharedLock = s.hasHeldSharedLock
               /\ t.cache = IF s.eState = PAGER_ERROR THEN <<>> ELSE s.cache
               /\ Unlocked(s, m).m = Locked(m, s.eLock, NO_LOCK)
<1>1. Fields \subseteq DOMAIN s
  BY DEF Typed
<1> DEFINE t == [s EXCEPT !.eState = PAGER_OPEN, !.eLock = NO_LOCK,
                     !.changeCountDone = FALSE,
                     !.cache = IF s.eState = PAGER_ERROR THEN <<>> ELSE @,
                     !.dbSize = 0, !.dbOrigSize = 0, !.dbFileSize = 0,
                     !.journal = <<>>, !.journalHdr = 0,
                     !.sub = <<>>, !.aSavepoint = <<>>]
<1>2. Unlocked(s, m) = [s |-> t, m |-> Locked(m, s.eLock, NO_LOCK)]
  BY DEF Unlocked
<1>3. t.eState = PAGER_OPEN /\ t.memDb = s.memDb
  BY ONLY <1>1 DEF Fields, PAGER_OPEN
<1>4. t.dbFileVers = s.dbFileVers /\ t.hasHeldSharedLock = s.hasHeldSharedLock
  BY ONLY <1>1 DEF Fields
<1>5. t.cache = IF s.eState = PAGER_ERROR THEN <<>> ELSE s.cache
  BY ONLY <1>1 DEF Fields
<1> HIDE DEF t
<1> QED
  BY <1>2, <1>3, <1>4, <1>5

\* pagerUnlockAndRollback.
LEMMA EndReadKeepsStore ==
    ASSUME DataInv, DataInv', NEW B, CommittedIs(B), NEW p \in Pagers, EndRead(p)
    PROVE  CommittedIs(B)'
<1> DEFINE s == pager[p]
           t == Unlocked(s, store).s
           k == Unlocked(s, store).m
<1>1. /\ s.eState \in {PAGER_READER, PAGER_ERROR} /\ ~s.memDb
      /\ pager' = [pager EXCEPT ![p] = t] /\ store' = k
      /\ IInv /\ HoldsOK(s, store, B) /\ B \in Databases
  BY DEF EndRead, Update, DataInv, CommittedIs
<1>2. Typed(s) /\ StoreTyped(store) /\ IsStore(store)
  BY <1>1, PagersTyped DEF IInv
<1>3. /\ t.eState = PAGER_OPEN /\ ~t.memDb /\ t.dbFileVers = s.dbFileVers
      /\ t.hasHeldSharedLock = s.hasHeldSharedLock
      /\ t.cache = IF s.eState = PAGER_ERROR THEN <<>> ELSE s.cache
      /\ k = Locked(store, s.eLock, NO_LOCK)
  BY <1>1, <1>2, UnlockedFacts
<1>4. k.pages = store.pages /\ k.szMax = store.szMax /\ k.nRef = store.nRef
  BY <1>2, <1>3, LockedFacts, LockedStep DEF SameLimit
<1>5. k.nRef = 0 => k.pages = <<>>
  BY <1>4 DEF CommittedIs
<1>6. t.eState \in Int /\ ~Owning(t) /\ ~(t.eState > PAGER_OPEN)
  BY <1>3 DEF Owning
<1>7. s.hasHeldSharedLock
  BY <1>1 DEF HoldsOK
<1> HIDE DEF t, k
<1>8. CASE s.eState = PAGER_READER
  <2>1. Reads(s, store, B) /\ ~Owning(s)
    BY <1>1, <1>8 DEF HoldsOK, Owning
  <2>2. t.cache = s.cache
    BY <1>3, <1>8
  <2>3. NotAhead(t, store, B)
    BY <1>3, <2>1 DEF Reads, NotAhead
  <2>4. Fresh(t, store, B)
    BY <1>3, <1>7, <2>1, <2>2, <2>3 DEF Reads, Fresh
  <2>5. HoldsOK(t, store, B)
    BY <1>3, <2>4 DEF HoldsOK, InTx
  <2> HIDE DEF s
  <2> QED
    BY <1>1, <1>4, <1>5, <1>6, <2>1, <2>5, QuietStep DEF s
<1>9. CASE s.eState = PAGER_ERROR
  <2>1. Broken(s, store, B)
    BY <1>1, <1>9 DEF HoldsOK
  <2>2. t.cache = <<>> /\ DOMAIN t.cache = {}
    BY <1>3, <1>9, EmptySeq
  <2>3. NotAhead(t, store, B)
    BY <1>3, <2>1 DEF Broken, NotAhead
  <2>4. Fresh(t, store, B)
    BY <2>2, <2>3 DEF Fresh
  <2>5. HoldsOK(t, store, B)
    BY <1>3, <2>4 DEF HoldsOK, InTx
  <2>6. Len(store.pages) = s.dbOrigSize /\ Stores(store, Len(store.pages), B)
    BY <2>1 DEF Broken, Stores
  <2>7. StoreHeaded(store)
    BY <1>2, <2>1, <2>6, StoreGivesSize DEF Broken
  <2> HIDE DEF s
  <2> QED
    BY <1>1, <1>4, <1>5, <1>6, <2>5, <2>6, <2>7, QuietStep DEF s
<1> QED
  BY <1>1, <1>8, <1>9

\* A step of one pager that leaves the store alone, and neither begins nor
\* ends a transaction.
LEMMA LocalStep ==
    ASSUME DataInv, NEW B, CommittedIs(B), NEW p \in Pagers,
           NEW t, t.eState \in Int, Becomes(p, t), HoldsOK(t, store, B),
           Owning(t) <=> Owning(pager[p]),
           t.eState > PAGER_OPEN => pager[p].eState > PAGER_OPEN
    PROVE  CommittedIs(B)'
<1>1. pager' = [pager EXCEPT ![p] = t] /\ store' = store
  BY DEF Becomes
<1>2. IInv /\ (store.nRef = 0 => store.pages = <<>>)
  BY DEF DataInv, CommittedIs
<1> QED
  BY <1>1, <1>2, QuietStep

\* What the transaction of a pager is given by.
LEMMA OwnTx ==
    ASSUME DataInv, NEW B, CommittedIs(B), NEW p \in Pagers, InTx(pager[p])
    PROVE  /\ Changing(pager[p], store.szMax) /\ Sound(pager[p])
           /\ Tx(pager[p], store, B) /\ StoreTyped(store) /\ StoreFits(store)
           /\ B \in Databases /\ Owning(pager[p])
           /\ pager[p].eState \in {PAGER_WRITER_LOCKED, PAGER_WRITER_CACHEMOD,
                                   PAGER_WRITER_DBMOD}
           /\ ~pager[p].memDb => pager[p].hasHeldSharedLock
           /\ pager[p].memDb => pager[p].eState # PAGER_WRITER_DBMOD
<1>1. LocalOK(pager[p], store.szMax) /\ StoreTyped(store) /\ StoreFits(store)
  BY PagersTyped
<1>2. Changing(pager[p], store.szMax)
  BY <1>1, LocalCases
<1>3. Sound(pager[p])
  BY <1>2 DEF Changing
<1>4. HoldsOK(pager[p], store, B) /\ B \in Databases
  BY DEF CommittedIs
<1>5. Tx(pager[p], store, B)
  BY <1>4 DEF HoldsOK
<1>6. pager[p].eState \in {2, 3, 4}
  BY DEF InTx
<1>7. Owning(pager[p]) /\ pager[p].eState > PAGER_OPEN
  BY ONLY <1>6 DEF Owning, PAGER_WRITER_LOCKED, PAGER_ERROR, PAGER_OPEN
<1>8. ~pager[p].memDb => pager[p].hasHeldSharedLock
  BY <1>4, <1>7 DEF HoldsOK
<1>9. pager[p].memDb => pager[p].eState # PAGER_WRITER_DBMOD
  BY PagersTyped DEF StateOfLock
<1> QED
  BY <1>1, <1>2, <1>3, <1>4, <1>5, <1>6, <1>7, <1>8, <1>9

\* What holds of a pager in a transaction.
LEMMA TxHolds ==
    ASSUME NEW s, InTx(s), NEW m, NEW B, Tx(s, m, B),
           ~s.memDb => s.hasHeldSharedLock
    PROVE  HoldsOK(s, m, B) /\ Owning(s) /\ s.eState \in Int
<1>1. s.eState \in {2, 3, 4}
  BY DEF InTx
<1>2. Tx(s, m, B) /\ (~s.memDb => s.hasHeldSharedLock)
  OBVIOUS
<1> QED
  BY ONLY <1>1, <1>2 DEF HoldsOK, Owning, InTx, PAGER_OPEN, PAGER_READER,
     PAGER_WRITER_LOCKED, PAGER_WRITER_DBMOD, PAGER_WRITER_FINISHED, PAGER_ERROR

\* A step inside a transaction that leaves the store alone.
LEMMA TxStep ==
    ASSUME DataInv, NEW B, CommittedIs(B), NEW p \in Pagers, InTx(pager[p]),
           NEW t, Becomes(p, t), InTx(t), Tx(t, store, B),
           t.memDb = pager[p].memDb,
           t.hasHeldSharedLock = pager[p].hasHeldSharedLock
    PROVE  CommittedIs(B)'
<1>1. Owning(pager[p]) /\ (~pager[p].memDb => pager[p].hasHeldSharedLock)
  BY OwnTx
<1>2. HoldsOK(t, store, B) /\ Owning(t) /\ t.eState \in Int
  BY <1>1, TxHolds
<1>3. pager[p].eState > PAGER_OPEN
  BY OwnTx
<1> QED
  BY <1>1, <1>2, <1>3, LocalStep

\* sqlite3PagerGet.
LEMMA GetKeepsStore ==
    ASSUME DataInv, DataInv', NEW B, CommittedIs(B), NEW p \in Pagers,
           NEW n \in 1..MaxPage, Get(p, n)
    PROVE  CommittedIs(B)'
<1> DEFINE s == pager[p]
           t == Fetched(s, store, n)
<1>1. /\ s.eState \in PAGER_READER..PAGER_WRITER_DBMOD
      /\ n \notin DOMAIN s.cache /\ n <= s.dbSize
      /\ Becomes(p, t)
  BY DEF Get
<1>2. Typed(s) /\ StoreTyped(store) /\ LocalOK(s, store.szMax)
  BY PagersTyped
<1>3. Fetches(s, store, t, n)
  BY <1>2, FetchedFacts
<1>4. CASE s.eState = PAGER_READER
  <2>1. HoldsOK(s, store, B) /\ Reading(s, store.szMax)
    BY <1>2, <1>4, LocalCases DEF CommittedIs
  <2> HIDE DEF t
  <2>2. ~Owning(s) /\ t.eState = PAGER_READER /\ ~Owning(t) /\ t.eState \in Int
    BY <1>3, <1>4 DEF Owning, Fetches
  <2>3. HoldsOK(t, store, B)
    <3>1. CASE s.memDb
      <4>1. n \in Nat /\ 1 <= n /\ n <= s.dbSize /\ s.dbSize \in Nat
        BY <1>1, <1>2, Sizes
      <4>2. s.dbSize > 0
        BY ONLY <4>1
      <4>3. 1 \in DOMAIN s.cache
        BY <2>1, <4>2 DEF Reading
      <4>4. s.cache[1].c.vers.nPage = s.dbSize
        BY <1>4, <2>1, <3>1, <4>3 DEF HoldsOK
      <4>5. t.cache[1] = s.cache[1] /\ t.dbSize = s.dbSize /\ t.memDb
        BY <1>3, <3>1, <4>3 DEF Fetches
      <4> QED
        BY <2>2, <4>4, <4>5 DEF HoldsOK, InTx
    <3>2. CASE ~s.memDb
      <4>1. Reads(s, store, B) /\ s.hasHeldSharedLock
        BY <1>4, <2>1, <3>2 DEF HoldsOK
      <4>2. \A x \in 1..MaxPage : Read(store, x) = B[x]
        BY <1>4, ReaderAlone, NobodyOwns
      <4>3. t.cache[n].c = B[n]
        <5>1. t.cache[n] = CleanPage(Read(store, n))
          BY <1>1, <1>3, <3>2 DEF Fetches
        <5> QED
          BY <4>2, <5>1 DEF CleanPage
      <4>4. \A x \in DOMAIN t.cache : t.cache[x].c = B[x]
        BY <1>3, <4>1, <4>3 DEF Fetches, Reads
      <4>5. t.dbSize = s.dbSize /\ t.hasHeldSharedLock /\ ~t.memDb
        BY <1>3, <3>2, <4>1 DEF Fetches
      <4>6. t.dbFileVers = s.dbFileVers
            \/ (t.dbFileVers = Read(store, 1).vers /\ n = 1)
        BY <1>3 DEF Fetches
      <4>7. s.dbSize > 0
        <5>1. n \in Nat /\ 1 <= n /\ n <= s.dbSize /\ s.dbSize \in Nat
          BY <1>1, <1>2, Sizes
        <5> QED
          BY ONLY <5>1
      <4>8. t.dbFileVers = s.dbFileVers
        BY <4>1, <4>2, <4>6, <4>7 DEF Reads
      <4>9. Reads(t, store, B)
        BY <4>1, <4>4, <4>5, <4>8 DEF Reads, NotAhead
      <4> QED
        BY <2>2, <4>5, <4>9 DEF HoldsOK, InTx
    <3> QED
      BY <3>1, <3>2
  <2>4. s.eState > PAGER_OPEN
    BY <1>4
  <2> QED
    BY <1>1, <2>2, <2>3, <2>4, LocalStep
<1>5. CASE s.eState # PAGER_READER
  <2>1. InTx(s)
    BY <1>1, <1>5 DEF InTx
  <2>2. Changing(s, store.szMax) /\ Tx(s, store, B)
    BY <2>1, OwnTx
  <2>3. Tx(t, store, B)
    BY <1>2, <2>2, FetchedTx
  <2>4. InTx(t) /\ t.memDb = s.memDb /\ t.hasHeldSharedLock = s.hasHeldSharedLock
    BY <1>3, <2>1 DEF InTx, Fetches
  <2> HIDE DEF t
  <2> QED
    BY <1>1, <2>1, <2>3, <2>4, TxStep
<1> QED
  BY <1>4, <1>5
\* A smaller cache leaves the beginning of the transaction as it is.
LEMMA BaseLess ==
    ASSUME NEW s, NEW t, NEW m, NEW B, Base(s, m, B), ~s.memDb, t.memDb = s.memDb,
           t.dbOrigSize = s.dbOrigSize, t.journal = s.journal,
           DOMAIN t.cache \subseteq DOMAIN s.cache,
           \A i \in DOMAIN t.cache : t.cache[i] = s.cache[i]
    PROVE  Base(t, m, B)
<1>1. InJournal(t) = InJournal(s)
  BY DEF InJournal
<1>2. \A n \in 1..t.dbOrigSize : n \notin InJournal(t) =>
         /\ n \in DOMAIN t.cache => t.cache[n].c = B[n]
         /\ Read(m, n) = B[n]
  BY <1>1 DEF Base
<1>3. ~t.memDb
  OBVIOUS
<1>4. /\ B \in Databases
      /\ \A n \in 1..MaxPage : n > t.dbOrigSize => B[n] = Zero
      /\ \A i \in DOMAIN t.journal : t.journal[i].c = B[t.journal[i].pgno]
  BY DEF Base
<1> QED
  BY ONLY <1>2, <1>3, <1>4 DEF Base

\* A clean page that goes leaves the transaction as it is.
LEMMA WithoutTx ==
    ASSUME NEW s, Sound(s), NEW m, StoreTyped(m), NEW B, Tx(s, m, B), ~s.memDb,
           1 \in DOMAIN s.cache,
           NEW n \in DOMAIN s.cache, ~s.cache[n].dirty, n # 1,
           NEW t, t = Without(s, n)
    PROVE  Tx(t, m, B)
<1>1. Typed(s)
  BY DEF Sound
<1>2. /\ SameFile(s, t) /\ SameJournals(s, t) /\ t.eState = s.eState
      /\ t.dbSize = s.dbSize /\ DOMAIN t.cache = DOMAIN s.cache \ {n}
      /\ \A i \in DOMAIN s.cache \ {n} : t.cache[i] = s.cache[i]
  BY <1>1, WithoutFacts
<1>3. /\ t.journal = s.journal /\ t.journalHdr = s.journalHdr
      /\ t.sub = s.sub /\ t.aSavepoint = s.aSavepoint /\ t.memDb = s.memDb
      /\ t.dbOrigSize = s.dbOrigSize /\ t.dbFileSize = s.dbFileSize
      /\ t.dbFileVers = s.dbFileVers
  BY <1>2 DEF SameFile, SameJournals
<1>4. InJournal(t) = InJournal(s)
  BY <1>3 DEF InJournal
<1>5. /\ FlagsOK(s) /\ UnsyncedOK(s) /\ Base(s, m, B)
      /\ Unwritten(s, m, B) /\ Coherent(s, m) /\ s.dbFileSize = Len(m.pages)
      /\ Tracked(s) /\ Grown(s) /\ Headed(s, m, B) /\ Counting(s, m, B)
  BY DEF Tx, Logged
<1>6. FlagsOK(t)
  BY <1>2, <1>3, <1>4, <1>5 DEF FlagsOK
<1>7. UnsyncedOK(t)
  <2>1. ASSUME NEW i \in DOMAIN s.journal, i > s.journalHdr
        PROVE  s.journal[i].pgno \in DOMAIN t.cache
               /\ t.cache[s.journal[i].pgno].needSync
    <3>1. s.journal[i].pgno \in DOMAIN s.cache
          /\ s.cache[s.journal[i].pgno].needSync
      BY <1>5, <2>1 DEF UnsyncedOK
    <3>2. s.journal[i].pgno # n
      BY <1>5, <3>1 DEF FlagsOK
    <3> QED
      BY <1>2, <3>1, <3>2
  <2> QED
    BY <1>2, <1>3, <1>5, <2>1 DEF UnsyncedOK
<1>8. Base(t, m, B)
  BY <1>2, <1>3, <1>5, BaseLess
<1>9. Unwritten(t, m, B)
  BY <1>3, <1>5 DEF Unwritten
<1>10. Coherent(t, m)
  BY <1>2, <1>5 DEF Coherent
<1>11. Logged(t, m, B)
  BY <1>3, <1>5, <1>6, <1>7, <1>8, <1>9, <1>10 DEF Logged
<1>12. Tracked(t)
  <2>1. \A sp, x, k : Recorded(t, sp, x, k) = Recorded(s, sp, x, k)
    BY <1>3, RecordedSame
  <2>2. SubOK(s) /\ MarksOK(s) /\ OrderOK(s)
    BY <1>5 DEF Tracked
  <2>3. SubOK(t)
    BY <1>2, <1>3, <1>4, <2>2 DEF SubOK
  <2>4. MarksOK(t)
    BY ONLY <1>3, <2>1, <2>2 DEF MarksOK
  <2>5. OrderOK(t)
    BY ONLY <1>3, <2>1, <2>2 DEF OrderOK
  <2> QED
    BY <2>3, <2>4, <2>5 DEF Tracked
<1>13. Grown(t)
  BY ONLY <1>2, <1>3, <1>5 DEF Grown
<1>14. 1 \in DOMAIN t.cache /\ t.cache[1] = s.cache[1]
  BY <1>2
<1>15. Headed(t, m, B)
  <2>1. Holding(t, m, 1) = Holding(s, m, 1)
    BY <1>14 DEF Holding
  <2>2. \A sp, c : Saved(s, m, sp, 1, c) => Saved(t, m, sp, 1, c)
    <3>1. \A sp, x, k : Recorded(t, sp, x, k) = Recorded(s, sp, x, k)
                        /\ InTail(t, sp, x) = InTail(s, sp, x)
      BY <1>3, RecordedSame
    <3> QED
      BY ONLY <1>3, <2>1, <3>1 DEF Saved
  <2> QED
    BY ONLY <1>2, <1>3, <1>5, <1>14, <2>2 DEF Headed
<1>16. Counting(t, m, B)
  BY <1>3, <1>4, <1>5, <1>14 DEF Counting
<1> QED
  BY <1>11, <1>12, <1>13, <1>15, <1>16 DEF Tx

\* pcache1: the cache drops a clean page.
LEMMA EvictKeepsStore ==
    ASSUME DataInv, DataInv', NEW B, CommittedIs(B), NEW p \in Pagers,
           NEW n \in 1..MaxPage, Evict(p, n)
    PROVE  CommittedIs(B)'
<1> DEFINE s == pager[p]
           t == Without(s, n)
<1>1. /\ ~s.memDb /\ n \in DOMAIN s.cache /\ ~s.cache[n].dirty
      /\ n = 1 => s.eState = PAGER_OPEN
      /\ Becomes(p, t)
  BY DEF Evict, Without
<1>2. Typed(s) /\ StoreTyped(store) /\ LocalOK(s, store.szMax)
  BY PagersTyped
<1>3. HoldsOK(s, store, B)
  BY DEF CommittedIs
<1>4. /\ SameFile(s, t) /\ SameJournals(s, t) /\ t.eState = s.eState
      /\ t.dbSize = s.dbSize /\ DOMAIN t.cache = DOMAIN s.cache \ {n}
      /\ \A i \in DOMAIN s.cache \ {n} : t.cache[i] = s.cache[i]
  BY <1>2, WithoutFacts
<1> HIDE DEF t
<1>5. s.eState \in NOT_OPEN..PAGER_ERROR
  BY <1>2 DEF Typed
<1>6. t.eState \in Int
  BY ONLY <1>4, <1>5
<1>7. /\ t.memDb = s.memDb /\ t.hasHeldSharedLock = s.hasHeldSharedLock
      /\ t.dbOrigSize = s.dbOrigSize /\ t.dbFileSize = s.dbFileSize
      /\ t.dbFileVers = s.dbFileVers
      /\ t.journal = s.journal /\ t.journalHdr = s.journalHdr
  BY <1>4 DEF SameFile, SameJournals
<1>8. InJournal(t) = InJournal(s)
  BY <1>7 DEF InJournal
<1>9. NotAhead(t, store, B) = NotAhead(s, store, B)
  BY <1>7 DEF NotAhead
<1>10. s.eState > PAGER_OPEN => t.hasHeldSharedLock
  BY <1>1, <1>3, <1>7 DEF HoldsOK
<1>11. ASSUME s.eState = PAGER_OPEN PROVE Fresh(t, store, B)
  <2>1. Fresh(s, store, B)
    BY <1>3, <1>11 DEF HoldsOK
  <2> QED
    BY ONLY <1>4, <1>7, <1>9, <2>1 DEF Fresh
<1>12. ASSUME s.eState = PAGER_READER PROVE Reads(t, store, B)
  <2>1. Reads(s, store, B)
    BY <1>1, <1>3, <1>12 DEF HoldsOK
  <2> QED
    BY ONLY <1>4, <1>7, <1>9, <2>1 DEF Reads
<1>13. ASSUME InTx(s) PROVE Tx(t, store, B)
  <2>1. Changing(s, store.szMax) /\ Sound(s) /\ Tx(s, store, B)
    BY <1>13, OwnTx
  <2>2. n # 1 /\ 1 \in DOMAIN s.cache
    BY <1>1, <1>13, <2>1 DEF InTx, Changing
  <2> QED
    BY <1>1, <1>2, <2>1, <2>2, WithoutTx DEF t
<1>14. ASSUME s.eState = PAGER_WRITER_FINISHED PROVE Done(t, store, B)
  <2>1. Done(s, store, B) /\ Finished(s, store.szMax)
    BY <1>2, <1>3, <1>14, LocalCases DEF HoldsOK
  <2>2. 1 \in DOMAIN s.cache /\ n # 1
    BY <1>1, <1>14, <2>1 DEF Finished
  <2>3. 1 \in DOMAIN t.cache /\ t.cache[1] = s.cache[1]
    BY <1>4, <2>2
  <2>4. JournalOK(s) /\ Base(s, store, B) /\ Clean(s) /\ Coherent(s, store)
    BY <1>1, <2>1 DEF Done
  <2>5. JournalOK(t)
    BY <1>7, <2>4 DEF JournalOK
  <2>9. DOMAIN t.cache \subseteq DOMAIN s.cache
        /\ \A i \in DOMAIN t.cache : t.cache[i] = s.cache[i]
    BY <1>4
  <2>6. Base(t, store, B)
    BY <1>1, <1>7, <2>4, <2>9, BaseLess
  <2>7. Clean(t)
    BY <1>4, <2>4 DEF Clean
  <2>8. Coherent(t, store)
    BY <1>4, <2>4 DEF Coherent
  <2> QED
    BY ONLY <1>1, <1>4, <1>7, <1>8, <2>1, <2>3, <2>5, <2>6, <2>7, <2>8 DEF Done
<1>15. ASSUME s.eState = PAGER_ERROR PROVE Broken(t, store, B)
  <2>1. Broken(s, store, B)
    BY <1>3, <1>15 DEF HoldsOK
  <2>2. FlagsOK(t)
    BY <1>4, <1>7, <1>8, <2>1 DEF FlagsOK, Broken
  <2>3. JournalOK(t)
    BY <1>7, <2>1 DEF JournalOK, Broken
  <2>4. DOMAIN t.cache \subseteq DOMAIN s.cache
        /\ \A i \in DOMAIN t.cache : t.cache[i] = s.cache[i]
    BY <1>4
  <2>5. Base(t, store, B)
    BY <1>1, <1>7, <2>1, <2>4, BaseLess DEF Broken
  <2>6. Coherent(t, store)
    BY ONLY <1>4, <2>1, <2>4 DEF Coherent, Broken
  <2>7. t.aSavepoint = s.aSavepoint
    BY <1>4 DEF SameJournals
  <2>8. Grown(t)
    BY ONLY <1>4, <1>7, <2>1, <2>7 DEF Grown, Broken
  <2> QED
    BY ONLY <1>7, <1>9, <2>1, <2>2, <2>3, <2>5, <2>6, <2>8 DEF Broken
<1>16. InTx(t) = InTx(s) /\ Owning(t) = Owning(s)
  BY <1>4 DEF InTx, Owning
<1>17. HoldsOK(t, store, B)
  BY ONLY <1>1, <1>4, <1>7, <1>10, <1>11, <1>12, <1>13, <1>14, <1>15, <1>16
     DEF HoldsOK
<1>18. t.eState > PAGER_OPEN => s.eState > PAGER_OPEN
  BY <1>4
<1> QED
  BY <1>1, <1>6, <1>16, <1>17, <1>18, LocalStep
-----------------------------------------------------------------------------
(* Changing a page.                                                        *)

\* What the caller of sqlite3PagerWrite has.
LEMMA AlteredStep ==
    ASSUME DataInv, NEW B, CommittedIs(B), NEW p \in Pagers, InTx(pager[p]),
           NEW t, Becomes(p, t), Altering(t, store.szMax), Tx(t, store, B),
           t.memDb = pager[p].memDb,
           t.hasHeldSharedLock = pager[p].hasHeldSharedLock
    PROVE  CommittedIs(B)'
<1>1. InTx(t)
  BY DEF Altering, Sound
<1> QED
  BY <1>1, TxStep

\* An edit leaves everything but the page.
LEMMA EditedKeeps ==
    ASSUME NEW s, Typed(s), NEW n, NEW c
    PROVE  /\ Edited(s, n, c).memDb = s.memDb
           /\ Edited(s, n, c).hasHeldSharedLock = s.hasHeldSharedLock
BY DEF Edited, Typed, Fields

\* Making a page writable leaves what the pager is.
LEMMA PageKeeps ==
    ASSUME NEW s, NEW m, StoreTyped(m), NEW B, Going(s, m, B),
           NEW n \in 1..MaxPage, n <= s.dbSize + 1,
           NEW w, w = WritablePage(s, m, n)
    PROVE  /\ w.memDb = s.memDb /\ w.hasHeldSharedLock = s.hasHeldSharedLock
           /\ Typed(w) /\ Altering(w, m.szMax) /\ n \in DOMAIN w.cache
           /\ w.cache[n].c \in Content
<1>1. Opens(s, m, B, w, n)
  BY PageGoing
<1>2. SameFile(s, w) /\ Altering(w, m.szMax) /\ n \in DOMAIN w.cache
  BY <1>1 DEF Opens, Follows, Protected
<1>3. Typed(w)
  BY <1>2 DEF Altering, Sound
<1>4. w.cache[n] \in PageType
  BY <1>2, <1>3 DEF Typed, IsCache
<1>5. w.cache[n].c \in Content
  BY <1>4 DEF PageType
<1> QED
  BY <1>2, <1>3, <1>5 DEF SameFile

\* The b-tree writes a page.
LEMMA WriteKeepsStore ==
    ASSUME DataInv, DataInv', NEW B, CommittedIs(B), NEW p \in Pagers,
           NEW n \in 1..MaxPage, NEW v \in Vals, Write(p, n, v)
    PROVE  /\ CommittedIs(B)' /\ Continues(pager[p], store, pager'[p], store')
           /\ Sound(pager'[p]) /\ store' = store
<1> DEFINE s == pager[p]
           w == WritablePage(s, store, n)
           c == [w.cache[n].c EXCEPT !.val = v]
           t == Edited(w, n, c)
<1>1. Becomes(p, t) /\ n <= s.dbSize /\ InTx(s)
  BY DEF Write, WritablePage, Writing, InTx, Edited
<1>2. /\ Changing(s, store.szMax) /\ Tx(s, store, B) /\ StoreTyped(store)
      /\ Typed(s)
  BY <1>1, OwnTx DEF Sound
<1>3. Going(s, store, B)
  BY <1>2, TxGoing
<1>4. n <= s.dbSize + 1
  BY <1>1, <1>2, Sizes
<1>5. /\ w.memDb = s.memDb /\ w.hasHeldSharedLock = s.hasHeldSharedLock
      /\ Typed(w) /\ w.cache[n].c \in Content
  BY <1>2, <1>3, <1>4, PageKeeps
<1> HIDE DEF w
<1>6. c \in Content /\ c.vers = w.cache[n].c.vers
  BY <1>5 DEF Content
<1> HIDE DEF c
<1>7. t.memDb = s.memDb /\ t.hasHeldSharedLock = s.hasHeldSharedLock
  BY <1>5, EditedKeeps
<1>8. Tx(t, store, B) /\ Altering(t, store.szMax)
      /\ Continues(s, store, t, store)
  BY <1>1, <1>2, <1>6, WrittenTx DEF w
<1> HIDE DEF t
<1>9. pager'[p] = t /\ store' = store
  BY <1>1 DEF Becomes, DataInv, IInv
<1>10. Sound(pager'[p])
  BY <1>8, <1>9 DEF Altering
<1> QED
  BY <1>1, <1>7, <1>8, <1>9, <1>10, AlteredStep

\* The content of page 1 that counts n pages, and of page n with value v.
Numbered(s, n) == [s.cache[1].c EXCEPT !.vers.nPage = n]
Valued(s, n, v) == [s.cache[n].c EXCEPT !.val = v]

\* What allocateBtreePage leaves.
LEMMA AllocatedKeeps ==
    ASSUME NEW s, NEW m, StoreTyped(m), NEW B, Changing(s, m.szMax), Tx(s, m, B),
           NEW v \in Vals, NEW n, n = s.dbSize + 1, n <= MaxPage,
           NEW one, one = WritablePage(s, m, 1),
           NEW b, b = Numbered(one, n),
           NEW counted, counted = Edited(one, 1, b),
           NEW w, w = WritablePage(counted, m, n),
           NEW c, c = Valued(w, n, v),
           NEW t, t = Edited(w, n, c)
    PROVE  /\ Tx(t, m, B) /\ Altering(t, m.szMax) /\ Continues(s, m, t, m)
           /\ t.memDb = s.memDb /\ t.hasHeldSharedLock = s.hasHeldSharedLock
<1>2. Typed(s) /\ 1 <= s.dbSize
  BY DEF Sound, Changing
<1>3. Going(s, m, B)
  BY TxGoing
<1>4. s.dbSize \in Nat /\ n \in 1..MaxPage /\ n # 1 /\ 1 \in 1..MaxPage
      /\ 1 <= s.dbSize + 1
  <2>1. s.dbSize \in Nat
    BY <1>2, Sizes
  <2> QED
    BY <1>2, <2>1, PagerAssumption
<1>5. /\ one.memDb = s.memDb /\ one.hasHeldSharedLock = s.hasHeldSharedLock
      /\ Typed(one) /\ Altering(one, m.szMax) /\ 1 \in DOMAIN one.cache
      /\ one.cache[1].c \in Content /\ Opens(s, m, B, one, 1)
  BY <1>3, <1>4, PageKeeps, PageGoing
<1>6. b \in Content /\ b.vers.nPage = n
      /\ b.vers.counter = one.cache[1].c.vers.counter
  <2>1. PICK old \in Content : old = one.cache[1].c
    BY <1>5
  <2>2. b = [old EXCEPT !.vers.nPage = n] /\ n \in 0..MaxPage
    BY <1>4, <2>1 DEF Numbered
  <2>3. b \in Content /\ b.vers.nPage = n /\ b.vers.counter = old.vers.counter
    BY ONLY <2>1, <2>2 DEF Content, VersType
  <2> QED
    BY <2>1, <2>3
<1>7. counted.memDb = s.memDb /\ counted.hasHeldSharedLock = s.hasHeldSharedLock
  BY <1>5, EditedKeeps
<1>8. Going(counted, m, B) /\ counted.dbSize = one.dbSize
  <2>1. Going(one, m, B) /\ Protected(one, 1)
    BY <1>5 DEF Opens
  <2> QED
    BY <1>5, <1>6, <2>1, EditGoing
<1>9. n <= counted.dbSize + 1
  <2>1. counted.dbSize = s.dbSize
    BY <1>2, <1>4, <1>5, <1>8 DEF Opens
  <2> QED
    BY <1>4, <2>1
<1>10. /\ w.memDb = s.memDb /\ w.hasHeldSharedLock = s.hasHeldSharedLock
       /\ Typed(w) /\ w.cache[n].c \in Content
  BY <1>4, <1>7, <1>8, <1>9, PageKeeps
<1>11. c \in Content
  <2>1. PICK old \in Content : old = w.cache[n].c
    BY <1>10
  <2>2. c = [old EXCEPT !.val = v] /\ v \in Vals
    BY <2>1 DEF Valued
  <2>3. old = [val |-> old.val, vers |-> old.vers] /\ old.vers \in VersType
    BY ONLY <2>1 DEF Content
  <2>4. c = [val |-> v, vers |-> old.vers]
    BY ONLY <2>2, <2>3
  <2> QED
    BY ONLY <2>2, <2>3, <2>4 DEF Content
<1>12. t.memDb = s.memDb /\ t.hasHeldSharedLock = s.hasHeldSharedLock
  BY <1>10, EditedKeeps
<1>13. Tx(t, m, B) /\ Altering(t, m.szMax) /\ Continues(s, m, t, m)
  BY <1>6, <1>11, AllocatedTx
<1> QED
  BY <1>12, <1>13

\* allocateBtreePage.
LEMMA AllocateKeepsStore ==
    ASSUME DataInv, DataInv', NEW B, CommittedIs(B), NEW p \in Pagers,
           NEW v \in Vals, Allocate(p, v)
    PROVE  /\ CommittedIs(B)' /\ Continues(pager[p], store, pager'[p], store')
           /\ Sound(pager'[p]) /\ store' = store
<1> DEFINE n == pager[p].dbSize + 1
           one == WritablePage(pager[p], store, 1)
           b == [one.cache[1].c EXCEPT !.vers.nPage = n]
           counted == [one EXCEPT !.cache[1].c = b]
           w == WritablePage(counted, store, n)
           c == [w.cache[n].c EXCEPT !.val = v]
           t == [w EXCEPT !.cache[n].c = c]
<1>1. Becomes(p, t) /\ Writing(p)
  BY DEF Allocate, WritablePage
<1>2. n <= MaxPage
  BY DEF Allocate
<1> HIDE DEF t
<1>3. t = Edited(w, n, c)
  BY DEF t, Edited
<1> HIDE DEF c
<1>4. c = Valued(w, n, v)
  BY DEF c, Valued
<1> HIDE DEF w
<1>5. w = WritablePage(counted, store, n)
  BY DEF w
<1> HIDE DEF counted
<1>6. counted = Edited(one, 1, b)
  BY DEF counted, Edited
<1> HIDE DEF b
<1>7. b = Numbered(one, n)
  BY DEF b, Numbered
<1> HIDE DEF one
<1>8. one = WritablePage(pager[p], store, 1)
  BY DEF one
<1>9. n = pager[p].dbSize + 1
  OBVIOUS
<1> HIDE DEF n
<1>10. InTx(pager[p])
  BY <1>1 DEF Writing, InTx
<1>11. /\ Changing(pager[p], store.szMax) /\ Tx(pager[p], store, B)
       /\ StoreTyped(store)
  BY <1>10, OwnTx
<1>12. /\ Tx(t, store, B) /\ Altering(t, store.szMax)
       /\ Continues(pager[p], store, t, store)
       /\ t.memDb = pager[p].memDb
       /\ t.hasHeldSharedLock = pager[p].hasHeldSharedLock
  BY <1>2, <1>3, <1>4, <1>5, <1>6, <1>7, <1>8, <1>9, <1>11, AllocatedKeeps
<1>13. pager'[p] = t /\ store' = store
  BY <1>1 DEF Becomes, DataInv, IInv
<1>14. Sound(pager'[p])
  BY <1>12, <1>13 DEF Altering
<1> QED
  BY <1>1, <1>10, <1>12, <1>13, <1>14, AlteredStep

\* A transaction that begins.
Begins(w, m, B) ==
    /\ Typed(w) /\ w.eState = PAGER_WRITER_LOCKED
    /\ Clean(w) /\ Blank(w) /\ w.aSavepoint = <<>>
    /\ w.dbOrigSize = w.dbSize /\ w.dbFileSize = w.dbSize
    /\ Base(w, m, B)
    /\ ~w.memDb => Coherent(w, m) /\ w.dbFileSize = Len(m.pages)

\* Before its first change a transaction has all it needs to undo it.
LEMMA BeginsLogged ==
    ASSUME NEW w, NEW m, NEW B, Begins(w, m, B)
    PROVE  Logged(w, m, B) /\ Tracked(w) /\ Grown(w)
<1>1. /\ w.eState = PAGER_WRITER_LOCKED /\ Clean(w)
      /\ w.journal = <<>> /\ w.sub = <<>> /\ w.journalHdr = 0
      /\ w.aSavepoint = <<>> /\ w.dbOrigSize = w.dbSize
      /\ Base(w, m, B)
      /\ ~w.memDb => Coherent(w, m) /\ w.dbFileSize = Len(m.pages)
      /\ w.dbSize \in Nat
  BY Sizes DEF Begins, Blank
<1>2. DOMAIN w.journal = {} /\ DOMAIN w.sub = {} /\ DOMAIN w.aSavepoint = {}
  BY <1>1, EmptySeq
<1>3. FlagsOK(w)
  BY <1>1 DEF FlagsOK, Clean
<1>4. UnsyncedOK(w)
  BY <1>1, <1>2 DEF UnsyncedOK
<1>5. Unwritten(w, m, B)
  BY <1>2 DEF Unwritten
<1>6. Logged(w, m, B)
  BY <1>1, <1>3, <1>4, <1>5 DEF Logged
<1>7. SubOK(w) /\ MarksOK(w) /\ OrderOK(w)
  BY <1>2 DEF SubOK, MarksOK, OrderOK
<1>8. Grown(w)
  BY <1>1, <1>2 DEF Grown
<1> QED
  BY <1>6, <1>7, <1>8 DEF Tracked

\* A pager that begins on a headed database is in a transaction.
LEMMA BeginsTx ==
    ASSUME NEW w, NEW m, NEW B, Begins(w, m, B), w.dbSize > 0,
           w.cache[1].c.vers.nPage = w.dbSize, w.cache[1].c = B[1],
           ~w.memDb => w.dbFileVers = B[1].vers
    PROVE  Tx(w, m, B)
<1>1. Logged(w, m, B) /\ Tracked(w) /\ Grown(w)
  BY BeginsLogged
<1>2. w.sub = <<>> /\ w.aSavepoint = <<>> /\ w.dbOrigSize = w.dbSize
  BY DEF Begins, Blank
<1>3. DOMAIN w.sub = {} /\ DOMAIN w.aSavepoint = {}
  BY <1>2, EmptySeq
<1>4. Headed(w, m, B)
  BY <1>2, <1>3 DEF Headed
<1>5. ~w.memDb => Counting(w, m, B)
  BY <1>3 DEF Counting
<1> QED
  BY <1>1, <1>4, <1>5 DEF Tx
-----------------------------------------------------------------------------
(* Beginning a transaction.                                                *)

\* What the record of a pager that begins to write has.
Starts(s, lock, w) ==
    /\ Typed(w) /\ w.eState = PAGER_WRITER_LOCKED /\ Sound(w)
    /\ w.dbOrigSize = s.dbSize /\ w.dbFileSize = s.dbSize
    /\ w.memDb = s.memDb /\ w.hasHeldSharedLock = s.hasHeldSharedLock
    /\ w.dbFileVers = s.dbFileVers
    /\ w.dbSize = s.dbSize /\ w.cache = s.cache
    /\ Clean(w) /\ Blank(w) /\ w.aSavepoint = <<>>

Starter(s, lock) ==
    [s EXCEPT !.eState = PAGER_WRITER_LOCKED, !.eLock = lock,
              !.dbOrigSize = s.dbSize, !.dbFileSize = s.dbSize]

\* What sqlite3PagerBegin() changes: the state, the lock and the sizes.
LEMMA StarterStarts ==
    ASSUME NEW s, NEW k, Reading(s, k), s.dbFileVers.counter < MaxVer,
           NEW lock \in {NO_LOCK, SHARED_LOCK, RESERVED_LOCK, EXCLUSIVE_LOCK},
           NEW w, w = Starter(s, lock)
    PROVE  Starts(s, lock, w)
<1>1. Typed(s) /\ Clean(s) /\ Blank(s) /\ s.aSavepoint = <<>> /\ CounterOK(s)
      /\ (~s.memDb => ~s.changeCountDone)
  BY DEF Reading, Idle
<1>2. Fields \subseteq DOMAIN s
  BY <1>1 DEF Typed
<1>3. /\ w.eState = PAGER_WRITER_LOCKED /\ w.eLock = lock
      /\ w.dbOrigSize = s.dbSize /\ w.dbFileSize = s.dbSize
      /\ w.memDb = s.memDb /\ w.hasHeldSharedLock = s.hasHeldSharedLock
      /\ w.changeCountDone = s.changeCountDone /\ w.dbFileVers = s.dbFileVers
      /\ w.dbSize = s.dbSize /\ w.cache = s.cache /\ SameJournals(s, w)
      /\ Fields \subseteq DOMAIN w
  BY <1>2 DEF Starter, Fields, SameJournals
<1>4. Typed(w)
  BY <1>1, <1>3 DEF Typed, SameJournals
<1>5. w.journal = <<>> /\ w.sub = <<>> /\ w.aSavepoint = <<>>
      /\ w.journalHdr = 0
  BY <1>1, <1>3 DEF Blank, SameJournals
<1>6. JournalOK(w) /\ MarksBound(w) /\ MarksInside(w)
      /\ BelowRecords(w.journal) /\ BelowRecords(w.sub)
  <2>1. DOMAIN <<>> = {}
    BY EmptySeq
  <2> QED
    BY <1>5, <2>1 DEF JournalOK, MarksBound, MarksInside, BelowRecords
<1>7. Clean(w) /\ WriteableOK(w) /\ CounterOK(w)
  BY <1>1, <1>3 DEF Clean, WriteableOK, CounterOK
<1>8. Sound(w)
  BY <1>1, <1>3, <1>4, <1>5, <1>6, <1>7 DEF Sound, InTx, Blank, Below
<1> QED
  BY <1>3, <1>4, <1>5, <1>7, <1>8 DEF Starts, Blank

\* The database a reader of a store reads.
LEMMA ReadsBegin ==
    ASSUME NEW s, NEW k, Reading(s, k), ~s.memDb, NEW m, StoreTyped(m),
           NEW B, Reads(s, m, B), Stores(m, Len(m.pages), B), StoreHeaded(m),
           NEW lock, NEW w, Starts(s, lock, w)
    PROVE  Tx(NewDatabase(w, m), m, B)
<1>1. /\ Typed(w) /\ w.eState = PAGER_WRITER_LOCKED /\ Sound(w)
      /\ w.dbOrigSize = w.dbSize /\ w.dbFileSize = w.dbSize
      /\ ~w.memDb /\ w.dbFileVers = s.dbFileVers
      /\ w.dbSize = s.dbSize /\ w.cache = s.cache
      /\ Clean(w) /\ Blank(w) /\ w.aSavepoint = <<>>
      /\ w.journal = <<>> /\ w.sub = <<>>
  BY DEF Starts, Blank
<1>2. w.dbSize = Len(m.pages) /\ w.dbSize \in Nat /\ w.dbSize <= MaxPage
  BY <1>1, Sizes DEF Reads
<1>3. /\ B \in Databases /\ \A n \in 1..MaxPage : Read(m, n) = B[n]
      /\ \A n \in DOMAIN w.cache : w.cache[n].c = B[n] /\ n \in 1..MaxPage
  BY <1>1, Sizes DEF Stores, Reads
<1>4. DOMAIN w.journal = {} /\ InJournal(w) = {} /\ DOMAIN w.sub = {}
  BY <1>1, EmptySeq DEF InJournal, PagesIn
<1>5. \A n \in 1..MaxPage : n > w.dbOrigSize => B[n] = Zero
  BY <1>1, <1>2, <1>3, ReadBeyond
<1>6. \A n \in 1..w.dbOrigSize : n \in 1..MaxPage
  BY <1>1, <1>2, PagerAssumption
<1>7. Base(w, m, B)
  BY <1>1, <1>3, <1>4, <1>5, <1>6 DEF Base
<1>8. Coherent(w, m)
  BY <1>3 DEF Coherent
<1>9. Begins(w, m, B)
  BY <1>1, <1>2, <1>7, <1>8 DEF Begins
<1>10. 1 \in DOMAIN w.cache /\ w.cache[1].c = B[1] /\ 1 \in 1..MaxPage
  BY <1>1, <1>3 DEF Reading
<1>11. CASE w.dbSize > 0
  <2>1. NewDatabase(w, m) = w
    BY <1>11 DEF NewDatabase
  <2>2. B[1].vers.nPage = w.dbSize
    <3>1. DOMAIN m.pages = 1..Len(m.pages)
      BY LenProperties DEF StoreTyped
    <3>2. 1 \in DOMAIN m.pages /\ m.pages # <<>>
      BY <1>2, <1>11, <3>1, EmptySeq
    <3>3. Read(m, 1) = m.pages[1]
      BY <3>2 DEF Read
    <3> QED
      BY <1>2, <1>3, <1>10, <3>2, <3>3 DEF StoreHeaded
  <2>3. w.dbFileVers = B[1].vers
    BY <1>1, <1>11 DEF Reads
  <2> QED
    BY <1>9, <1>10, <1>11, <2>1, <2>2, <2>3, BeginsTx
<1>12. CASE ~(w.dbSize > 0)
  <2>1. w.dbSize = 0
    BY <1>2, <1>12
  <2>2. B[1] = Zero /\ B[1].vers.counter = 0
    <3>1. 1 > w.dbOrigSize
      BY <1>1, <2>1
    <3> QED
      BY <1>5, <1>10, <3>1, ZeroContent
  <2>3. Counts(w, 0)
    BY <1>4, <1>10, <2>2 DEF Counts
  <2>4. w.dbFileVers.counter = 0 \/ w.dbFileVers.nPage > m.szMax
    <3>1. w.dbFileVers.counter \in Nat
      BY <1>1, PagerAssumption DEF Typed, VersType
    <3>2. NotAhead(s, m, B)
      BY DEF Reads
    <3>3. w.dbFileVers.nPage > m.szMax \/ w.dbFileVers.counter <= 0
      BY <1>1, <2>2, <3>2 DEF NotAhead
    <3> QED
      BY ONLY <3>1, <3>3
  <2>5. Logged(w, m, B) /\ Tracked(w) /\ Grown(w)
    BY <1>9, BeginsLogged
  <2> QED
    BY <1>1, <2>1, <2>3, <2>4, <2>5, FirstTx
<1> QED
  BY <1>11, <1>12

\* The database a ":memory:" pager holds.
CacheImage(s) ==
    [n \in 1..MaxPage |->
        IF n \in DOMAIN s.cache /\ n <= s.dbSize THEN s.cache[n].c ELSE Zero]

\* A pager of an in-memory database begins on what its cache holds.
LEMMA CacheBegins ==
    ASSUME NEW s, NEW k, Reading(s, k), s.memDb, NEW m, StoreTyped(m),
           1 \in DOMAIN s.cache => s.cache[1].c.vers.nPage = s.dbSize,
           NEW lock, NEW w, Starts(s, lock, w), NEW C, C = CacheImage(s)
    PROVE  C \in Databases /\ Tx(NewDatabase(w, m), m, C)
<1>1. /\ Typed(w) /\ w.eState = PAGER_WRITER_LOCKED /\ Sound(w)
      /\ w.dbOrigSize = w.dbSize /\ w.dbFileSize = w.dbSize
      /\ w.memDb /\ w.dbSize = s.dbSize /\ w.cache = s.cache
      /\ Clean(w) /\ Blank(w) /\ w.aSavepoint = <<>>
      /\ w.journal = <<>> /\ w.sub = <<>>
  BY DEF Starts, Blank
<1>2. w.dbSize \in Nat /\ w.dbSize <= MaxPage /\ MaxPage \in Nat
  BY <1>1, Sizes
<1>3. \A n \in DOMAIN w.cache : w.cache[n].c \in Content
  <2>1. \A n \in DOMAIN w.cache : w.cache[n] \in PageType
    BY <1>1 DEF Typed, IsCache
  <2> QED
    BY <2>1 DEF PageType
<1>4. C \in Databases
  BY <1>1, <1>3, ZeroContent DEF Databases, CacheImage
<1>5. \A n \in 1..MaxPage :
         C[n] = IF n \in DOMAIN w.cache /\ n <= w.dbSize THEN w.cache[n].c ELSE Zero
  BY <1>1 DEF CacheImage
<1>6. DOMAIN w.journal = {} /\ InJournal(w) = {}
  BY <1>1, EmptySeq DEF InJournal, PagesIn
<1>7. \A n \in 1..MaxPage : n > w.dbOrigSize => C[n] = Zero
  <2> SUFFICES ASSUME NEW n \in 1..MaxPage, n > w.dbOrigSize PROVE C[n] = Zero
    OBVIOUS
  <2>1. n \in Nat /\ ~(n <= w.dbSize)
    BY <1>1, <1>2
  <2> QED
    BY <1>5, <2>1
<1>8. \A n \in 1..w.dbOrigSize :
         /\ n \in DOMAIN w.cache => w.cache[n].c = C[n]
         /\ n \in DOMAIN w.cache \/ C[n] = Zero
  <2> SUFFICES ASSUME NEW n \in 1..w.dbOrigSize
               PROVE  /\ n \in DOMAIN w.cache => w.cache[n].c = C[n]
                      /\ n \in DOMAIN w.cache \/ C[n] = Zero
    OBVIOUS
  <2>1. n \in 1..MaxPage /\ n <= w.dbSize
    BY <1>1, <1>2
  <2> QED
    BY <1>5, <2>1
<1>9. Base(w, m, C)
  BY <1>1, <1>4, <1>6, <1>7, <1>8 DEF Base
<1>10. Begins(w, m, C)
  BY <1>1, <1>9 DEF Begins
<1>11. CASE w.dbSize > 0
  <2>1. NewDatabase(w, m) = w
    BY <1>11 DEF NewDatabase
  <2>2. 1 \in DOMAIN w.cache /\ w.cache[1].c.vers.nPage = w.dbSize
    BY <1>1, <1>11 DEF Reading
  <2>3. 1 \in 1..MaxPage /\ 1 <= w.dbSize
    BY <1>2, <1>11
  <2>4. C[1] = w.cache[1].c
    BY <1>5, <2>2, <2>3
  <2> QED
    BY <1>1, <1>4, <1>10, <1>11, <2>1, <2>2, <2>4, BeginsTx
<1>12. CASE ~(w.dbSize > 0)
  <2>1. w.dbSize = 0
    BY <1>2, <1>12
  <2>2. Logged(w, m, C) /\ Tracked(w) /\ Grown(w)
    BY <1>10, BeginsLogged
  <2> QED
    BY <1>1, <1>4, <2>1, <2>2, FirstTx
<1> QED
  BY <1>11, <1>12

\* sqlite3BtreeBeginTrans, while nobody else reads.
LEMMA BeginWriteKeepsStore ==
    ASSUME DataInv, DataInv', NEW B, CommittedIs(B), NEW p \in Pagers,
           NEW exFlag \in BOOLEAN, BeginWrite(p, exFlag), Turns
    PROVE  /\ \E C : /\ CommittedIs(C)'
                     /\ C = IF pager[p].memDb THEN CacheImage(pager[p]) ELSE B
           /\ \E lock, w : /\ Starts(pager[p], lock, w)
                           /\ pager'[p] = NewDatabase(w, store)
<1> DEFINE s == pager[p]
           want == IF exFlag THEN EXCLUSIVE_LOCK ELSE RESERVED_LOCK
           lock == IF s.memDb THEN s.eLock ELSE want
           w == Starter(s, lock)
           t == NewDatabase(w, store)
           k == IF s.memDb THEN store ELSE Locked(store, s.eLock, want)
<1>1. /\ s.eState = PAGER_READER /\ s.dbFileVers.counter < MaxVer
      /\ pager' = [pager EXCEPT ![p] = t] /\ store' = k
      /\ \A q \in Pagers \ {p} : pager[q].eLock = NO_LOCK
  BY DEF BeginWrite, Update, Starter
<1>2. Typed(s) /\ StoreTyped(store) /\ LocalOK(s, store.szMax)
  BY PagersTyped
<1>3. Reading(s, store.szMax) /\ HoldsOK(s, store, B)
  BY <1>1, <1>2, LocalCases DEF CommittedIs
<1>4. lock \in {NO_LOCK, SHARED_LOCK, RESERVED_LOCK, EXCLUSIVE_LOCK}
  BY <1>2 DEF Typed
<1> HIDE DEF lock
<1>5. Starts(s, lock, w)
  BY <1>1, <1>3, <1>4, StarterStarts
<1> HIDE DEF w
<1>6. /\ Typed(w) /\ w.eState = PAGER_WRITER_LOCKED /\ Sound(w)
      /\ w.memDb = s.memDb /\ w.hasHeldSharedLock = s.hasHeldSharedLock
      /\ w.dbSize > 0 => 1 \in DOMAIN w.cache
      /\ w.aSavepoint = <<>>
  BY <1>3, <1>5 DEF Starts, Reading
<1>7. SameFile(w, t) /\ Sound(t)
  BY <1>2, <1>6, NewDatabaseSound
<1>8. /\ InTx(t) /\ t.memDb = s.memDb /\ Typed(t)
      /\ t.hasHeldSharedLock = s.hasHeldSharedLock
  BY <1>6, <1>7 DEF Sound, SameFile
<1>9. IInv /\ ~Owning(s)
  BY <1>1 DEF DataInv, Owning
<1>12. \E l, x : Starts(pager[p], l, x) /\ pager'[p] = NewDatabase(x, store)
  <2>1. pager'[p] = t
    BY <1>1 DEF DataInv, IInv
  <2> QED
    BY <1>5, <2>1
<1>10. CASE s.memDb
  <2>1. 1 \in DOMAIN s.cache => s.cache[1].c.vers.nPage = s.dbSize
    BY <1>1, <1>3, <1>10 DEF HoldsOK
  <2>2. PICK C : C = CacheImage(s)
    OBVIOUS
  <2>3. C \in Databases /\ Tx(t, store, C)
    BY <1>2, <1>3, <1>5, <1>10, <2>1, <2>2, CacheBegins
  <2> HIDE DEF t
  <2>4. HoldsOK(t, store, C)
    BY <1>8, <1>10, <2>3, TxHolds
  <2>5. t.eState \in PAGER_READER..PAGER_WRITER_FINISHED /\ t.memDb
    BY <1>8, <1>10 DEF InTx
  <2>6. store' = store /\ s.eState # NOT_OPEN
    BY <1>1, <1>10
  <2> HIDE DEF k, s
  <2>8. Owning(t)
    BY <1>8 DEF InTx, Owning
  <2>9. /\ pager[p].memDb /\ pager[p].eState # NOT_OPEN /\ Typed(t)
        /\ pager' = [pager EXCEPT ![p] = t] /\ C \in Databases
    BY <1>1, <1>8, <1>10, <2>3, <2>6 DEF s
  <2>7. CommittedIs(C)'
    BY ONLY DataInv, CommittedIs(B), p \in Pagers, <2>4, <2>5, <2>6, <2>8, <2>9,
            MemStep
  <2> QED
    BY <1>10, <1>12, <2>2, <2>7 DEF s
<1>11. CASE ~s.memDb
  <2>1. \A q \in Pagers : ~Owning(pager[q])
    BY <1>1, ReaderAlone
  <2>2. Stores(store, Len(store.pages), B) /\ StoreHeaded(store)
    BY <2>1, NobodyOwns
  <2>3. Reads(s, store, B) /\ s.hasHeldSharedLock
    BY <1>1, <1>3, <1>11 DEF HoldsOK
  <2>4. Tx(t, store, B)
    BY <1>2, <1>3, <1>5, <1>11, <2>2, <2>3, ReadsBegin
  <2> HIDE DEF t
  <2>5. HoldsOK(t, store, B) /\ Owning(t) /\ t.eState \in Int
    BY <1>8, <2>3, <2>4, TxHolds
  <2>6. k.pages = store.pages /\ k.szMax = store.szMax /\ k.nRef = store.nRef
    <3>1. IsStore(store)
      BY <1>9 DEF IInv
    <3> QED
      BY <1>2, <1>11, <3>1, LockedFacts, LockedStep DEF SameLimit
  <2>7. k.nRef = 0 => k.pages = <<>>
    BY <2>6 DEF CommittedIs
  <2>8. ASSUME NEW q \in Pagers \ {p} PROVE pager[q].eState <= PAGER_OPEN
    <3>1. pager[q].eLock = NO_LOCK /\ StateOfLock(pager[q])
      BY <1>1, PagersTyped
    <3> QED
      BY <3>1 DEF StateOfLock
  <2>9. s.eState > PAGER_OPEN
    BY <1>1
  <2> HIDE DEF k, s
  <2>10. CommittedIs(B)'
    BY <1>1, <1>9, <2>5, <2>6, <2>7, <2>8, <2>9, QuietStep DEF s
  <2> QED
    BY <1>11, <1>12, <2>10 DEF s
<1> QED
  BY <1>10, <1>11
-----------------------------------------------------------------------------
(* Steps that change the store.                                            *)

\* The store of ":memory:" pagers stays empty.
LEMMA NoStore ==
    ASSUME DataInv, NEW B, CommittedIs(B), NEW p \in Pagers,
           pager[p].eState # NOT_OPEN, pager[p].memDb
    PROVE  store.pages = <<>> /\ \A q \in Pagers \ {p} : pager[q] = NotOpen
BY OpenOnes DEF CommittedIs

\* A step of an in-memory database's pager leaves the store sound.
LEMMA MemUpdate ==
    ASSUME DataInv, DataInv', NEW B, CommittedIs(B), NEW p \in Pagers,
           NEW t, NEW k, pager' = [pager EXCEPT ![p] = t], store' = k,
           pager[p].eState # NOT_OPEN, pager[p].memDb, t.memDb,
           k.pages = <<>>, t.eState \in PAGER_READER..PAGER_WRITER_FINISHED,
           NEW C \in Databases, HoldsOK(t, k, C)
    PROVE  StoreOK' /\ (Owning(t) => CommittedIs(C)')
<1>1. \A q \in Pagers \ {p} : pager[q] = NotOpen
  BY NoStore
<1>2. \A x : HoldsOK(NotOpen, k, x)
  BY EmptyTyped DEF HoldsOK, InTx
<1>3. NotOpen.eState <= PAGER_OPEN /\ ~Owning(NotOpen)
  BY EmptyTyped DEF Owning
<1>4. Alone(p, t)
  BY <1>1, <1>3 DEF Alone
<1>5. IInv /\ t.eState \in Int
  BY DEF DataInv
<1>6. CASE Owning(t)
  BY <1>1, <1>2, <1>4, <1>5, <1>6, OneMoves DEF StoreOK
<1>7. CASE ~Owning(t)
  <2>1. t.eState = PAGER_READER
    BY <1>7 DEF Owning
  <2>2. HoldsOK(t, k, Nothing)
    BY <2>1 DEF HoldsOK, InTx
  <2>3. Nothing \in Databases /\ Stores(k, Len(k.pages), Nothing)
        /\ StoreHeaded(k)
    BY NothingStored
  <2> QED
    BY <1>1, <1>2, <1>4, <1>5, <1>7, <2>2, <2>3, OneMoves DEF StoreOK
<1> QED
  BY <1>6, <1>7

\* A step of the pager that owns the store leaves the store sound.
LEMMA FileStep ==
    ASSUME DataInv, DataInv', NEW B, CommittedIs(B), NEW p \in Pagers,
           NEW t, NEW k, pager' = [pager EXCEPT ![p] = t], store' = k,
           Owning(pager[p]), ~t.memDb, t.eState # NOT_OPEN,
           k.szMax = store.szMax,
           NEW C \in Databases, HoldsOK(t, k, C), C = B \/ Newer(store, B, C),
           Owning(t) \/ (Stores(k, Len(k.pages), C) /\ StoreHeaded(k))
    PROVE  CommittedIs(C)'
<1>1. Typed(t) /\ IInv'
  BY BecameTyped
<1>2. t.memDb = FALSE
  BY <1>1 DEF Typed
<1> QED
  BY <1>1, <1>2, OwnerStep

\* The end of a transaction.
LEMMA SettledStep ==
    ASSUME DataInv, DataInv', NEW B, CommittedIs(B), NEW p \in Pagers,
           NEW r, Update(p, r), Owning(pager[p]), r.s.memDb = pager[p].memDb,
           NEW C, Settled(r.s, r.m, C), C = B \/ Newer(store, B, C),
           r.m.szMax = store.szMax, r.s.memDb => r.m.pages = <<>>
    PROVE  StoreOK' /\ Settled(r.s, r.m, C)
<1> SUFFICES StoreOK'
  OBVIOUS
<1>1. /\ r.s.eState = PAGER_READER /\ HoldsOK(r.s, r.m, C) /\ C \in Databases
      /\ ~r.s.memDb => Stores(r.m, Len(r.m.pages), C) /\ StoreHeaded(r.m)
  BY DEF Settled
<1>2. pager' = [pager EXCEPT ![p] = r.s] /\ store' = r.m
  BY DEF Update
<1>3. pager[p].eState # NOT_OPEN
  BY DEF Owning
<1>4. CASE r.s.memDb
  <2>1. r.s.eState \in PAGER_READER..PAGER_WRITER_FINISHED
    BY <1>1
  <2>2. /\ HoldsOK(r.s, r.m, C) /\ C \in Databases /\ pager[p].memDb
        /\ r.m.pages = <<>> /\ r.s.memDb
    BY <1>1, <1>4
  <2> QED
    BY ONLY DataInv, DataInv', CommittedIs(B), p \in Pagers, <1>2, <1>3, <2>1,
            <2>2, MemUpdate
<1>5. CASE ~r.s.memDb
  <2>1. r.s.eState # NOT_OPEN /\ ~r.s.memDb /\ C \in Databases
        /\ (Owning(r.s) \/ (Stores(r.m, Len(r.m.pages), C) /\ StoreHeaded(r.m)))
    BY <1>1, <1>5
  <2>2. C \in Databases /\ HoldsOK(r.s, r.m, C)
    BY <1>1
  <2> QED
    BY ONLY DataInv, DataInv', CommittedIs(B), p \in Pagers, <1>2, <2>1, <2>2,
            Owning(pager[p]), C = B \/ Newer(store, B, C),
            r.m.szMax = store.szMax, FileStep DEF StoreOK
<1> QED
  BY <1>4, <1>5

\* Playing a journal back changes no store of a ":memory:" pager.
LEMMA MemPlayback ==
    ASSUME NEW s, Typed(s), s.memDb, NEW m, StoreTyped(m), m.pages = <<>>,
           NEW R \in Seq(PlayType), NEW r, r = Playback(s, m, R)
    PROVE  r.m.pages = <<>> /\ StoreTyped(r.m)
<1>1. Overlaid(s, m, R, r) /\ Underlaid(s, m, r)
  BY PlaybackOverlays
<1>2. StoredPages(s, R) = {}
  BY DEF StoredPages
<1>3. Len(m.pages) = 0
  BY EmptySeq
<1>4. Len(r.m.pages) = Max({} \cup {0})
  BY <1>1, <1>2, <1>3 DEF Overlaid
<1>5. {} \in SUBSET (1..MaxPage) /\ 0 \in 0..MaxPage
  BY PagerAssumption
<1>6. Max({} \cup {0}) = 0
  BY <1>5, MaxWith
<1>7. r.m.pages \in Seq(Content) /\ StoreTyped(r.m)
  BY <1>1 DEF Underlaid, StoreTyped
<1> QED
  BY <1>4, <1>6, <1>7, EmptySeq

\* Rolling back an in-memory database leaves the store without pages.
LEMMA MemRolledBack ==
    ASSUME NEW s, Typed(s), s.memDb, NEW m, StoreTyped(m), m.pages = <<>>,
           NEW r, r = RolledBack(s, m)
    PROVE  r.m.pages = <<>>
<1>1. CASE s.eState = PAGER_WRITER_LOCKED
  <2>1. r = Ended(s, m, FALSE)
    BY <1>1 DEF RolledBack
  <2> QED
    BY <2>1 DEF Ended
<1>2. CASE s.eState # PAGER_WRITER_LOCKED
  <2> DEFINE u == Undone(s, m)
  <2>1. r = Ended(u.s, u.m, FALSE)
    BY <1>2, UndoneEnds
  <2>2. Typed(CutBack(s)) /\ CutBack(s).memDb
        /\ JournalFrom(CutBack(s), 0) \in Seq(PlayType)
    BY CutBackFacts, WholeJournal DEF IsReplay
  <2>3. FileBack(s, m) = m
    BY DEF FileBack, OnFile
  <2>4. u.m.pages = <<>> /\ Underlaid(CutBack(s), m, u)
    BY <2>2, <2>3, MemPlayback, PlaybackOverlays DEF Undone
  <2>5. u.s.memDb
    BY <2>2, <2>4 DEF Underlaid
  <2> HIDE DEF u
  <2> QED
    BY <2>1, <2>4, <2>5 DEF Ended
<1> QED
  BY <1>1, <1>2
-----------------------------------------------------------------------------
(* A spill.                                                                *)

\* The journal as a spill needs it, and the spill of page n.
SpillSynced(s, m, n) ==
    IF s.cache[n].needSync \/ s.eState = PAGER_WRITER_CACHEMOD
    THEN syncJournal(s, m) ELSE [s |-> s, m |-> m]

SpillPage(y, n) == WritePages(y.s, y.m, {n})

SpillFailed(s, n) ==
    [s EXCEPT !.eState = PAGER_ERROR, !.dbFileSize = IF n > @ THEN n ELSE @]

\* The branches of pagerStress() when a spill never fails late.
LEMMA SpillParts ==
    ASSUME NEW p \in Pagers, NEW n, Spill(p, n), ~LateFull,
           NEW w, w = SpillPage(SpillSynced(pager[p], store, n), n)
    PROVE  /\ pager[p].eState \in {PAGER_WRITER_CACHEMOD, PAGER_WRITER_DBMOD}
           /\ ~pager[p].memDb /\ n \in Dirty(pager[p]) \ {1}
           /\ w.ok \/ pager[p].eState = PAGER_WRITER_CACHEMOD
           /\ Update(p, [s |-> IF w.ok THEN CleanedPage(w.s, n)
                                      ELSE SpillFailed(w.s, n),
                         m |-> w.m])
BY Zenon DEF Spill, SpillSynced, SpillPage, CleanedPage, SpillFailed

\* pagerStress, when the store has room or has not been changed.
LEMMA SpillKeepsStore ==
    ASSUME DataInv, DataInv', NEW B, CommittedIs(B), NEW p \in Pagers,
           NEW n \in 1..MaxPage, Spill(p, n), ~LateFull
    PROVE  /\ CommittedIs(B)' /\ Steady(pager[p], store, pager'[p], store')
           /\ pager'[p].eState \in {PAGER_WRITER_DBMOD, PAGER_ERROR}
<1> DEFINE s == pager[p]
           unsynced == s.cache[n].needSync \/ s.eState = PAGER_WRITER_CACHEMOD
           y == IF unsynced THEN syncJournal(s, store).s ELSE s
           l == IF unsynced THEN syncJournal(s, store).m ELSE store
           w == WritePages(y, l, {n})
           e == SpillFailed(w.s, n)
           c == CleanedPage(w.s, n)
<1>1. /\ s.eState \in {PAGER_WRITER_CACHEMOD, PAGER_WRITER_DBMOD} /\ ~s.memDb
      /\ n \in DOMAIN s.cache /\ s.cache[n].dirty /\ n # 1
  BY SpillParts DEF Dirty
<1>2. SpillSynced(s, store, n).s = y /\ SpillSynced(s, store, n).m = l
  BY DEF SpillSynced
<1>3. w = SpillPage(SpillSynced(s, store, n), n)
  BY <1>2 DEF SpillPage
<1> HIDE DEF y, l, w, e, c
<1>4. /\ w.ok \/ s.eState = PAGER_WRITER_CACHEMOD
      /\ pager' = [pager EXCEPT ![p] = IF w.ok THEN c ELSE e] /\ store' = w.m
  <2> DEFINE r == [s |-> IF w.ok THEN c ELSE e, m |-> w.m]
  <2>1. /\ w.ok \/ s.eState = PAGER_WRITER_CACHEMOD
        /\ Update(p, r)
    BY <1>3, SpillParts DEF c, e
  <2>2. r.s = (IF w.ok THEN c ELSE e) /\ r.m = w.m
    OBVIOUS
  <2> HIDE DEF r
  <2> QED
    BY <2>1, <2>2 DEF Update
<1>5. InTx(s)
  BY <1>1 DEF InTx
<1>6. /\ Changing(s, store.szMax) /\ Sound(s) /\ Tx(s, store, B)
      /\ StoreTyped(store) /\ B \in Databases /\ Owning(s)
      /\ s.hasHeldSharedLock
  BY <1>1, <1>5, OwnTx
<1>7. Logged(s, store, B) /\ 1 \in DOMAIN s.cache
  BY <1>6 DEF Tx, Changing
<1>8. Readied(s, store, B, n, y, l)
  BY <1>1, <1>6, <1>7, SyncReadies DEF y, l
<1>9. y.hasHeldSharedLock
  <2>1. CASE unsynced
    <3>1. Syncs(s, store, syncJournal(s, store).s, syncJournal(s, store).m)
      BY <1>6, SyncFacts DEF Sound
    <3>2. y = syncJournal(s, store).s
      BY <2>1 DEF y
    <3> QED
      BY <1>6, <3>1, <3>2 DEF Syncs
  <2>2. CASE ~unsynced
    BY <1>6, <2>2 DEF y
  <2> QED
    BY <2>1, <2>2
<1>10. /\ Typed(y) /\ StoreTyped(l) /\ l.szMax = store.szMax
       /\ y.eState = PAGER_WRITER_DBMOD /\ ~y.memDb
       /\ n \in DOMAIN y.cache
  BY <1>1, <1>8 DEF Readied
<1>11. WritesPages(y, l, {n}, w)
  BY <1>1, <1>10, WritePagesFacts DEF w
<1>12. /\ Typed(w.s) /\ StoreTyped(w.m) /\ w.m.szMax = store.szMax
       /\ w.s.eState = PAGER_WRITER_DBMOD /\ ~w.s.memDb
       /\ w.s.hasHeldSharedLock /\ n \in DOMAIN w.s.cache
  BY <1>9, <1>10, <1>11 DEF WritesPages, SameLimit, SameOthers
<1>13. CASE w.ok
  <2>1. Tx(c, w.m, B) /\ Steady(s, store, c, w.m)
    BY <1>1, <1>6, <1>7, <1>8, <1>13, SpilledTx DEF w, c
  <2>2. Cleans(w.s, c, n)
    BY <1>12, CleanedPageFacts DEF c
  <2>3. /\ c.eState = PAGER_WRITER_DBMOD /\ ~c.memDb /\ c.hasHeldSharedLock
        /\ InTx(c)
    BY <1>12, <2>2 DEF Cleans, InTx
  <2>4. HoldsOK(c, w.m, B) /\ Owning(c) /\ c.eState # NOT_OPEN
    BY <2>1, <2>3, TxHolds
  <2>5. pager' = [pager EXCEPT ![p] = c] /\ store' = w.m
    BY <1>4, <1>13
  <2>6. pager'[p] = c
    BY <2>5 DEF DataInv, IInv
  <2> QED
    BY <1>6, <1>12, <2>1, <2>3, <2>4, <2>5, <2>6, FileStep
<1>14. CASE ~w.ok
  <2>1. Broken(e, w.m, B) /\ Steady(s, store, e, w.m)
    BY <1>1, <1>4, <1>6, <1>8, <1>14, SpilledBroken DEF w, e, SpillFailed
  <2>2. Fields \subseteq DOMAIN w.s
    BY <1>12 DEF Typed
  <2>3. e.eState = PAGER_ERROR /\ ~e.memDb /\ e.hasHeldSharedLock
    BY <1>12, <2>2 DEF Fields, e, SpillFailed
  <2>4. HoldsOK(e, w.m, B) /\ Owning(e) /\ e.eState # NOT_OPEN
    BY <2>1, <2>3 DEF HoldsOK, Owning, InTx
  <2>5. pager' = [pager EXCEPT ![p] = e] /\ store' = w.m
    BY <1>4, <1>14
  <2>6. pager'[p] = e
    BY <2>5 DEF DataInv, IInv
  <2> QED
    BY <1>6, <1>12, <2>1, <2>3, <2>4, <2>5, <2>6, FileStep
<1> QED
  BY <1>13, <1>14
-----------------------------------------------------------------------------
(* Opening and releasing savepoints.                                       *)

\* What a savepoint saves depends on the journals and the cache only.
LEMMA SavedSame ==
    ASSUME NEW s, NEW t, t.journal = s.journal, t.sub = s.sub,
           t.cache = s.cache, t.memDb = s.memDb, NEW m, NEW sp, NEW n, NEW c
    PROVE  Saved(t, m, sp, n, c) = Saved(s, m, sp, n, c)
BY DEF Saved, InTail, Recorded, InSubTail, Holding

\* s with more savepoints, all at the end of its journals.
Opened(s, t) ==
    /\ t.eState = s.eState /\ t.memDb = s.memDb /\ t.cache = s.cache
    /\ t.journal = s.journal /\ t.journalHdr = s.journalHdr /\ t.sub = s.sub
    /\ t.dbSize = s.dbSize /\ t.dbOrigSize = s.dbOrigSize
    /\ t.dbFileSize = s.dbFileSize /\ t.dbFileVers = s.dbFileVers
    /\ \A i \in DOMAIN t.aSavepoint :
          /\ i \in Nat
          /\ i \in DOMAIN s.aSavepoint => t.aSavepoint[i] = s.aSavepoint[i]
          /\ i \notin DOMAIN s.aSavepoint =>
                /\ \A j \in DOMAIN s.aSavepoint : j < i
                /\ t.aSavepoint[i].nOrig = s.dbSize
                /\ t.aSavepoint[i].iOffset = Len(s.journal)
                /\ t.aSavepoint[i].iSubRec = Len(s.sub)
                /\ t.aSavepoint[i].inSavepoint = {}

\* A new savepoint needs no record yet.
LEMMA OpenedTracked ==
    ASSUME NEW s, Sound(s), Tracked(s), Grown(s), NEW t, Opened(s, t)
    PROVE  Tracked(t) /\ Grown(t)
<1>1. /\ Typed(s) /\ s.dbSize \in Nat /\ s.dbOrigSize \in Nat
      /\ Len(s.sub) \in Nat /\ DOMAIN s.sub = 1..Len(s.sub)
      /\ DOMAIN s.aSavepoint = 1..Len(s.aSavepoint)
      /\ Len(s.aSavepoint) \in Nat
  BY Sizes, JournalDomains DEF Sound
<1> DEFINE A == s.aSavepoint
           E == t.aSavepoint
<1>2. \A i \in DOMAIN E :
         /\ i \in DOMAIN A => E[i] = A[i]
         /\ i \notin DOMAIN A =>
               /\ \A j \in DOMAIN A : j < i
               /\ E[i].nOrig = s.dbSize /\ E[i].iSubRec = Len(s.sub)
               /\ E[i].inSavepoint = {}
  BY DEF Opened
<1>3. \A i \in DOMAIN A : s.dbOrigSize <= A[i].nOrig /\ A[i].nOrig <= s.dbSize
  BY DEF Grown
<1>4. t.journal = s.journal /\ t.sub = s.sub /\ InJournal(t) = InJournal(s)
      /\ t.dbOrigSize = s.dbOrigSize /\ t.cache = s.cache
      /\ t.eState = s.eState /\ t.dbSize = s.dbSize
  BY DEF Opened, InJournal
<1>5. SubOK(t)
  BY <1>4 DEF Tracked, SubOK
<1>6. \A sp, n, k : Recorded(t, sp, n, k) = Recorded(s, sp, n, k)
  BY <1>4, RecordedSame
<1>7. MarksOK(t)
  <2> SUFFICES ASSUME NEW i \in DOMAIN E, NEW n \in E[i].inSavepoint,
                      n <= E[i].nOrig
               PROVE  Recorded(s, E[i], n, Len(s.sub))
    BY <1>4, <1>6 DEF MarksOK
  <2>1. i \in DOMAIN A /\ E[i] = A[i]
    BY <1>2
  <2> QED
    BY <2>1 DEF Tracked, MarksOK
<1>8. OrderOK(t)
  <2> SUFFICES ASSUME NEW i \in DOMAIN E, NEW j \in DOMAIN E, i < j
               PROVE  /\ E[i].nOrig <= E[j].nOrig
                      /\ E[j].bTruncateOnRelease =>
                            \A k \in DOMAIN s.sub :
                                k > E[j].iSubRec /\ s.sub[k].pgno <= E[i].nOrig
                                => Recorded(s, E[i], s.sub[k].pgno, E[j].iSubRec)
    BY <1>4, <1>6 DEF OrderOK
  <2>1. CASE j \in DOMAIN A
    <3>1. i \in DOMAIN A
      <4>1. i \in Nat /\ j \in Nat
        BY DEF Opened
      <4> QED
        BY <1>2, <2>1, <4>1
    <3>2. E[i] = A[i] /\ E[j] = A[j]
      BY <1>2, <2>1, <3>1
    <3> QED
      BY <2>1, <3>1, <3>2 DEF Tracked, OrderOK
  <2>2. CASE j \notin DOMAIN A
    <3>1. E[j].nOrig = s.dbSize /\ E[j].iSubRec = Len(s.sub)
      BY <1>2, <2>2
    <3>2. E[i].nOrig <= s.dbSize
      BY <1>1, <1>2, <1>3
    <3>3. \A k \in DOMAIN s.sub : ~(k > Len(s.sub))
      BY <1>1
    <3> QED
      BY <3>1, <3>2, <3>3
  <2> QED
    BY <2>1, <2>2
<1>9. s.dbOrigSize <= s.dbSize
  BY DEF Grown
<1>10. Grown(t)
  BY <1>1, <1>2, <1>3, <1>4, <1>9 DEF Grown
<1> QED
  BY <1>5, <1>7, <1>8, <1>10 DEF Tracked

\* Opening savepoints leaves the transaction as it is.
LEMMA OpenedTx ==
    ASSUME NEW s, Sound(s), NEW m, NEW B, Tx(s, m, B), 1 \in DOMAIN s.cache,
           NEW t, Opened(s, t)
    PROVE  Tx(t, m, B)
<1>1. /\ t.eState = s.eState /\ t.memDb = s.memDb /\ t.cache = s.cache
      /\ t.journal = s.journal /\ t.journalHdr = s.journalHdr /\ t.sub = s.sub
      /\ t.dbSize = s.dbSize /\ t.dbOrigSize = s.dbOrigSize
      /\ t.dbFileSize = s.dbFileSize /\ t.dbFileVers = s.dbFileVers
  BY DEF Opened
<1>2. Logged(s, m, B) /\ Tracked(s) /\ Grown(s) /\ Headed(s, m, B)
      /\ (~s.memDb => Counting(s, m, B)) /\ Typed(s)
  BY DEF Tx, Sound
<1>3. Tracked(t) /\ Grown(t)
  BY <1>2, OpenedTracked
<1>4. s.dbSize \in Nat /\ s.dbSize <= s.dbSize
  BY <1>2, Sizes
<1>5. Logged(t, m, B)
  BY <1>1, <1>2, <1>4, LoggedSame
<1>6. \A sp, c : Saved(t, m, sp, 1, c) = Saved(s, m, sp, 1, c)
  BY <1>1, SavedSame
<1>7. \A i \in DOMAIN t.aSavepoint :
         \E c \in Content : /\ Saved(t, m, t.aSavepoint[i], 1, c)
                            /\ c.vers.nPage = t.aSavepoint[i].nOrig
  <2> SUFFICES ASSUME NEW i \in DOMAIN t.aSavepoint
               PROVE  \E c \in Content :
                         /\ Saved(s, m, t.aSavepoint[i], 1, c)
                         /\ c.vers.nPage = t.aSavepoint[i].nOrig
    BY <1>6
  <2>1. CASE i \in DOMAIN s.aSavepoint
    BY <1>2, <2>1 DEF Opened, Headed
  <2>2. CASE i \notin DOMAIN s.aSavepoint
    <3> DEFINE sp == t.aSavepoint[i]
               c == s.cache[1].c
    <3>1. sp.nOrig = s.dbSize /\ sp.iOffset = Len(s.journal)
          /\ sp.iSubRec = Len(s.sub)
      BY <2>2 DEF Opened
    <3>2. c \in Content
      <4>1. s.cache[1] \in PageType
        BY <1>2 DEF Typed, IsCache
      <4> QED
        BY <4>1 DEF PageType
    <3>3. c.vers.nPage = sp.nOrig
      BY <1>2, <3>1 DEF Headed
    <3>4. ~Recorded(s, sp, 1, Len(s.sub))
      <4>1. /\ \A k \in DOMAIN s.journal : ~(k > Len(s.journal))
            /\ \A k \in DOMAIN s.sub : ~(k > Len(s.sub))
        BY <1>2, JournalDomains
      <4> QED
        BY <3>1, <4>1 DEF Recorded, InTail, InSubTail
    <3>5. Holding(s, m, 1) = c
      BY DEF Holding
    <3>6. Saved(s, m, sp, 1, c)
      BY <3>4, <3>5 DEF Saved
    <3> QED
      BY <3>2, <3>3, <3>6
  <2> QED
    BY <2>1, <2>2
<1>8. Headed(t, m, B)
  BY <1>1, <1>2, <1>7 DEF Headed
<1>9. ~s.memDb => Counting(t, m, B)
  <2>1. InJournal(t) = InJournal(s)
    BY <1>1 DEF InJournal
  <2> QED
    BY <1>1, <1>2, <2>1 DEF Counting
<1> QED
  BY <1>1, <1>3, <1>5, <1>8, <1>9 DEF Tx

\* sqlite3PagerOpenSavepoint
LEMMA OpenSavepointKeepsStore ==
    ASSUME DataInv, DataInv', NEW B, CommittedIs(B), NEW p \in Pagers,
           NEW n \in 1..MaxSavepoints, OpenSavepoint(p, n)
    PROVE  /\ CommittedIs(B)' /\ store' = store /\ Opened(pager[p], pager'[p])
           /\ n > Len(pager[p].aSavepoint)
           /\ DOMAIN pager'[p].aSavepoint = 1..n
<1> DEFINE s == pager[p]
           A == s.aSavepoint
           more == n - Len(A)
           x == Savepoint(s)
           new == [i \in 1..more |-> x]
           E == A \o new
           t == [s EXCEPT !.aSavepoint = E]
<1>1. Writing(p) /\ more > 0 /\ Becomes(p, t)
  BY DEF OpenSavepoint
<1>2. InTx(s)
  BY <1>1 DEF Writing, InTx
<1>3. /\ Changing(s, store.szMax) /\ Sound(s) /\ Tx(s, store, B)
      /\ ~s.memDb => s.hasHeldSharedLock
  BY <1>2, OwnTx
<1> HIDE DEF s
<1>4. Typed(s) /\ 1 \in DOMAIN s.cache
  BY <1>3 DEF Sound, Changing
<1>5. Len(A) \in Nat /\ DOMAIN A = 1..Len(A) /\ A \in Seq(MarkType)
  BY <1>4, JournalDomains DEF Typed
<1>6. more \in Nat
  BY <1>1, <1>5, PagerAssumption
<1>7. /\ x.nOrig = s.dbSize /\ x.iOffset = Len(s.journal)
      /\ x.iSubRec = Len(s.sub) /\ x.inSavepoint = {}
  BY DEF Savepoint
<1>8. /\ Len(E) = Len(A) + more /\ DOMAIN E = 1..(Len(A) + more)
      /\ \A i \in 1..(Len(A) + more) :
            E[i] = IF i <= Len(A) THEN A[i] ELSE x
  <2> HIDE DEF x, A, more
  <2>1. new \in Seq({x}) /\ Len(new) = more /\ \A i \in 1..more : new[i] = x
    <3>1. new \in [1..more -> {x}]
      OBVIOUS
    <3>2. \A i \in 1..more : new[i] = x
      OBVIOUS
    <3> HIDE DEF new
    <3> QED
      BY <1>6, <3>1, <3>2, FunctionIsSeq
  <2>2. A \in Seq(MarkType \cup {x}) /\ new \in Seq(MarkType \cup {x})
    BY <1>5, <2>1, SeqMonotonic
  <2> HIDE DEF new
  <2>3. /\ E \in Seq(MarkType \cup {x}) /\ Len(E) = Len(A) + more
        /\ \A i \in 1..(Len(A) + more) :
              E[i] = IF i <= Len(A) THEN A[i] ELSE new[i - Len(A)]
    BY <2>1, <2>2, ConcatProperties
  <2>4. \A i \in 1..(Len(A) + more) : ~(i <= Len(A)) => i - Len(A) \in 1..more
    BY <1>5, <1>6
  <2>5. DOMAIN E = 1..(Len(A) + more)
    BY <2>3, LenProperties
  <2> QED
    BY <2>1, <2>3, <2>4, <2>5
<1> HIDE DEF x, E, more
<1>9. /\ t.eState = s.eState /\ t.memDb = s.memDb /\ t.cache = s.cache
      /\ t.journal = s.journal /\ t.journalHdr = s.journalHdr /\ t.sub = s.sub
      /\ t.dbSize = s.dbSize /\ t.dbOrigSize = s.dbOrigSize
      /\ t.dbFileSize = s.dbFileSize /\ t.dbFileVers = s.dbFileVers
      /\ t.hasHeldSharedLock = s.hasHeldSharedLock /\ t.aSavepoint = E
  BY <1>4 DEF Typed, Fields
<1> HIDE DEF t
<1>10. ASSUME NEW i \in DOMAIN E
       PROVE  /\ i \in Nat
              /\ i \in DOMAIN A => E[i] = A[i]
              /\ i \notin DOMAIN A => (\A j \in DOMAIN A : j < i) /\ E[i] = x
  <2>1. i \in 1..(Len(A) + more)
    BY <1>8
  <2>2. i \in Nat /\ (i \in 1..Len(A) <=> i <= Len(A))
    BY <1>5, <1>6, <2>1
  <2>3. ~(i <= Len(A)) => \A j \in 1..Len(A) : j < i
    BY <1>5, <2>2
  <2> HIDE DEF A
  <2> QED
    BY <1>5, <1>8, <2>1, <2>2, <2>3
<1>11. Opened(s, t)
  BY <1>7, <1>9, <1>10 DEF Opened
<1>12. Tx(t, store, B)
  BY <1>3, <1>4, <1>11, OpenedTx
<1>13. InTx(t)
  BY <1>2, <1>9 DEF InTx
<1>14. pager'[p] = t /\ store' = store
  BY <1>1 DEF Becomes, DataInv, IInv, s
<1>15. n > Len(A) /\ DOMAIN E = 1..n
  <2>1. n \in Nat /\ more = n - Len(A)
    BY PagerAssumption DEF more
  <2>2. n > Len(A) /\ Len(A) + more = n
    BY <1>1, <1>5, <2>1
  <2> QED
    BY <1>8, <2>2
<1> QED
  BY <1>1, <1>2, <1>9, <1>11, <1>12, <1>13, <1>14, <1>15, TxStep DEF s

\* s with its first n savepoints; what only the others needed is gone.
Released(s, t, n) ==
    /\ t.eState = s.eState /\ t.memDb = s.memDb /\ t.cache = s.cache
    /\ t.journal = s.journal /\ t.journalHdr = s.journalHdr
    /\ t.dbSize = s.dbSize /\ t.dbOrigSize = s.dbOrigSize
    /\ t.dbFileSize = s.dbFileSize /\ t.dbFileVers = s.dbFileVers
    /\ Fewer(s, t, n)
    /\ Len(t.sub) \in 0..Len(s.sub) /\ DOMAIN t.sub = 1..Len(t.sub)
    /\ \A i \in 1..Len(t.sub) : t.sub[i] = s.sub[i]
    /\ \/ Len(t.sub) = Len(s.sub)
       \/ /\ n + 1 \in DOMAIN s.aSavepoint
          /\ s.aSavepoint[n + 1].bTruncateOnRelease
          /\ Len(t.sub) = s.aSavepoint[n + 1].iSubRec

\* A record that is gone has another before it.
LEMMA ReleasedRecords ==
    ASSUME NEW s, Sound(s), Tracked(s), NEW n, NEW t, Released(s, t, n),
           NEW i \in 1..n
    PROVE  /\ i \in DOMAIN s.aSavepoint /\ t.aSavepoint[i] = s.aSavepoint[i]
           /\ \A k \in DOMAIN s.sub :
                 k > Len(t.sub) /\ s.sub[k].pgno <= s.aSavepoint[i].nOrig
                 => Recorded(t, s.aSavepoint[i], s.sub[k].pgno, Len(t.sub))
           /\ \A x, k \in Nat :
                 k <= Len(t.sub) /\ Recorded(s, s.aSavepoint[i], x, k)
                 => Recorded(t, s.aSavepoint[i], x, k)
           /\ \A x, k \in Nat :
                 k <= Len(t.sub) /\ Recorded(t, s.aSavepoint[i], x, k)
                 => Recorded(s, s.aSavepoint[i], x, k)
<1>1. Typed(s) /\ MarksInside(s) /\ OrderOK(s)
  BY DEF Sound, Tracked
<1>2. /\ Len(s.sub) \in Nat /\ DOMAIN s.sub = 1..Len(s.sub)
      /\ \A k \in DOMAIN s.sub : s.sub[k].pgno \in Nat
  BY <1>1, JournalDomains DEF RecordType
<1>3. /\ Len(t.sub) \in Nat /\ Len(t.sub) <= Len(s.sub)
      /\ DOMAIN t.sub = 1..Len(t.sub)
      /\ \A k \in 1..Len(t.sub) : t.sub[k] = s.sub[k]
      /\ t.journal = s.journal
  BY <1>2 DEF Released
<1>4. /\ i \in DOMAIN s.aSavepoint /\ t.aSavepoint[i] = s.aSavepoint[i]
      /\ n \in Nat
  BY DEF Released, Fewer
<1> DEFINE sp == s.aSavepoint[i]
           L == Len(t.sub)
<1>5. ASSUME NEW k \in Nat, k <= L
      PROVE  \A j : j \in DOMAIN s.sub /\ j <= k <=> j \in DOMAIN t.sub /\ j <= k
  BY <1>2, <1>3, <1>5
<1>6. ASSUME NEW x, NEW k \in Nat, k <= L
      PROVE  Recorded(t, sp, x, k) <=> Recorded(s, sp, x, k)
  <2>1. InTail(t, sp, x) <=> InTail(s, sp, x)
    BY <1>3 DEF InTail
  <2>2. \A j \in DOMAIN t.sub : t.sub[j] = s.sub[j]
    BY <1>3
  <2>3. InSubTail(t, sp, x, k) <=> InSubTail(s, sp, x, k)
    BY <1>5, <1>6, <2>2 DEF InSubTail
  <2> QED
    BY <2>1, <2>3 DEF Recorded
<1>7. ASSUME NEW k \in DOMAIN s.sub, k > L, s.sub[k].pgno <= sp.nOrig
      PROVE  Recorded(t, sp, s.sub[k].pgno, L)
  <2>1. L # Len(s.sub)
    BY <1>2, <1>3, <1>7
  <2>2. /\ n + 1 \in DOMAIN s.aSavepoint
        /\ s.aSavepoint[n + 1].bTruncateOnRelease
        /\ L = s.aSavepoint[n + 1].iSubRec
    BY <2>1 DEF Released
  <2>3. i < n + 1
    BY <1>4
  <2>4. Recorded(s, sp, s.sub[k].pgno, L)
    BY <1>1, <1>4, <1>7, <2>2, <2>3 DEF OrderOK
  <2> QED
    BY <1>3, <1>6, <2>4
<1> QED
  BY <1>4, <1>6, <1>7

\* A release keeps the records that the outer savepoints need.
LEMMA ReleasedTracked ==
    ASSUME NEW s, Sound(s), Tracked(s), NEW n, NEW t, Released(s, t, n)
    PROVE  Tracked(t)
<1>1. Typed(s) /\ MarksInside(s) /\ OrderOK(s) /\ MarksOK(s) /\ SubOK(s)
  BY DEF Sound, Tracked
<1>2. /\ Len(s.sub) \in Nat /\ DOMAIN s.sub = 1..Len(s.sub)
      /\ Len(t.sub) \in Nat /\ Len(t.sub) <= Len(s.sub)
      /\ DOMAIN t.sub = 1..Len(t.sub)
      /\ \A k \in 1..Len(t.sub) : k \in DOMAIN s.sub /\ t.sub[k] = s.sub[k]
      /\ t.journal = s.journal /\ InJournal(t) = InJournal(s)
      /\ t.eState = s.eState /\ t.cache = s.cache
      /\ t.dbOrigSize = s.dbOrigSize
      /\ n \in Nat /\ DOMAIN t.aSavepoint = 1..n
      /\ \A i \in 1..n : i \in DOMAIN s.aSavepoint
                         /\ t.aSavepoint[i] = s.aSavepoint[i]
  BY <1>1, JournalDomains DEF Released, Fewer, InJournal
<1>3. SubOK(t)
  BY <1>1, <1>2 DEF SubOK
<1>4. MarksOK(t)
  <2> SUFFICES ASSUME NEW i \in 1..n, NEW x \in s.aSavepoint[i].inSavepoint,
                      x <= s.aSavepoint[i].nOrig
               PROVE  Recorded(t, s.aSavepoint[i], x, Len(t.sub))
    BY <1>2 DEF MarksOK
  <2>1. Recorded(s, s.aSavepoint[i], x, Len(s.sub))
    BY <1>1, <1>2 DEF MarksOK
  <2>2. CASE InTail(s, s.aSavepoint[i], x)
    BY <1>2, <2>2 DEF Recorded, InTail
  <2>3. CASE ~InTail(s, s.aSavepoint[i], x)
    <3>1. PICK k \in DOMAIN s.sub : /\ k > s.aSavepoint[i].iSubRec
                                    /\ s.sub[k].pgno = x
      BY <2>1, <2>3 DEF Recorded, InSubTail
    <3>2. CASE k <= Len(t.sub)
      <4>1. k \in DOMAIN t.sub /\ t.sub[k].pgno = x
        BY <1>2, <3>1, <3>2
      <4> QED
        BY <3>1, <3>2, <4>1 DEF Recorded, InSubTail
    <3>3. CASE ~(k <= Len(t.sub))
      <4>1. k > Len(t.sub)
        BY <1>2, <3>3
      <4> QED
        BY <3>1, <4>1, ReleasedRecords
    <3> QED
      BY <3>2, <3>3
  <2> QED
    BY <2>2, <2>3
<1>5. OrderOK(t)
  <2> SUFFICES ASSUME NEW i \in 1..n, NEW j \in 1..n, i < j
               PROVE  /\ s.aSavepoint[i].nOrig <= s.aSavepoint[j].nOrig
                      /\ s.aSavepoint[j].bTruncateOnRelease =>
                            \A k \in 1..Len(t.sub) :
                                k > s.aSavepoint[j].iSubRec
                                /\ s.sub[k].pgno <= s.aSavepoint[i].nOrig
                                => Recorded(t, s.aSavepoint[i], s.sub[k].pgno,
                                            s.aSavepoint[j].iSubRec)
    BY <1>2 DEF OrderOK
  <2>1. i \in DOMAIN s.aSavepoint /\ j \in DOMAIN s.aSavepoint
    BY <1>2
  <2>2. s.aSavepoint[j].iSubRec <= Len(t.sub) /\ s.aSavepoint[j].iSubRec \in Nat
    <3>1. s.aSavepoint[j] \in MarkType
      BY <1>1, <2>1, JournalDomains
    <3>2. s.aSavepoint[j].iSubRec \in Nat
      BY <3>1 DEF MarkType
    <3>3. s.aSavepoint[j].iSubRec <= Len(s.sub)
      BY <1>1, <2>1 DEF MarksInside
    <3>4. CASE Len(t.sub) = Len(s.sub)
      BY <3>2, <3>3, <3>4
    <3>5. CASE Len(t.sub) # Len(s.sub)
      <4>1. n + 1 \in DOMAIN s.aSavepoint
            /\ Len(t.sub) = s.aSavepoint[n + 1].iSubRec
        BY <3>5 DEF Released
      <4>2. j <= n + 1
        BY <1>2
      <4> QED
        BY <1>1, <2>1, <3>2, <4>1, <4>2 DEF MarksInside
    <3> QED
      BY <3>4, <3>5
  <2>3. s.aSavepoint[i].nOrig <= s.aSavepoint[j].nOrig
    BY <1>1, <2>1 DEF OrderOK
  <2>4. ASSUME s.aSavepoint[j].bTruncateOnRelease, NEW k \in 1..Len(t.sub),
               k > s.aSavepoint[j].iSubRec,
               s.sub[k].pgno <= s.aSavepoint[i].nOrig
        PROVE  Recorded(t, s.aSavepoint[i], s.sub[k].pgno,
                        s.aSavepoint[j].iSubRec)
    <3>1. Recorded(s, s.aSavepoint[i], s.sub[k].pgno, s.aSavepoint[j].iSubRec)
      BY <1>1, <1>2, <2>1, <2>4 DEF OrderOK
    <3>2. s.sub[k].pgno \in Nat
      BY <1>1, <1>2, JournalDomains DEF RecordType
    <3> QED
      BY <2>2, <3>1, <3>2, ReleasedRecords
  <2> QED
    BY <2>3, <2>4
<1> QED
  BY <1>3, <1>4, <1>5 DEF Tracked

\* A release leaves what the outer savepoints go back to.
LEMMA ReleasedCarries ==
    ASSUME NEW s, Sound(s), Tracked(s), NEW n, NEW t, Released(s, t, n), NEW m
    PROVE  Carries(s, m, t, m)
<1>1. Typed(s)
  BY DEF Sound
<1>2. /\ Len(s.sub) \in Nat /\ DOMAIN s.sub = 1..Len(s.sub)
      /\ Len(t.sub) \in Nat /\ Len(t.sub) <= Len(s.sub)
      /\ DOMAIN t.sub = 1..Len(t.sub)
      /\ \A k \in 1..Len(t.sub) : k \in DOMAIN s.sub /\ t.sub[k] = s.sub[k]
      /\ t.journal = s.journal /\ t.cache = s.cache /\ t.memDb = s.memDb
      /\ n \in Nat /\ n <= Len(s.aSavepoint) /\ Len(t.aSavepoint) = n
      /\ Len(s.aSavepoint) \in Nat
      /\ \A i \in 1..n : i \in DOMAIN s.aSavepoint
                         /\ t.aSavepoint[i] = s.aSavepoint[i]
  BY <1>1, JournalDomains DEF Released, Fewer
<1> SUFFICES ASSUME NEW i \in 1..n, NEW x \in 1..s.aSavepoint[i].nOrig,
                    NEW c \in Content, Saved(s, m, s.aSavepoint[i], x, c)
             PROVE  Saved(t, m, s.aSavepoint[i], x, c)
  BY <1>2 DEF Carries
<1> DEFINE sp == s.aSavepoint[i]
<1>3. InTail(t, sp, x) = InTail(s, sp, x)
  BY <1>2 DEF InTail
<1>4. sp.iSubRec \in Nat /\ sp.nOrig \in Nat
  BY <1>1, <1>2, JournalDomains DEF MarkType
<1>5. x \in Nat /\ x <= sp.nOrig
  BY <1>4
<1>6. CASE \E k \in DOMAIN s.journal :
              k > sp.iOffset /\ s.journal[k].pgno = x /\ s.journal[k].c = c
  BY <1>2, <1>6 DEF Saved
<1>7. CASE /\ ~InTail(s, sp, x)
           /\ \E k \in DOMAIN s.sub :
                 /\ k > sp.iSubRec /\ s.sub[k].pgno = x /\ s.sub[k].c = c
                 /\ \A j \in DOMAIN s.sub :
                       j > sp.iSubRec /\ s.sub[j].pgno = x => k <= j
  <2>1. PICK k \in DOMAIN s.sub :
           /\ k > sp.iSubRec /\ s.sub[k].pgno = x /\ s.sub[k].c = c
           /\ \A j \in DOMAIN s.sub :
                 j > sp.iSubRec /\ s.sub[j].pgno = x => k <= j
    BY <1>7
  <2>2. CASE k <= Len(t.sub)
    <3>1. k \in DOMAIN t.sub /\ t.sub[k] = s.sub[k]
      BY <1>2, <2>2
    <3>2. \A j \in DOMAIN t.sub : j > sp.iSubRec /\ t.sub[j].pgno = x => k <= j
      BY <1>2, <2>1
    <3> QED
      BY <1>3, <1>7, <2>1, <3>1, <3>2 DEF Saved
  <2>3. CASE ~(k <= Len(t.sub))
    <3>1. k > Len(t.sub)
      BY <1>2, <2>3
    <3>2. Recorded(t, sp, x, Len(t.sub))
      BY <1>5, <2>1, <3>1, ReleasedRecords
    <3>3. PICK j \in DOMAIN t.sub : j > sp.iSubRec /\ t.sub[j].pgno = x
      BY <1>3, <1>7, <3>2 DEF Recorded, InSubTail
    <3>4. k <= j
      BY <1>2, <2>1, <3>3
    <3> QED
      BY <1>2, <3>1, <3>3, <3>4
  <2> QED
    BY <2>2, <2>3
<1>8. CASE ~Recorded(s, sp, x, Len(s.sub)) /\ Holding(s, m, x) = c
  <2>1. ~Recorded(t, sp, x, Len(t.sub))
    <3>1. ~InTail(t, sp, x)
      BY <1>3, <1>8 DEF Recorded
    <3>2. ~InSubTail(t, sp, x, Len(t.sub))
      <4> SUFFICES ASSUME NEW j \in DOMAIN t.sub, j > sp.iSubRec,
                          t.sub[j].pgno = x
                   PROVE  FALSE
        BY DEF InSubTail
      <4>1. j \in DOMAIN s.sub /\ s.sub[j].pgno = x /\ j <= Len(s.sub)
        BY <1>2
      <4> QED
        BY <1>8, <4>1 DEF Recorded, InSubTail
    <3> QED
      BY <3>1, <3>2 DEF Recorded
  <2>2. Holding(t, m, x) = c
    BY <1>2, <1>8 DEF Holding
  <2> QED
    BY <2>1, <2>2 DEF Saved
<1> QED
  BY <1>6, <1>7, <1>8 DEF Saved

\* Releasing savepoints leaves the transaction as it is.
LEMMA ReleasedTx ==
    ASSUME NEW s, Sound(s), NEW m, NEW B, Tx(s, m, B),
           NEW n, NEW t, Released(s, t, n)
    PROVE  Tx(t, m, B)
<1>1. /\ t.eState = s.eState /\ t.memDb = s.memDb /\ t.cache = s.cache
      /\ t.journal = s.journal /\ t.journalHdr = s.journalHdr
      /\ t.dbSize = s.dbSize /\ t.dbOrigSize = s.dbOrigSize
      /\ t.dbFileSize = s.dbFileSize /\ t.dbFileVers = s.dbFileVers
      /\ Fewer(s, t, n)
  BY DEF Released
<1>2. Logged(s, m, B) /\ Tracked(s) /\ Grown(s) /\ Headed(s, m, B)
      /\ (~s.memDb => Counting(s, m, B)) /\ Typed(s) /\ MarksBound(s)
  BY DEF Tx, Sound
<1>3. Tracked(t) /\ Carries(s, m, t, m)
  BY <1>2, ReleasedTracked, ReleasedCarries
<1>4. s.dbSize \in Nat /\ s.dbSize <= s.dbSize
  BY <1>2, Sizes
<1>5. Logged(t, m, B)
  BY <1>1, <1>2, <1>4, LoggedSame
<1>6. /\ n \in Nat /\ Len(t.aSavepoint) = n /\ DOMAIN t.aSavepoint = 1..n
      /\ \A i \in 1..n : i \in DOMAIN s.aSavepoint
                         /\ t.aSavepoint[i] = s.aSavepoint[i]
  BY <1>1 DEF Fewer
<1>7. Grown(t)
  <2>1. s.dbOrigSize <= t.dbSize
        /\ \A i \in 1..n : s.aSavepoint[i].nOrig <= t.dbSize
    BY <1>1, <1>2, <1>6 DEF Grown
  <2> QED
    BY <1>1, <1>2, <2>1, GrownFewer
<1>8. \A i \in 1..n :
         \E c \in Content : /\ Saved(t, m, t.aSavepoint[i], 1, c)
                            /\ c.vers.nPage = t.aSavepoint[i].nOrig
  <2> TAKE i \in 1..n
  <2>1. i \in DOMAIN s.aSavepoint /\ t.aSavepoint[i] = s.aSavepoint[i]
    BY <1>6
  <2>2. PICK c \in Content : /\ Saved(s, m, s.aSavepoint[i], 1, c)
                             /\ c.vers.nPage = s.aSavepoint[i].nOrig
    BY <1>2, <2>1 DEF Headed
  <2>3. 1 \in 1..s.aSavepoint[i].nOrig
    <3>1. s.aSavepoint[i] \in SavepointType /\ 1 <= s.aSavepoint[i].nOrig
      BY <1>2, <2>1 DEF MarksBound
    <3>2. s.aSavepoint[i].nOrig \in 0..MaxPage
      BY <3>1 DEF SavepointType
    <3> QED
      BY <3>1, <3>2, PagerAssumption
  <2>4. Saved(t, m, t.aSavepoint[i], 1, c)
    BY <1>3, <1>6, <2>2, <2>3 DEF Carries
  <2> QED
    BY <2>1, <2>2, <2>4
<1>9. Headed(t, m, B)
  BY <1>1, <1>2, <1>6, <1>8 DEF Headed
<1>10. ASSUME ~s.memDb PROVE Counting(t, m, B)
  <2>1. InJournal(t) = InJournal(s)
    BY <1>1 DEF InJournal
  <2>2. \A i \in DOMAIN t.sub : i \in DOMAIN s.sub /\ t.sub[i] = s.sub[i]
    <3>1. Len(s.sub) \in Nat /\ DOMAIN s.sub = 1..Len(s.sub)
      BY <1>2, JournalDomains
    <3> QED
      BY <3>1 DEF Released
  <2>3. Counting(s, m, B)
    BY <1>2, <1>10
  <2>4. \A i \in DOMAIN t.sub :
           t.sub[i].pgno = 1 => t.sub[i].c.vers.counter = B[1].vers.counter
    BY <2>2, <2>3 DEF Counting
  <2> QED
    BY ONLY <1>1, <2>1, <2>3, <2>4 DEF Counting
<1> QED
  BY <1>1, <1>3, <1>5, <1>7, <1>9, <1>10 DEF Tx

\* sqlite3PagerSavepoint, SAVEPOINT_RELEASE
LEMMA ReleaseSavepointKeepsStore ==
    ASSUME DataInv, DataInv', NEW B, CommittedIs(B), NEW p \in Pagers,
           NEW n \in 0..MaxSavepoints, ReleaseSavepoint(p, n)
    PROVE  /\ CommittedIs(B)' /\ store' = store
           /\ Released(pager[p], pager'[p], n)
<1> DEFINE s == pager[p]
           rel == s.aSavepoint[n + 1]
           E == SubSeq(s.aSavepoint, 1, n)
           sub == IF rel.bTruncateOnRelease THEN SubSeq(s.sub, 1, rel.iSubRec)
                  ELSE s.sub
           t == [s EXCEPT !.aSavepoint = E, !.sub = sub]
<1>1. Writing(p) /\ n < Len(s.aSavepoint) /\ Becomes(p, t)
  BY DEF ReleaseSavepoint
<1>2. InTx(s)
  BY <1>1 DEF Writing, InTx
<1>3. /\ Sound(s) /\ Tx(s, store, B)
      /\ ~s.memDb => s.hasHeldSharedLock
  BY <1>2, OwnTx
<1> HIDE DEF s
<1>4. Typed(s) /\ MarksInside(s)
  BY <1>3 DEF Sound
<1>5. /\ s.sub \in Seq(RecordType)
      /\ Len(s.aSavepoint) \in Nat /\ Len(s.sub) \in Nat
      /\ DOMAIN s.sub = 1..Len(s.sub)
      /\ DOMAIN s.aSavepoint = 1..Len(s.aSavepoint)
      /\ \A i \in DOMAIN s.aSavepoint : s.aSavepoint[i] \in MarkType
  BY <1>4, JournalDomains DEF Typed
<1>6. n \in 0..Len(s.aSavepoint) /\ n + 1 \in 1..Len(s.aSavepoint)
  BY <1>1, <1>5, PagerAssumption
<1>7. rel.iSubRec \in 0..Len(s.sub)
  <2>1. rel.iSubRec \in Nat
    BY <1>5, <1>6 DEF MarkType
  <2>2. rel.iSubRec <= Len(s.sub)
    BY <1>4, <1>5, <1>6 DEF MarksInside
  <2> QED
    BY <1>5, <2>1, <2>2
<1>8. /\ Len(sub) \in 0..Len(s.sub) /\ DOMAIN sub = 1..Len(sub)
      /\ \A i \in 1..Len(sub) : sub[i] = s.sub[i]
      /\ \/ Len(sub) = Len(s.sub)
         \/ rel.bTruncateOnRelease /\ Len(sub) = rel.iSubRec
  <2>1. CASE rel.bTruncateOnRelease
    <3>1. sub = SubSeq(s.sub, 1, rel.iSubRec)
      BY <2>1
    <3> HIDE DEF sub, rel
    <3>2. /\ Len(sub) = rel.iSubRec /\ DOMAIN sub = 1..rel.iSubRec
          /\ \A i \in 1..rel.iSubRec : sub[i] = s.sub[i]
      BY <1>5, <1>7, <3>1, FirstOf
    <3> QED
      BY <1>7, <2>1, <3>2
  <2>2. CASE ~rel.bTruncateOnRelease
    <3>1. sub = s.sub
      BY <2>2
    <3> HIDE DEF sub
    <3> QED
      BY <1>5, <3>1
  <2> QED
    BY <2>1, <2>2
<1> HIDE DEF sub, E
<1>9. /\ t.eState = s.eState /\ t.memDb = s.memDb /\ t.cache = s.cache
      /\ t.journal = s.journal /\ t.journalHdr = s.journalHdr
      /\ t.dbSize = s.dbSize /\ t.dbOrigSize = s.dbOrigSize
      /\ t.dbFileSize = s.dbFileSize /\ t.dbFileVers = s.dbFileVers
      /\ t.hasHeldSharedLock = s.hasHeldSharedLock /\ t.aSavepoint = E
      /\ t.sub = sub
  BY <1>4 DEF Typed, Fields
<1> HIDE DEF t
<1>10. Fewer(s, t, n)
  BY <1>4, <1>6, <1>9, FewerMarks DEF E
<1>11. Released(s, t, n)
  BY <1>5, <1>6, <1>8, <1>9, <1>10 DEF Released
<1>12. Tx(t, store, B)
  BY <1>3, <1>11, ReleasedTx
<1>13. InTx(t)
  BY <1>2, <1>9 DEF InTx
<1>14. pager'[p] = t /\ store' = store
  BY <1>1 DEF Becomes, DataInv, IInv, s
<1> QED
  BY <1>1, <1>2, <1>9, <1>11, <1>12, <1>13, <1>14, TxStep DEF s
-----------------------------------------------------------------------------
(* Rolling back to a savepoint.                                            *)

\* A transaction that goes on over another store.
LEMMA TxUpdate ==
    ASSUME DataInv, DataInv', NEW B, CommittedIs(B), NEW p \in Pagers,
           InTx(pager[p]), NEW r, Update(p, r), InTx(r.s), Tx(r.s, r.m, B),
           r.s.memDb = pager[p].memDb,
           r.s.hasHeldSharedLock = pager[p].hasHeldSharedLock,
           r.m.szMax = store.szMax, r.s.memDb => r.m.pages = <<>>
    PROVE  CommittedIs(B)'
<1>1. B \in Databases /\ Owning(pager[p])
      /\ (~pager[p].memDb => pager[p].hasHeldSharedLock)
  BY OwnTx
<1>2. pager' = [pager EXCEPT ![p] = r.s] /\ store' = r.m
  BY DEF Update
<1>3. HoldsOK(r.s, r.m, B) /\ Owning(r.s)
  BY <1>1, TxHolds
<1>4. /\ r.s.eState \in PAGER_READER..PAGER_WRITER_FINISHED
      /\ r.s.eState # NOT_OPEN /\ pager[p].eState # NOT_OPEN
  BY DEF InTx
<1>5. CASE r.s.memDb
  BY <1>1, <1>2, <1>3, <1>4, <1>5, MemUpdate
<1>6. CASE ~r.s.memDb
  BY ONLY DataInv, DataInv', CommittedIs(B), p \in Pagers, <1>1, <1>2, <1>3,
          <1>4, <1>6, r.m.szMax = store.szMax, FileStep
<1> QED
  BY <1>5, <1>6

\* A rollback leaves what the pager is.
LEMMA RolledBackKeeps ==
    ASSUME NEW s, Typed(s), NEW m, StoreTyped(m), NEW r, r = RolledBack(s, m)
    PROVE  r.s.memDb = s.memDb /\ r.m.szMax = m.szMax
<1>1. CASE s.eState = PAGER_WRITER_LOCKED
  <2>1. r = Ended(s, m, FALSE)
    BY <1>1 DEF RolledBack
  <2>2. Ends(s, m, FALSE, r)
    BY <2>1, EndedFacts
  <2> QED
    BY ONLY <2>2 DEF Ends, SameLimit
<1>2. CASE s.eState # PAGER_WRITER_LOCKED
  <2> DEFINE u == Undone(s, m)
  <2>1. r = Ended(u.s, u.m, FALSE)
    BY <1>2, UndoneEnds
  <2>2. Typed(CutBack(s)) /\ CutBack(s).memDb = s.memDb
        /\ JournalFrom(CutBack(s), 0) \in Seq(PlayType)
    BY CutBackFacts, WholeJournal DEF IsReplay
  <2>3. s.dbOrigSize \in 0..MaxPage
    BY DEF Typed
  <2>4. StoreTyped(FileBack(s, m)) /\ FileBack(s, m).szMax = m.szMax
    BY <2>3, ResizedFacts DEF FileBack, SameLimit
  <2>5. Underlaid(CutBack(s), FileBack(s, m), u)
    BY <2>2, <2>4, PlaybackOverlays DEF Undone
  <2>6. Typed(u.s) /\ StoreTyped(u.m) /\ u.s.memDb = s.memDb
        /\ u.m.szMax = m.szMax
    BY <2>2, <2>4, <2>5 DEF Underlaid
  <2> HIDE DEF u
  <2>7. Ends(u.s, u.m, FALSE, r)
    BY <2>1, <2>6, EndedFacts
  <2> QED
    BY ONLY <2>6, <2>7 DEF Ends, SameLimit
<1> QED
  BY <1>1, <1>2

\* Rolling back a transaction whose records were not all stored.
LEMMA UndoStep ==
    ASSUME DataInv, DataInv', NEW B, CommittedIs(B), NEW p \in Pagers,
           Owning(pager[p]), NEW s, NEW m, StoreTyped(m), Undo(s, m, B),
           Update(p, RolledBack(s, m)), s.memDb = pager[p].memDb,
           m.szMax = store.szMax, s.memDb => m.pages = <<>>
    PROVE  StoreOK' /\ Settled(pager'[p], store', B)
<1> DEFINE r == RolledBack(s, m)
<1>1. Typed(s)
  BY DEF Undo
<1>2. Settled(r.s, r.m, B)
  BY RolledBackSettles
<1>3. r.s.memDb = s.memDb /\ r.m.szMax = m.szMax
  BY <1>1, RolledBackKeeps
<1>4. r.s.memDb => r.m.pages = <<>>
  BY <1>1, <1>3, MemRolledBack
<1>5. Update(p, r)
  OBVIOUS
<1> HIDE DEF r
<1>6. pager'[p] = r.s /\ store' = r.m
  BY <1>5 DEF Update, DataInv, IInv
<1> QED
  BY <1>2, <1>3, <1>4, <1>5, <1>6, SettledStep

\* The size and the records to which a rollback to savepoint n goes back.
SavepointSize(s, n) == IF n = 0 THEN s.dbOrigSize ELSE s.aSavepoint[n].nOrig

SavepointRecords(s, n) ==
    IF n = 0 THEN JournalFrom(s, 0)
    ELSE JournalFrom(s, s.aSavepoint[n].iOffset)
         \o SubFrom(s, s.aSavepoint[n].iSubRec)

SavepointPlayed(s, m, n) ==
    Playback(BackTo(s, n, SavepointSize(s, n)), m, SavepointRecords(s, n))

Shortened(s, n) == [s EXCEPT !.aSavepoint = SubSeq(@, 1, n)]

\* The branches of sqlite3PagerSavepoint() with SAVEPOINT_ROLLBACK.
LEMMA RollbackParts ==
    ASSUME NEW p \in Pagers, NEW n, RollbackToSavepoint(p, n),
           NEW r, r = SavepointPlayed(pager[p], store, n)
    PROVE  /\ Writing(p) /\ n <= Len(pager[p].aSavepoint)
           /\ pager[p].eState = PAGER_WRITER_LOCKED => Becomes(p, Shortened(pager[p], n))
           /\ pager[p].eState # PAGER_WRITER_LOCKED =>
                 IF r.ok THEN Update(p, [s |-> NewDatabase(r.s, r.m), m |-> r.m])
                         ELSE Update(p, RolledBack(r.s, r.m))
<1> DEFINE s == pager[p]
           kept == [s EXCEPT !.aSavepoint = SubSeq(@, 1, n)]
           sp == s.aSavepoint[n]
           size == IF n = 0 THEN s.dbOrigSize ELSE sp.nOrig
           back == [kept EXCEPT !.dbSize = size, !.changeCountDone = s.memDb]
           records == IF n = 0 THEN JournalFrom(s, 0)
                      ELSE JournalFrom(s, sp.iOffset) \o SubFrom(s, sp.iSubRec)
           played == Playback(back, store, records)
<1>1. /\ Writing(p) /\ n <= Len(s.aSavepoint)
      /\ \/ s.eState = PAGER_WRITER_LOCKED /\ Becomes(p, kept)
         \/ /\ s.eState # PAGER_WRITER_LOCKED /\ played.ok
            /\ Update(p, [s |-> NewDatabase(played.s, played.m),
                          m |-> played.m])
         \/ /\ s.eState # PAGER_WRITER_LOCKED /\ ~played.ok
            /\ Update(p, RolledBack(played.s, played.m))
  BY DEF RollbackToSavepoint
<1>2. back = BackTo(s, n, size)
  BY DEF BackTo
<1>3. size = SavepointSize(s, n) /\ records = SavepointRecords(s, n)
  BY DEF SavepointSize, SavepointRecords
<1> HIDE DEF back, size, records
<1>4. played = r
  BY <1>2, <1>3 DEF SavepointPlayed
<1>5. kept = Shortened(s, n)
  BY DEF Shortened
<1> HIDE DEF played, kept, s
<1> QED
  BY <1>1, <1>4, <1>5 DEF s

\* The records a savepoint replays go back to it, or to the beginning.
LEMMA RollbackRewinds ==
    ASSUME NEW s, Sound(s), Tracked(s), Grown(s), NEW n \in 0..Len(s.aSavepoint)
    PROVE  /\ Rewinds(s, n, SavepointRecords(s, n), SavepointSize(s, n))
           /\ SavepointRecords(s, n) \in Seq(PlayType)
           /\ BelowRecords(SavepointRecords(s, n))
           /\ SavepointSize(s, n) \in 0..MaxPage
           /\ SavepointSize(s, n) = 0 => n = 0
<1>1. Typed(s) /\ MarksInside(s) /\ MarksBound(s)
  BY DEF Sound
<1>2. /\ Len(s.aSavepoint) \in Nat /\ DOMAIN s.aSavepoint = 1..Len(s.aSavepoint)
      /\ Len(s.journal) \in Nat /\ Len(s.sub) \in Nat
      /\ \A i \in DOMAIN s.aSavepoint : s.aSavepoint[i] \in MarkType
  BY <1>1, JournalDomains
<1> DEFINE R == SavepointRecords(s, n)
           size == SavepointSize(s, n)
<1>3. CASE n = 0
  <2>1. R = JournalFrom(s, 0) /\ size = s.dbOrigSize
    BY <1>3 DEF SavepointRecords, SavepointSize
  <2>2. IsReplay(s, 0, Len(s.sub), R)
    BY <1>1, <2>1, WholeJournal
  <2>3. 0 \in Nat /\ 0 \in 0..Len(s.journal) /\ 0 \in 0..Len(s.sub)
    BY <1>2
  <2>4. R \in Seq(PlayType) /\ BelowRecords(R)
    BY <2>1, <2>3, PlayedBelow
  <2>5. size \in 0..MaxPage
    BY <1>1, <2>1 DEF Typed
  <2> HIDE DEF R, size
  <2> QED
    BY <1>3, <2>1, <2>2, <2>4, <2>5 DEF Rewinds, R, size
<1>4. CASE n # 0
  <2> DEFINE sp == s.aSavepoint[n]
  <2>1. n \in DOMAIN s.aSavepoint
    BY <1>2, <1>4
  <2>2. sp \in MarkType /\ 1 <= sp.nOrig /\ sp.iOffset <= Len(s.journal)
        /\ sp.iSubRec <= Len(s.sub)
    BY <1>1, <1>2, <2>1 DEF MarksInside, MarksBound
  <2>3. /\ sp.nOrig \in 0..MaxPage /\ sp.iOffset \in Nat /\ sp.iSubRec \in Nat
    BY <2>2 DEF MarkType
  <2>4. sp.iOffset \in 0..Len(s.journal) /\ sp.iSubRec \in 0..Len(s.sub)
    BY <1>2, <2>2, <2>3
  <2>5. R = JournalFrom(s, sp.iOffset) \o SubFrom(s, sp.iSubRec)
        /\ size = sp.nOrig
    BY <1>4 DEF SavepointRecords, SavepointSize
  <2> HIDE DEF sp
  <2>6. IsReplay(s, sp.iOffset, sp.iSubRec, R)
    BY <1>1, <2>4, <2>5, BothJournals
  <2>7. R \in Seq(PlayType) /\ BelowRecords(R)
    BY <2>3, <2>4, <2>5, PlayedBelow
  <2>8. size # 0 /\ size \in 0..MaxPage
    BY <2>2, <2>3, <2>5, PagerAssumption
  <2> HIDE DEF R, size
  <2>9. n > 0
    BY <1>2, <1>4
  <2>10. Rewinds(s, n, R, size)
    BY <1>4, <2>1, <2>5, <2>6 DEF Rewinds, sp
  <2> QED
    BY <2>7, <2>8, <2>10 DEF R, size
<1> QED
  BY <1>3, <1>4

\* What playing back to a savepoint leaves.
Replays(s, m, B, n, r) ==
    /\ Sound(r.s) /\ Played(s, m, SavepointRecords(s, n), r)
    /\ Logged(r.s, r.m, B) /\ Tracked(r.s) /\ Grown(r.s)
    /\ Fewer(s, r.s, n) /\ Carries(s, m, r.s, r.m)
    /\ r.s.dbSize = SavepointSize(s, n)
    /\ r.s.dbSize > 0 => Tx(r.s, r.m, B)
    /\ r.s.dbSize = 0 => r.s.aSavepoint = <<>> /\ r.s.dbOrigSize = 0
    /\ ~s.memDb => Counting(r.s, r.m, B)
    /\ 1 \in DOMAIN r.s.cache
    /\ s.memDb /\ m.pages = <<>> => r.m.pages = <<>>

\* pagerPlaybackSavepoint() replays a transaction up to a savepoint.
LEMMA SavepointReplays ==
    ASSUME NEW s, NEW m, StoreTyped(m), StoreFits(m), Changing(s, m.szMax),
           s.eState # PAGER_WRITER_LOCKED, NEW B, Tx(s, m, B),
           NEW n \in 0..Len(s.aSavepoint),
           NEW r, r = SavepointPlayed(s, m, n)
    PROVE  Replays(s, m, B, n, r)
<1> DEFINE size == SavepointSize(s, n)
           R == SavepointRecords(s, n)
           b == BackTo(s, n, size)
<1>1. /\ Sound(s) /\ Tracked(s) /\ Grown(s) /\ Logged(s, m, B)
      /\ Typed(s) /\ 1 \in DOMAIN s.cache
  BY DEF Changing, Tx, Sound
<1>2. /\ Rewinds(s, n, R, size) /\ R \in Seq(PlayType) /\ BelowRecords(R)
      /\ size \in 0..MaxPage /\ (size = 0 => n = 0)
  BY <1>1, RollbackRewinds
<1>3. r = Playback(b, m, R)
  BY DEF SavepointPlayed
<1> HIDE DEF size, R
<1>4. /\ Typed(b) /\ b.cache = s.cache /\ b.eState = s.eState
      /\ b.memDb = s.memDb /\ b.dbSize = size
      /\ b.dbOrigSize = s.dbOrigSize /\ b.dbFileSize = s.dbFileSize
      /\ b.dbFileVers = s.dbFileVers /\ b.journal = s.journal
      /\ b.journalHdr = s.journalHdr /\ b.sub = s.sub
      /\ b.aSavepoint = SubSeq(s.aSavepoint, 1, n)
  BY <1>2, BackToFacts
<1>5. b.hasHeldSharedLock = s.hasHeldSharedLock
  BY <1>1 DEF BackTo, Typed, Fields
<1>6. PlayedOver(s, m, n, size, r)
  BY <1>2, <1>3, PlayedSound
<1> HIDE DEF b
<1>7. GoesBack(s, b)
  BY <1>4, <1>5 DEF GoesBack
<1>8. Played(s, m, R, r) /\ r.s.dbSize = size
      /\ r.s.aSavepoint = SubSeq(s.aSavepoint, 1, n)
  BY <1>2, <1>3, <1>4, <1>7, PlaybackPlayed
<1>9. Fewer(s, r.s, n)
  BY <1>1, <1>8, FewerMarks
<1>10. /\ Logged(r.s, r.m, B) /\ Tracked(r.s) /\ Grown(r.s)
       /\ Carries(s, m, r.s, r.m)
  BY <1>1, <1>2, <1>8, <1>9, PlayedFollows
<1>11. /\ size > 0 => Tx(r.s, r.m, B)
       /\ ~s.memDb => Counting(r.s, r.m, B)
  BY <1>1, <1>2, <1>8, <1>9, PlayedTx
<1>12. Sound(r.s) /\ 1 \in DOMAIN r.s.cache
  BY <1>6 DEF PlayedOver
<1>13. size = 0 => r.s.aSavepoint = <<>> /\ r.s.dbOrigSize = 0
  <2> SUFFICES ASSUME size = 0
               PROVE  r.s.aSavepoint = <<>> /\ r.s.dbOrigSize = 0
    OBVIOUS
  <2>1. n = 0 /\ size = s.dbOrigSize
    BY <1>2 DEF Rewinds
  <2>2. r.s.dbOrigSize = 0
    BY <1>8, <2>1 DEF Played
  <2>3. Len(r.s.aSavepoint) = 0
    BY <1>9, <2>1 DEF Fewer
  <2>4. r.s.aSavepoint \in Seq(MarkType)
    BY <1>12 DEF Sound, Typed
  <2> QED
    BY <2>2, <2>3, <2>4, EmptySeq
<1>14. s.memDb /\ m.pages = <<>> => r.m.pages = <<>>
  BY <1>2, <1>3, <1>4, MemPlayback
<1> QED
  BY <1>8, <1>9, <1>10, <1>11, <1>12, <1>13, <1>14 DEF Replays, size, R

\* The pager t and the store k after a replay that succeeds.
WentBack(s, m, B, n, t, k) ==
    \E r : Replays(s, m, B, n, r) /\ t = NewDatabase(r.s, r.m) /\ k = r.m

\* The image that is left, with a first page.
LEMMA ReplaysTx ==
    ASSUME NEW s, NEW m, NEW B, NEW n, NEW r, Replays(s, m, B, n, r),
           NEW t, t = NewDatabase(r.s, r.m)
    PROVE  /\ Tx(t, r.m, B) /\ InTx(t) /\ t.memDb = s.memDb
           /\ t.hasHeldSharedLock = s.hasHeldSharedLock
<1>1. /\ Sound(r.s) /\ Logged(r.s, r.m, B) /\ Tracked(r.s) /\ Grown(r.s)
      /\ 1 \in DOMAIN r.s.cache
      /\ r.s.dbSize = 0 => r.s.aSavepoint = <<>> /\ r.s.dbOrigSize = 0
      /\ r.s.dbSize > 0 => Tx(r.s, r.m, B)
  BY DEF Replays
<1>2. /\ Typed(r.s) /\ StoreTyped(r.m) /\ r.s.memDb = s.memDb
      /\ r.s.hasHeldSharedLock = s.hasHeldSharedLock
  BY DEF Replays, Played
<1>3. Sound(t) /\ SameFile(r.s, t)
  BY <1>1, <1>2, NewDatabaseSound
<1>4. r.s.dbSize \in Nat
  BY <1>2, Sizes
<1>5. Tx(t, r.m, B)
  <2>1. CASE r.s.dbSize > 0
    <3>1. t = r.s
      BY <2>1 DEF NewDatabase
    <3> QED
      BY <1>1, <2>1, <3>1
  <2>2. CASE ~(r.s.dbSize > 0)
    <3>1. r.s.dbSize = 0
      BY <1>4, <2>2
    <3>2. ASSUME ~r.s.memDb
          PROVE  /\ Counts(r.s, 0)
                 /\ \/ r.s.dbFileVers.counter = 0
                    \/ r.s.dbFileVers.nPage > r.m.szMax
      <4>1. Counting(r.s, r.m, B)
        BY <1>2, <3>2 DEF Replays
      <4>2. 1 \in 1..MaxPage /\ 1 > r.s.dbOrigSize
        BY <1>1, <3>1, PagerAssumption
      <4>3. B[1] = Zero
        BY <1>1, <4>2 DEF Logged, Base
      <4>4. B[1].vers.counter = 0
        BY <4>3, ZeroContent
      <4> QED
        BY ONLY <1>1, <4>1, <4>4 DEF Counting, Counts
    <3> QED
      BY <1>1, <1>2, <3>1, <3>2, FirstTx
  <2> QED
    BY <2>1, <2>2
<1> QED
  BY <1>2, <1>3, <1>5 DEF Sound, SameFile

\* A replay that fails can still be undone as a whole.
LEMMA ReplaysUndo ==
    ASSUME NEW s, NEW m, NEW B, NEW n, NEW r, Replays(s, m, B, n, r),
           s.eState # PAGER_WRITER_LOCKED, Headed(s, m, B),
           s.memDb => s.eState # PAGER_WRITER_DBMOD,
           ~s.memDb => s.hasHeldSharedLock
    PROVE  Undo(r.s, r.m, B)
<1>1. /\ Sound(r.s) /\ Logged(r.s, r.m, B) /\ 1 \in DOMAIN r.s.cache
      /\ ~s.memDb => Counting(r.s, r.m, B)
  BY DEF Replays
<1>2. /\ r.s.memDb = s.memDb /\ r.s.eState = s.eState
      /\ r.s.hasHeldSharedLock = s.hasHeldSharedLock
      /\ r.s.dbOrigSize = s.dbOrigSize
  BY DEF Replays, Played
<1>3. s.dbOrigSize > 0 => B[1].vers.nPage = s.dbOrigSize
  BY DEF Headed
<1> QED
  BY <1>1, <1>2, <1>3, LoggedUndo

\* sqlite3PagerSavepoint, SAVEPOINT_ROLLBACK
LEMMA RollbackToSavepointKeepsStore ==
    ASSUME DataInv, DataInv', NEW B, CommittedIs(B), NEW p \in Pagers,
           NEW n \in 0..MaxSavepoints, RollbackToSavepoint(p, n)
    PROVE  /\ pager[p].eState = PAGER_WRITER_LOCKED =>
                 /\ CommittedIs(B)' /\ store' = store
                 /\ Released(pager[p], pager'[p], n)
           /\ pager[p].eState # PAGER_WRITER_LOCKED =>
                 \/ CommittedIs(B)'
                    /\ WentBack(pager[p], store, B, n, pager'[p], store')
                 \/ StoreOK' /\ Settled(pager'[p], store', B)
<1> DEFINE s == pager[p]
           r == SavepointPlayed(s, store, n)
<1>1. /\ Writing(p) /\ n <= Len(s.aSavepoint)
      /\ s.eState = PAGER_WRITER_LOCKED => Becomes(p, Shortened(s, n))
      /\ s.eState # PAGER_WRITER_LOCKED =>
            IF r.ok THEN Update(p, [s |-> NewDatabase(r.s, r.m), m |-> r.m])
                    ELSE Update(p, RolledBack(r.s, r.m))
  BY RollbackParts
<1> HIDE DEF r
<1>2. InTx(s)
  BY <1>1 DEF Writing, InTx
<1>3. /\ Changing(s, store.szMax) /\ Sound(s) /\ Tx(s, store, B)
      /\ StoreTyped(store) /\ StoreFits(store) /\ Owning(s)
      /\ ~s.memDb => s.hasHeldSharedLock
      /\ s.memDb => s.eState # PAGER_WRITER_DBMOD
  BY <1>2, OwnTx
<1>4. s.memDb => store.pages = <<>>
  BY <1>2, NoStore DEF InTx
<1>5. Typed(s)
  BY <1>3 DEF Sound
<1>6. n \in 0..Len(s.aSavepoint)
  BY <1>1, <1>5, JournalDomains, PagerAssumption
<1>7. CASE s.eState = PAGER_WRITER_LOCKED
  <2> DEFINE t == Shortened(s, n)
  <2>1. Becomes(p, t)
    BY <1>1, <1>7
  <2> HIDE DEF s
  <2>2. /\ t.eState = s.eState /\ t.memDb = s.memDb /\ t.cache = s.cache
        /\ t.journal = s.journal /\ t.journalHdr = s.journalHdr
        /\ t.dbSize = s.dbSize /\ t.dbOrigSize = s.dbOrigSize
        /\ t.dbFileSize = s.dbFileSize /\ t.dbFileVers = s.dbFileVers
        /\ t.hasHeldSharedLock = s.hasHeldSharedLock /\ t.sub = s.sub
        /\ t.aSavepoint = SubSeq(s.aSavepoint, 1, n)
    BY <1>5 DEF Typed, Fields, Shortened
  <2> HIDE DEF t
  <2>3. Fewer(s, t, n)
    BY <1>5, <1>6, <2>2, FewerMarks
  <2>4. Released(s, t, n)
    <3>1. /\ Len(t.sub) \in 0..Len(s.sub) /\ DOMAIN t.sub = 1..Len(t.sub)
          /\ Len(t.sub) = Len(s.sub)
      BY <1>5, <2>2, JournalDomains
    <3> QED
      BY <2>2, <2>3, <3>1 DEF Released
  <2>5. Tx(t, store, B)
    BY <1>3, <2>4, ReleasedTx
  <2>6. InTx(t)
    BY <1>2, <2>2 DEF InTx
  <2>7. pager'[p] = t /\ store' = store
    BY <2>1 DEF Becomes, DataInv, IInv, s
  <2>8. CommittedIs(B)'
    BY <1>2, <2>1, <2>2, <2>5, <2>6, TxStep DEF s
  <2> QED
    BY <1>7, <2>4, <2>7, <2>8 DEF s
<1>8. CASE s.eState # PAGER_WRITER_LOCKED
  <2>1. Replays(s, store, B, n, r)
    BY <1>3, <1>6, <1>8, SavepointReplays DEF r
  <2>2. /\ StoreTyped(r.m) /\ r.m.szMax = store.szMax /\ r.s.memDb = s.memDb
        /\ s.memDb => r.m.pages = <<>>
    BY <1>4, <2>1 DEF Replays, Played
  <2>3. CASE r.ok
    <3> DEFINE t == NewDatabase(r.s, r.m)
               u == [s |-> t, m |-> r.m]
    <3>1. /\ Tx(t, r.m, B) /\ InTx(t) /\ t.memDb = s.memDb
          /\ t.hasHeldSharedLock = s.hasHeldSharedLock
      BY <2>1, ReplaysTx
    <3>2. Update(p, u) /\ u.s = t /\ u.m = r.m
      BY <1>1, <1>8, <2>3
    <3> HIDE DEF t, u, s
    <3>3. InTx(u.s) /\ Tx(u.s, u.m, B) /\ u.s.memDb = s.memDb
          /\ u.s.hasHeldSharedLock = s.hasHeldSharedLock
          /\ u.m.szMax = store.szMax /\ (u.s.memDb => u.m.pages = <<>>)
      BY <2>2, <3>1, <3>2
    <3>4. CommittedIs(B)'
      BY ONLY DataInv, DataInv', CommittedIs(B), p \in Pagers, <1>2, <3>2, <3>3,
              TxUpdate DEF s
    <3>5. pager'[p] = t /\ store' = r.m
      BY <3>2 DEF Update, DataInv, IInv
    <3>6. WentBack(s, store, B, n, pager'[p], store')
      BY <2>1, <3>5 DEF WentBack, t
    <3> QED
      BY <1>8, <3>4, <3>6 DEF s
  <2>4. CASE ~r.ok
    <3>1. Headed(s, store, B)
      BY <1>3 DEF Tx
    <3>2. Undo(r.s, r.m, B)
      BY <1>3, <1>8, <2>1, <3>1, ReplaysUndo
    <3>3. Update(p, RolledBack(r.s, r.m))
      BY <1>1, <1>8, <2>4
    <3>4. Owning(pager[p]) /\ StoreTyped(r.m) /\ r.s.memDb = pager[p].memDb
          /\ r.m.szMax = store.szMax /\ (r.s.memDb => r.m.pages = <<>>)
      BY <1>3, <2>2
    <3> HIDE DEF s
    <3>5. StoreOK' /\ Settled(pager'[p], store', B)
      BY ONLY DataInv, DataInv', CommittedIs(B), p \in Pagers, <3>2, <3>3, <3>4,
              UndoStep
    <3> QED
      BY <1>8, <3>5 DEF s
  <2> QED
    BY <2>3, <2>4
<1> QED
  BY <1>7, <1>8
-----------------------------------------------------------------------------
(* The end of a transaction.                                               *)

\* sqlite3PagerCommitPhaseOne
LEMMA CommitPhaseOneKeepsStore ==
    ASSUME DataInv, DataInv', NEW B, CommittedIs(B), NEW p \in Pagers,
           NEW size \in 1..MaxPage, CommitPhaseOne(p, size)
    PROVE  \/ CommittedIs(B)' /\ pager'[p].eState = PAGER_WRITER_FINISHED
           \/ StoreOK' /\ Settled(pager'[p], store', B)
<1> DEFINE o == pager[p]
           s == Vacuumed(o, store, size)
           d == PhaseOne(s, store)
           f == [s EXCEPT !.eState = PAGER_WRITER_FINISHED]
<1>1. /\ o.eState \in {PAGER_WRITER_CACHEMOD, PAGER_WRITER_DBMOD}
      /\ size <= o.dbSize
      /\ \/ s.memDb /\ Becomes(p, f)
         \/ ~s.memDb /\ d.ok /\ Update(p, [s |-> d.s, m |-> d.m])
         \/ ~s.memDb /\ ~d.ok /\ Update(p, RolledBack(d.s, d.m))
  BY DEF CommitPhaseOne
<1> HIDE DEF d, f
<1>2. InTx(o)
  BY <1>1 DEF InTx
<1>3. /\ Changing(o, store.szMax) /\ Sound(o) /\ Tx(o, store, B)
      /\ StoreTyped(store) /\ Owning(o) /\ B \in Databases
      /\ ~o.memDb => o.hasHeldSharedLock
      /\ o.memDb => o.eState # PAGER_WRITER_DBMOD
  BY <1>2, OwnTx
<1>4. o.memDb => store.pages = <<>>
  BY <1>2, NoStore DEF InTx
<1>5. o.eState # PAGER_WRITER_LOCKED /\ 1 \in DOMAIN o.cache /\ 1 <= o.dbSize
  BY <1>1, <1>3 DEF Changing
<1>6. Committable(s, store, B)
  BY <1>1, <1>3, <1>5, VacuumedCommittable
<1>7. s.memDb = o.memDb /\ s.hasHeldSharedLock = o.hasHeldSharedLock
      /\ s.eState = o.eState
  BY <1>3, <1>5, VacuumedSound DEF SameFile
<1> HIDE DEF s
<1>8. Sound(s) /\ Typed(s) /\ 1 \in DOMAIN s.cache
  BY <1>6 DEF Committable, Sound
<1>9. CASE s.memDb /\ Becomes(p, f)
  <2>1. /\ f.eState = PAGER_WRITER_FINISHED /\ f.cache = s.cache
        /\ f.dbSize = s.dbSize /\ f.dbOrigSize = s.dbOrigSize
        /\ f.journal = s.journal /\ f.memDb = s.memDb
    BY <1>8 DEF Typed, Fields, f
  <2>2. Base(s, store, B) /\ JournalOK(s)
    BY <1>6, <1>8 DEF Committable, Logged, Sound
  <2>3. Base(f, store, B) /\ JournalOK(f)
    BY <2>1, <2>2 DEF Base, JournalOK, InJournal
  <2>9. InJournal(f) \subseteq DOMAIN f.cache
    <3>1. /\ s.eState \in PAGER_WRITER_CACHEMOD..PAGER_WRITER_FINISHED
          /\ s.eState # PAGER_WRITER_FINISHED /\ s.eState # PAGER_WRITER_DBMOD
          /\ s.memDb
      BY <1>1, <1>3, <1>7, <1>9
    <3>2. UnsyncedOK(s) /\ Typed(s)
      BY <1>6, <1>8 DEF Committable, Logged
    <3>3. InJournal(s) \subseteq DOMAIN s.cache
      BY ONLY <3>1, <3>2, MemJournalCached
    <3> QED
      BY <2>1, <3>3 DEF InJournal
  <2>4. Done(f, store, B)
    BY <1>6, <1>9, <2>1, <2>3, <2>9 DEF Committable, Done
  <2>5. HoldsOK(f, store, B)
    BY <1>9, <2>1, <2>4 DEF HoldsOK, InTx
  <2>6. pager' = [pager EXCEPT ![p] = f] /\ store' = store
    BY <1>9 DEF Becomes
  <2>7. o.eState # NOT_OPEN
    BY <1>1
  <2>8. f.eState \in PAGER_READER..PAGER_WRITER_FINISHED /\ f.memDb
        /\ Owning(f) /\ o.memDb /\ store.pages = <<>>
    BY <1>4, <1>7, <1>9, <2>1 DEF Owning
  <2>10. CommittedIs(B)'
    BY ONLY DataInv, DataInv', CommittedIs(B), p \in Pagers, <1>3,
            <2>5, <2>6, <2>7, <2>8, MemUpdate
  <2>11. pager'[p].eState = PAGER_WRITER_FINISHED
    BY <2>1, <2>6 DEF DataInv, IInv
  <2> QED
    BY <2>10, <2>11
<1>10. ASSUME ~s.memDb PROVE Flushed(s, store, B, d)
  BY <1>3, <1>6, <1>10, PhaseOneFlushes DEF d
<1>11. CASE ~s.memDb /\ d.ok /\ Update(p, [s |-> d.s, m |-> d.m])
  <2>1. Flushed(s, store, B, d)
    BY <1>10, <1>11
  <2>2. Done(d.s, d.m, B)
    BY <1>3, <1>6, <1>11, <2>1, FlushedDone
  <2>3. /\ d.s.eState = PAGER_WRITER_FINISHED /\ ~d.s.memDb
        /\ d.s.hasHeldSharedLock /\ d.m.szMax = store.szMax
    BY <1>3, <1>7, <1>11, <2>1 DEF Flushed
  <2>4. HoldsOK(d.s, d.m, B) /\ Owning(d.s) /\ d.s.eState # NOT_OPEN
    BY <2>2, <2>3 DEF HoldsOK, Owning, InTx
  <2>5. pager' = [pager EXCEPT ![p] = d.s] /\ store' = d.m
    BY <1>11 DEF Update
  <2>6. CommittedIs(B)'
    BY ONLY DataInv, DataInv', CommittedIs(B), p \in Pagers, <1>3, <2>3, <2>4,
            <2>5, FileStep
  <2>7. pager'[p].eState = PAGER_WRITER_FINISHED
    BY <2>3, <2>5 DEF DataInv, IInv
  <2> QED
    BY <2>6, <2>7
<1>12. CASE ~s.memDb /\ ~d.ok /\ Update(p, RolledBack(d.s, d.m))
  <2>1. Flushed(s, store, B, d)
    BY <1>10, <1>12
  <2>2. Undo(d.s, d.m, B)
    BY <1>3, <1>6, <1>7, <1>12, <2>1, FlushedUndo
  <2>3. /\ StoreTyped(d.m) /\ d.m.szMax = store.szMax /\ ~d.s.memDb
        /\ Typed(d.s)
    BY <2>1 DEF Flushed
  <2>4. d.s.memDb = o.memDb
    BY <1>7, <1>8, <1>12, <2>3 DEF Typed
  <2>5. Owning(pager[p]) /\ (d.s.memDb => d.m.pages = <<>>)
        /\ d.s.memDb = pager[p].memDb
    BY <1>3, <2>3, <2>4
  <2> HIDE DEF o
  <2>6. StoreOK' /\ Settled(pager'[p], store', B)
    BY ONLY DataInv, DataInv', CommittedIs(B), p \in Pagers, <1>12, <2>2, <2>3,
            <2>5, UndoStep
  <2> QED
    BY <2>6
<1> QED
  BY <1>1, <1>9, <1>11, <1>12

\* Ending a transaction that has changed nothing leaves the store sound.
LEMMA LockedEnds ==
    ASSUME DataInv, DataInv', NEW B, CommittedIs(B), NEW p \in Pagers,
           pager[p].eState = PAGER_WRITER_LOCKED, NEW bCommit \in BOOLEAN,
           Update(p, Ended(pager[p], store, bCommit))
    PROVE  StoreOK' /\ Settled(pager'[p], store', B)
<1> DEFINE s == pager[p]
           r == Ended(s, store, bCommit)
<1>1. InTx(s)
  BY DEF InTx
<1>2. /\ Changing(s, store.szMax) /\ Sound(s) /\ Tx(s, store, B)
      /\ StoreTyped(store) /\ Owning(s)
      /\ ~s.memDb => s.hasHeldSharedLock
  BY <1>1, OwnTx
<1>3. Restored(s, store, B)
  BY <1>2, LockedRestored
<1>4. s.eState < PAGER_WRITER_DBMOD
  OBVIOUS
<1>5. Settled(r.s, r.m, B)
  BY <1>2, <1>3, <1>4, EndedSettles
<1>6. Ends(s, store, bCommit, r)
  BY <1>2, EndedFacts DEF Sound
<1>7. Update(p, r)
  OBVIOUS
<1>8. s.memDb => r.m = store
  BY DEF Ended
<1>9. s.memDb => store.pages = <<>>
  BY NoStore
<1> HIDE DEF r
<1>12. pager'[p] = r.s /\ store' = r.m
  BY <1>7 DEF Update, DataInv, IInv
<1> HIDE DEF s
<1>10. r.s.memDb = s.memDb /\ r.m.szMax = store.szMax
  BY ONLY <1>6 DEF Ends, SameLimit
<1>11. r.s.memDb => r.m.pages = <<>>
  BY <1>8, <1>9, <1>10
<1> QED
  BY <1>2, <1>5, <1>7, <1>10, <1>11, <1>12, SettledStep DEF s

\* The database C is what pager s has in its image.
Commits(s, m, C) ==
    C[1].vers.nPage = s.dbSize /\ \A n \in 1..s.dbSize : C[n] = Holding(s, m, n)

\* What the cache of an in-memory database holds after phase one.
LEMMA CacheCommits ==
    ASSUME NEW s, NEW m, NEW k, Finished(s, k), s.memDb, NEW B, Done(s, m, B),
           NEW C, C = CacheImage(s)
    PROVE  C \in Databases /\ Commits(s, m, C)
<1>1. Typed(s) /\ s.memDb /\ 1 \in DOMAIN s.cache /\ s.cache[1].c.vers.nPage = s.dbSize
  BY DEF Finished, Done
<1>2. s.dbSize \in Nat /\ s.dbSize <= MaxPage /\ MaxPage \in Nat
  BY <1>1, Sizes
<1>3. \A n \in DOMAIN s.cache : s.cache[n].c \in Content
  <2>1. \A n \in DOMAIN s.cache : s.cache[n] \in PageType
    BY <1>1 DEF Typed, IsCache
  <2> QED
    BY <2>1 DEF PageType
<1>4. C \in Databases
  BY <1>3, ZeroContent DEF Databases, CacheImage
<1>5. \A n \in 1..MaxPage :
         C[n] = IF n \in DOMAIN s.cache /\ n <= s.dbSize THEN s.cache[n].c ELSE Zero
  BY DEF CacheImage
<1>6. 1 \in 1..MaxPage
  BY PagerAssumption
<1>7. C[1].vers.nPage = s.dbSize
  <2>1. CASE 1 <= s.dbSize
    BY <1>1, <1>5, <1>6, <2>1
  <2>2. CASE ~(1 <= s.dbSize)
    <3>1. s.dbSize = 0
      BY <1>2, <2>2
    <3>2. C[1] = Zero
      BY <1>5, <1>6, <2>2
    <3> QED
      BY <3>1, <3>2, ZeroContent
  <2> QED
    BY <2>1, <2>2
<1>8. ASSUME NEW n \in 1..s.dbSize PROVE C[n] = Holding(s, m, n)
  <2>1. n \in 1..MaxPage /\ n <= s.dbSize
    BY <1>2
  <2> QED
    BY <1>1, <1>5, <2>1 DEF Holding
<1> QED
  BY <1>4, <1>7, <1>8 DEF Commits

\* The commit of an in-memory database leaves what the cache held.
LEMMA CacheSettles ==
    ASSUME NEW s, Typed(s), NEW k, Finished(s, k), s.memDb, NEW m, NEW C,
           C \in Databases, Commits(s, m, C), NEW r, Ends(s, m, TRUE, r),
           r.s.eState = PAGER_READER, r.s.memDb = s.memDb,
           r.s.dbSize = s.dbSize,
           1 \in DOMAIN r.s.cache => r.s.cache[1].c.vers.nPage = r.s.dbSize
    PROVE  Settled(r.s, r.m, C)
<1>1. HoldsOK(r.s, r.m, C)
  BY DEF HoldsOK, InTx
<1>2. /\ DOMAIN r.s.cache
           = DOMAIN s.cache \cap 1..(IF s.dbSize >= 1 THEN s.dbSize ELSE 1)
      /\ \A n \in DOMAIN r.s.cache :
           CleanWith(r.s.cache[n], IF n > s.dbSize THEN Zero ELSE s.cache[n].c)
  BY DEF Ends
<1>3. s.dbSize \in Nat
  BY Sizes
<1>4. ASSUME NEW n \in 1..s.dbSize PROVE Holding(r.s, r.m, n) = C[n]
  <2>1. C[n] = Holding(s, m, n) /\ n <= s.dbSize /\ ~(n > s.dbSize)
        /\ s.dbSize >= 1
    BY <1>3 DEF Commits
  <2>2. n \in DOMAIN r.s.cache <=> n \in DOMAIN s.cache
    BY <1>2, <2>1
  <2>3. n \in DOMAIN r.s.cache => r.s.cache[n].c = s.cache[n].c
    BY <1>2, <2>1 DEF CleanWith
  <2> QED
    BY <2>1, <2>2, <2>3 DEF Holding
<1>5. C[1].vers.nPage = r.s.dbSize
  BY DEF Commits
<1> QED
  BY <1>1, <1>4, <1>5 DEF Settled

\* sqlite3PagerCommitPhaseTwo
LEMMA CommitPhaseTwoKeepsStore ==
    ASSUME DataInv, DataInv', NEW B, CommittedIs(B), NEW p \in Pagers,
           CommitPhaseTwo(p)
    PROVE  /\ StoreOK'
           /\ \E C : /\ Settled(pager'[p], store', C)
                     /\ pager[p].eState = PAGER_WRITER_LOCKED => C = B
                     /\ pager[p].eState # PAGER_WRITER_LOCKED =>
                           Commits(pager[p], store, C)
<1> DEFINE s == pager[p]
           r == Ended(s, store, TRUE)
<1>1. /\ s.eState = PAGER_WRITER_LOCKED \/ s.eState = PAGER_WRITER_FINISHED
      /\ Update(p, r)
  BY DEF CommitPhaseTwo
<1>2. CASE s.eState = PAGER_WRITER_LOCKED
  <2>1. StoreOK' /\ Settled(pager'[p], store', B)
    BY <1>1, <1>2, LockedEnds
  <2> QED
    BY <1>2, <2>1
<1>4. pager'[p] = r.s /\ store' = r.m
  BY <1>1 DEF Update, DataInv, IInv
<1>3. CASE s.eState = PAGER_WRITER_FINISHED
  <2>1. LocalOK(s, store.szMax) /\ StoreTyped(store) /\ Typed(s)
    BY PagersTyped
  <2>2. Finished(s, store.szMax)
    BY <1>3, <2>1, LocalCases
  <2>3. /\ Done(s, store, B) /\ B \in Databases /\ Owning(s)
        /\ ~s.memDb => s.hasHeldSharedLock
    BY <1>3 DEF CommittedIs, HoldsOK, Owning
  <2>4. Ends(s, store, TRUE, r)
    BY <2>1, EndedFacts
  <2>5. CASE ~s.memDb
    <3>1. PICK C : C = Holdings(r.m)
      OBVIOUS
    <3>2. Settled(r.s, r.m, C) /\ Newer(store, B, C) /\ Commits(s, store, C)
      <4> HIDE DEF s
      <4>1. /\ Settled(r.s, r.m, C) /\ B[1].vers.counter < C[1].vers.counter
            /\ C[1].vers.nPage <= store.szMax /\ C[1].vers.nPage = s.dbSize
            /\ \A n \in 1..s.dbSize : C[n] = Holding(s, store, n)
        BY ONLY <2>1, <2>2, <2>3, <2>5, <3>1, DoneSettles
      <4> QED
        BY ONLY <4>1 DEF Newer, Commits
    <3> HIDE DEF r, s
    <3>3. r.s.memDb = s.memDb /\ r.m.szMax = store.szMax
      BY ONLY <2>4 DEF Ends, SameLimit
    <3>4. ~r.s.memDb
      BY <2>5, <3>3
    <3>5. StoreOK'
      BY <1>1, <2>3, <3>2, <3>3, <3>4, SettledStep DEF s
    <3> QED
      BY <1>3, <1>4, <3>2, <3>5 DEF s
  <2>6. CASE s.memDb
    <3>1. r.m = store
      BY <2>6 DEF Ended
    <3>2. store.pages = <<>>
      BY <1>3, <2>6, NoStore
    <3> HIDE DEF r, s
    <3>3. /\ r.s.eState = PAGER_READER /\ r.s.memDb = s.memDb
          /\ r.s.dbSize = s.dbSize
          /\ \A n \in DOMAIN r.s.cache :
                CleanWith(r.s.cache[n],
                          IF n > s.dbSize THEN Zero ELSE s.cache[n].c)
      BY ONLY <2>4 DEF Ends
    <3>4. ASSUME 1 \in DOMAIN r.s.cache
          PROVE  r.s.cache[1].c.vers.nPage = r.s.dbSize
      <4>1. r.s.cache[1].c = IF 1 > s.dbSize THEN Zero ELSE s.cache[1].c
        BY <3>3, <3>4 DEF CleanWith
      <4>2. s.cache[1].c.vers.nPage = s.dbSize
        BY <2>3 DEF Done
      <4>3. s.dbSize \in Nat
        BY <2>1, Sizes
      <4>4. CASE 1 > s.dbSize
        <5>1. s.dbSize = 0
          BY <4>3, <4>4
        <5> QED
          BY <3>3, <4>1, <4>4, <5>1, ZeroContent
      <4>5. CASE ~(1 > s.dbSize)
        BY <3>3, <4>1, <4>2, <4>5
      <4> QED
        BY <4>4, <4>5
    <3>5. HoldsOK(r.s, store, B)
      BY <2>6, <3>3, <3>4 DEF HoldsOK, InTx
    <3>6. pager' = [pager EXCEPT ![p] = r.s] /\ store' = store
      BY <1>1, <3>1 DEF Update
    <3>7. s.eState # NOT_OPEN /\ r.s.memDb
          /\ r.s.eState \in PAGER_READER..PAGER_WRITER_FINISHED
      BY <1>3, <2>6, <3>3
    <3>8. StoreOK'
      BY ONLY DataInv, DataInv', CommittedIs(B), p \in Pagers, <2>3, <2>6,
              <3>2, <3>5, <3>6, <3>7, MemUpdate DEF s
    <3>9. PICK C : C = CacheImage(s)
      OBVIOUS
    <3>12. Done(s, store, B)
      BY <2>3
    <3>10. C \in Databases /\ Commits(s, store, C)
      BY ONLY <2>2, <2>6, <3>9, <3>12, CacheCommits
    <3>11. Settled(r.s, r.m, C)
      BY ONLY <2>1, <2>2, <2>3, <2>4, <2>6, <3>1, <3>3, <3>4, <3>9, <3>10,
              CacheSettles
    <3>13. Commits(pager[p], store, C) /\ pager[p].eState # PAGER_WRITER_LOCKED
      BY <1>3, <3>10 DEF s
    <3>14. Settled(pager'[p], store', C)
      BY ONLY <1>4, <3>11
    <3> QED
      BY ONLY <3>8, <3>13, <3>14
  <2> QED
    BY <2>5, <2>6
<1> QED
  BY <1>1, <1>2, <1>3

\* sqlite3PagerRollback
LEMMA RollbackKeepsStore ==
    ASSUME DataInv, DataInv', NEW B, CommittedIs(B), NEW p \in Pagers,
           Rollback(p), ~FirstUndone
    PROVE  StoreOK' /\ Settled(pager'[p], store', B)
<1> DEFINE s == pager[p]
<1>1. /\ s.eState \in PAGER_WRITER_LOCKED..PAGER_WRITER_FINISHED
      /\ s.eState = PAGER_WRITER_FINISHED /\ s.dbOrigSize = 0 => s.memDb
      /\ Update(p, RolledBack(s, store))
  BY DEF Rollback
<1>2. CASE s.eState = PAGER_WRITER_LOCKED
  <2>1. RolledBack(s, store) = Ended(s, store, FALSE)
    BY <1>2 DEF RolledBack
  <2> QED
    BY <1>1, <1>2, <2>1, LockedEnds
<1>3. /\ StoreTyped(store) /\ LocalOK(s, store.szMax)
      /\ HoldsOK(s, store, B) /\ Owning(s)
  BY <1>1, PagersTyped DEF CommittedIs, Owning
<1>4. s.memDb => store.pages = <<>>
  BY <1>1, NoStore
<1>5. ~s.memDb => s.hasHeldSharedLock
  BY <1>1, <1>3 DEF HoldsOK
<1>6. CASE s.eState \in {PAGER_WRITER_CACHEMOD, PAGER_WRITER_DBMOD}
  <2>1. InTx(s) /\ s.eState # PAGER_WRITER_LOCKED
    BY <1>6 DEF InTx
  <2>2. Changing(s, store.szMax) /\ Sound(s) /\ Tx(s, store, B)
    BY <2>1, OwnTx
  <2>3. /\ 1 \in DOMAIN s.cache /\ Logged(s, store, B)
        /\ s.dbOrigSize > 0 => B[1].vers.nPage = s.dbOrigSize
        /\ ~s.memDb => Counting(s, store, B)
    BY <2>2 DEF Changing, Tx, Headed
  <2>5. s.memDb => s.eState # PAGER_WRITER_DBMOD
    BY <2>1, OwnTx
  <2>4. Undo(s, store, B)
    BY <1>5, <2>1, <2>2, <2>3, <2>5, LoggedUndo
  <2> QED
    BY <1>1, <1>3, <1>4, <2>4, UndoStep
<1>7. CASE s.eState = PAGER_WRITER_FINISHED
  <2>1. Finished(s, store.szMax) /\ Done(s, store, B)
    BY <1>3, <1>7, LocalCases DEF HoldsOK
  <2>2. ~s.memDb => s.dbOrigSize # 0 /\ s.hasHeldSharedLock
    BY <1>1, <1>5, <1>7
  <2>3. Undo(s, store, B)
    BY <2>1, <2>2, DoneUndo
  <2> QED
    BY <1>1, <1>3, <1>4, <2>3, UndoStep
<1>8. s.eState \in {PAGER_WRITER_LOCKED, PAGER_WRITER_CACHEMOD,
                    PAGER_WRITER_DBMOD, PAGER_WRITER_FINISHED}
  BY <1>1
<1> QED
  BY <1>2, <1>6, <1>7, <1>8
-----------------------------------------------------------------------------
(* The theorems.                                                           *)

\* The inductive invariant: the data of Pager_proofs, and a database to
\* which all the pagers and the store answer.
StoreInv == DataInv /\ StoreOK

\* At first no pager is open, and the empty store is the empty database.
LEMMA InitStore == Init => StoreInv
<1> SUFFICES ASSUME Init PROVE StoreInv
  OBVIOUS
<1>1. DataInv
  BY InitData
<1>2. PICK limit \in Limits : store = [Created(limit) EXCEPT !.nRef = 0]
  BY DEF Init
<1>3. store.pages = <<>>
  BY <1>2 DEF Created
<1>4. \A p \in Pagers : pager[p] = NotOpen
  BY DEF Init
<1>5. \A p \in Pagers : pager[p].eState = NOT_OPEN
  BY <1>4, EmptyTyped
<1>6. \A p \in Pagers : HoldsOK(pager[p], store, Nothing) /\ ~Owning(pager[p])
  BY <1>5 DEF HoldsOK, InTx, Owning
<1>7. /\ Nothing \in Databases
      /\ Stores(store, Len(store.pages), Nothing) /\ StoreHeaded(store)
  BY <1>3, NothingStored
<1>8. CommittedIs(Nothing)
  BY <1>3, <1>6, <1>7 DEF CommittedIs
<1> QED
  BY <1>1, <1>8 DEF StoreInv, StoreOK

\* One case per action of Next.
LEMMA StepStore ==
    ASSUME Turns, ~FirstUndone, ~LateFull, StoreInv, [Next]_vars
    PROVE  StoreInv'
<1>0. DataInv /\ DataInv' /\ StoreOK
  BY StepData DEF StoreInv
<1>1. PICK B : CommittedIs(B)
  BY <1>0 DEF StoreOK
<1>2. CASE UNCHANGED vars
  <2>1. pager' = pager /\ store' = store
    BY <1>2 DEF vars
  <2>2. StoreOK'
    BY <1>0, <2>1 DEF StoreOK, CommittedIs
  <2> QED
    BY <1>0, <2>2 DEF StoreInv
<1>3. ASSUME NEW p \in Pagers, NEW memDb \in BOOLEAN, Open(p, memDb)
      PROVE  StoreOK'
  BY ONLY <1>0, <1>1, <1>3, OpenKeepsStore DEF StoreOK
<1>4. ASSUME NEW p \in Pagers, Close(p) \/ BeginRead(p) \/ EndRead(p)
      PROVE  StoreOK'
  BY ONLY <1>0, <1>1, <1>4, CloseKeepsStore, BeginReadKeepsStore, EndReadKeepsStore DEF StoreOK
<1>5. ASSUME NEW p \in Pagers, NEW exFlag \in BOOLEAN, BeginWrite(p, exFlag)
      PROVE  StoreOK'
  BY ONLY Turns, <1>0, <1>1, <1>5, BeginWriteKeepsStore DEF StoreOK
<1>6. ASSUME NEW p \in Pagers, NEW n \in 1..MaxPage,
             Get(p, n) \/ Evict(p, n) \/ Spill(p, n)
      PROVE  StoreOK'
  BY ONLY ~LateFull, <1>0, <1>1, <1>6, GetKeepsStore, EvictKeepsStore,
          SpillKeepsStore DEF StoreOK
<1>7. ASSUME NEW p \in Pagers, NEW n \in 1..MaxPage, NEW v \in Vals,
             Write(p, n, v)
      PROVE  StoreOK'
  BY ONLY <1>0, <1>1, <1>7, WriteKeepsStore DEF StoreOK
<1>8. ASSUME NEW p \in Pagers, NEW v \in Vals, Allocate(p, v) PROVE StoreOK'
  BY ONLY <1>0, <1>1, <1>8, AllocateKeepsStore DEF StoreOK
<1>9. ASSUME NEW p \in Pagers, NEW n \in 1..MaxSavepoints, OpenSavepoint(p, n)
      PROVE  StoreOK'
  BY ONLY <1>0, <1>1, <1>9, OpenSavepointKeepsStore DEF StoreOK
<1>10. ASSUME NEW p \in Pagers, NEW n \in 0..MaxSavepoints,
              ReleaseSavepoint(p, n) \/ RollbackToSavepoint(p, n)
       PROVE  StoreOK'
  BY ONLY <1>0, <1>1, <1>10, ReleaseSavepointKeepsStore,
          RollbackToSavepointKeepsStore DEF StoreOK
<1>11. ASSUME NEW p \in Pagers, NEW size \in 1..MaxPage, CommitPhaseOne(p, size)
       PROVE  StoreOK'
  BY ONLY <1>0, <1>1, <1>11, CommitPhaseOneKeepsStore DEF StoreOK
<1>12. ASSUME NEW p \in Pagers, CommitPhaseTwo(p) \/ Rollback(p) PROVE StoreOK'
  BY ONLY ~FirstUndone, <1>0, <1>1, <1>12, CommitPhaseTwoKeepsStore,
          RollbackKeepsStore
<1>13. CASE Next
  <2>1. StoreOK'
    BY <1>13, <1>3, <1>4, <1>5, <1>6, <1>7, <1>8, <1>9, <1>10, <1>11, <1>12
       DEF Next
  <2> QED
    BY <1>0, <2>1 DEF StoreInv
<1> QED
  BY <1>2, <1>13

\* The states that TLC's properties speak of, by the invariant.
LEMMA OfState ==
    ASSUME StoreInv, NEW B, CommittedIs(B), NEW p \in Pagers
    PROVE  LET s == pager[p]
           IN  /\ Typed(s) /\ HoldsOK(s, store, B) /\ s.eState \in NOT_OPEN..PAGER_ERROR
               /\ StateOfLock(s) /\ LocalOK(s, store.szMax)
               /\ StoreTyped(store) /\ IsStore(store) /\ B \in Databases
<1>1. IInv /\ DataOK
  BY DEF StoreInv, DataInv
<1>2. Typed(pager[p]) /\ LocalOK(pager[p], store.szMax) /\ StoreTyped(store)
  BY <1>1, LocalTyped DEF DataOK
<1>3. StateOfLock(pager[p]) /\ IsStore(store)
  BY <1>1 DEF IInv, Agrees
<1>4. HoldsOK(pager[p], store, B) /\ B \in Databases
  BY DEF CommittedIs
<1> QED
  BY <1>2, <1>3, <1>4 DEF Typed

\* The part of the journal that is written has its first records.
LEMMA WrittenPart ==
    ASSUME NEW s, Typed(s), NEW i \in DOMAIN s.journal, i <= s.journalHdr
    PROVE  s.journal[i].pgno \in PagesIn(SubSeq(s.journal, 1, s.journalHdr))
<1> DEFINE part == SubSeq(s.journal, 1, s.journalHdr)
<1>1. /\ Len(s.journal) \in Nat /\ DOMAIN s.journal = 1..Len(s.journal)
      /\ s.journalHdr \in 0..Len(s.journal) /\ s.journal \in Seq(RecordType)
  BY JournalDomains DEF Typed
<1>2. i \in 1..s.journalHdr
  BY <1>1
<1>3. DOMAIN part = 1..s.journalHdr /\ part[i] = s.journal[i]
  BY <1>1, <1>2
<1> HIDE DEF part
<1>4. i \in DOMAIN part
  BY <1>2, <1>3
<1>5. part[i].pgno \in PagesIn(part)
  BY <1>4 DEF PagesIn
<1> QED
  BY <1>3, <1>5 DEF part

\* The record a rollback takes for a page is the page's content at the
\* beginning.
LEMMA OriginalOf ==
    ASSUME NEW s, NEW B,
           \A i \in DOMAIN s.journal : s.journal[i].c = B[s.journal[i].pgno],
           NEW n \in InJournal(s)
    PROVE  /\ Original(s, n) = B[n]
           /\ \E i \in DOMAIN s.journal :
                 s.journal[i].pgno = n /\ Original(s, n) = s.journal[i].c
<1> DEFINE i == CHOOSE i \in DOMAIN s.journal : s.journal[i].pgno = n
<1>1. \E k \in DOMAIN s.journal : s.journal[k].pgno = n
  BY DEF InJournal, PagesIn
<1>2. i \in DOMAIN s.journal /\ s.journal[i].pgno = n
  BY <1>1
<1>3. Original(s, n) = s.journal[i].c
  BY DEF Original
<1> HIDE DEF i
<1> QED
  BY <1>2, <1>3

\* In a transaction: what may be overwritten is written in the journal.
LEMMA AheadInTx ==
    ASSUME NEW s, Typed(s), NEW m, NEW B, ~s.memDb, Logged(s, m, B),
           NEW n \in 1..s.dbOrigSize,
           \/ n \in Dirty(s) /\ ~s.cache[n].needSync
           \/ n \in InJournal(s) /\ Read(m, n) # Original(s, n)
    PROVE  n \in PagesIn(SubSeq(s.journal, 1, s.journalHdr))
<1>1. /\ FlagsOK(s) /\ UnsyncedOK(s) /\ Unwritten(s, m, B)
      /\ \A i \in DOMAIN s.journal : s.journal[i].c = B[s.journal[i].pgno]
  BY DEF Logged, Base
<1>2. Len(s.journal) \in Nat /\ DOMAIN s.journal = 1..Len(s.journal)
      /\ s.journalHdr \in Nat
  BY JournalDomains DEF Typed
<1>3. n \in Nat /\ n <= s.dbOrigSize
  <2>1. s.dbOrigSize \in Nat
    BY DEF Typed
  <2> QED
    BY <2>1
<1>4. CASE n \in Dirty(s) /\ ~s.cache[n].needSync
  <2>1. n \in InJournal(s)
    BY <1>1, <1>3, <1>4 DEF FlagsOK, Dirty
  <2>2. PICK i \in DOMAIN s.journal : s.journal[i].pgno = n
    BY <2>1 DEF InJournal, PagesIn
  <2>3. ~(i > s.journalHdr)
    BY <1>1, <1>4, <2>2 DEF UnsyncedOK
  <2>4. i <= s.journalHdr
    BY <1>2, <2>3
  <2> QED
    BY <2>2, <2>4, WrittenPart
<1>5. CASE n \in InJournal(s) /\ Read(m, n) # Original(s, n)
  <2>1. Original(s, n) = B[n]
    BY <1>1, <1>5, OriginalOf
  <2>2. PICK i \in DOMAIN s.journal : s.journal[i].pgno = n
    BY <1>5 DEF InJournal, PagesIn
  <2>3. ~(i > s.journalHdr)
    BY <1>1, <1>5, <2>1, <2>2 DEF Unwritten
  <2>4. i <= s.journalHdr
    BY <1>2, <2>3
  <2> QED
    BY <2>2, <2>4, WrittenPart
<1> QED
  BY <1>4, <1>5

\* After phase one, and after an error, the whole journal is written.
LEMMA AheadWhole ==
    ASSUME NEW s, Typed(s), s.journalHdr = Len(s.journal), FlagsOK(s) \/ Clean(s),
           NEW n \in 1..s.dbOrigSize,
           \/ n \in Dirty(s) /\ ~s.cache[n].needSync
           \/ n \in InJournal(s)
    PROVE  n \in PagesIn(SubSeq(s.journal, 1, s.journalHdr))
<1>1. s.dbOrigSize \in Nat
  BY DEF Typed
<1>2. n \in InJournal(s)
  BY <1>1 DEF FlagsOK, Clean, Dirty
<1>3. PICK i \in DOMAIN s.journal : s.journal[i].pgno = n
  BY <1>2 DEF InJournal, PagesIn
<1>4. i <= s.journalHdr
  BY <1>3, JournalDomains
<1> QED
  BY <1>3, <1>4, WrittenPart

\* No page reaches the store before its original is synced.
LEMMA StoreWriteAhead == StoreInv => WriteAhead
<1> SUFFICES ASSUME StoreInv PROVE WriteAhead
  OBVIOUS
<1>1. PICK B : CommittedIs(B)
  BY DEF StoreInv, StoreOK
<1>2. SUFFICES ASSUME NEW p \in Pagers,
                      pager[p].eState \in PAGER_WRITER_DBMOD..PAGER_ERROR,
                      ~pager[p].memDb,
                      NEW n \in 1..pager[p].dbOrigSize,
                      \/ n \in Dirty(pager[p]) /\ ~pager[p].cache[n].needSync
                      \/ n \in InJournal(pager[p])
                         /\ Read(store, n) # Original(pager[p], n)
               PROVE  n \in PagesIn(SubSeq(pager[p].journal, 1, pager[p].journalHdr))
  BY Zenon DEF WriteAhead
<1> DEFINE s == pager[p]
<1>3. Typed(s) /\ HoldsOK(s, store, B)
  BY <1>1, OfState
<1> HIDE DEF s
<1>4. CASE s.eState = PAGER_WRITER_DBMOD
  <2>1. Logged(s, store, B)
    BY <1>3, <1>4 DEF HoldsOK, InTx, Tx
  <2> QED
    BY <1>2, <1>3, <2>1, AheadInTx DEF s
<1>5. CASE s.eState = PAGER_WRITER_FINISHED
  <2>1. Clean(s) /\ s.journalHdr = Len(s.journal)
    BY <1>2, <1>3, <1>5 DEF HoldsOK, Done, s
  <2> QED
    BY <1>2, <1>3, <2>1, AheadWhole DEF s
<1>6. CASE s.eState = PAGER_ERROR
  <2>1. FlagsOK(s) /\ s.journalHdr = Len(s.journal)
    BY <1>3, <1>6 DEF HoldsOK, Broken
  <2> QED
    BY <1>2, <1>3, <2>1, AheadWhole DEF s
<1>7. s.eState \in {PAGER_WRITER_DBMOD, PAGER_WRITER_FINISHED, PAGER_ERROR}
  BY <1>2 DEF s
<1> QED
  BY <1>4, <1>5, <1>6, <1>7

\* A reader's clean pages are the committed ones.
LEMMA StoreCacheCoherent == StoreInv => CacheCoherent
<1> SUFFICES ASSUME StoreInv PROVE CacheCoherent
  OBVIOUS
<1>1. PICK B : CommittedIs(B)
  BY DEF StoreInv, StoreOK
<1>2. SUFFICES ASSUME NEW p \in Pagers,
                      pager[p].eState \in PAGER_READER..PAGER_WRITER_FINISHED,
                      ~pager[p].memDb,
                      NEW n \in DOMAIN pager[p].cache \cap 1..pager[p].dbSize,
                      ~pager[p].cache[n].dirty
               PROVE  pager[p].cache[n].c = Read(store, n)
  BY Zenon DEF CacheCoherent
<1>0. DataInv
  BY DEF StoreInv
<1> DEFINE s == pager[p]
<1>3. Typed(s) /\ HoldsOK(s, store, B)
  BY <1>1, OfState
<1>4. n \in DOMAIN s.cache /\ n \in 1..MaxPage /\ n <= s.dbSize /\ ~s.cache[n].dirty
  BY <1>2, <1>3, PagerAssumption DEF Typed, IsCache
<1> HIDE DEF s
<1>5. CASE s.eState = PAGER_READER
  <2>1. s.cache[n].c = B[n]
    BY <1>2, <1>3, <1>4, <1>5 DEF HoldsOK, Reads, s
  <2>2. \A q \in Pagers : ~Owning(pager[q])
    BY <1>0, <1>1, <1>5, ReaderAlone DEF s
  <2>3. Read(store, n) = B[n]
    BY <1>1, <1>4, <2>2, NobodyOwns
  <2> QED
    BY <2>1, <2>3 DEF s
<1>6. CASE InTx(s)
  <2>1. Coherent(s, store)
    BY <1>2, <1>3, <1>6 DEF HoldsOK, Tx, Logged, s
  <2> QED
    BY <1>4, <2>1 DEF Coherent, s
<1>7. CASE s.eState = PAGER_WRITER_FINISHED
  <2>1. Coherent(s, store)
    BY <1>2, <1>3, <1>7 DEF HoldsOK, Done, s
  <2> QED
    BY <1>4, <2>1 DEF Coherent, s
<1>8. s.eState = PAGER_READER \/ InTx(s) \/ s.eState = PAGER_WRITER_FINISHED
  BY <1>2 DEF s, InTx
<1> QED
  BY <1>5, <1>6, <1>7, <1>8

\* An unchanged version of the store means a fresh cache.
LEMMA StoreUnchangedMeansFresh == StoreInv => UnchangedMeansFresh
<1> SUFFICES ASSUME StoreInv PROVE UnchangedMeansFresh
  OBVIOUS
<1>0. DataInv
  BY DEF StoreInv
<1>1. PICK B : CommittedIs(B)
  BY DEF StoreInv, StoreOK
<1>2. SUFFICES ASSUME NEW p \in Pagers,
                      pager[p].eState = PAGER_OPEN, store.nWrLock = 0,
                      pager[p].dbFileVers = Read(store, 1).vers,
                      NEW n \in DOMAIN pager[p].cache
               PROVE  pager[p].cache[n].c = Read(store, n)
  BY Zenon DEF UnchangedMeansFresh
<1>3. \A q \in Pagers : ~Owning(pager[q])
  BY <1>0, <1>2, LockFree
<1>4. \A i \in 1..MaxPage : Read(store, i) = B[i]
  BY <1>1, <1>3, NobodyOwns
<1>5. Typed(pager[p]) /\ HoldsOK(pager[p], store, B)
  BY <1>1, OfState
<1>6. n \in 1..MaxPage /\ 1 \in 1..MaxPage
  BY <1>5, PagerAssumption DEF Typed, IsCache
<1>7. Fresh(pager[p], store, B)
  BY <1>2, <1>5 DEF HoldsOK
<1>8. pager[p].dbFileVers = B[1].vers
  BY <1>2, <1>4, <1>6
<1>9. pager[p].cache[n].c = B[n]
  BY <1>7, <1>8 DEF Fresh
<1> QED
  BY <1>4, <1>6, <1>9

\* Page 1 of the store gives the store's size.
LEMMA StoreHeaderAgrees == StoreInv => HeaderAgrees
<1> SUFFICES ASSUME StoreInv PROVE HeaderAgrees
  OBVIOUS
<1>0. DataInv
  BY DEF StoreInv
<1>1. PICK B : CommittedIs(B)
  BY DEF StoreInv, StoreOK
<1>2. SUFFICES ASSUME NEW p \in Pagers,
                      pager[p].eState \in PAGER_READER..PAGER_WRITER_FINISHED,
                      1 \in DOMAIN pager[p].cache
               PROVE  pager[p].cache[1].c.vers.nPage = pager[p].dbSize
  BY Zenon DEF HeaderAgrees
<1> DEFINE s == pager[p]
<1>3. Typed(s) /\ HoldsOK(s, store, B) /\ StoreTyped(store)
  BY <1>1, OfState
<1> HIDE DEF s
<1>4. 1 \in 1..MaxPage
  BY PagerAssumption
<1>5. CASE s.eState = PAGER_READER /\ s.memDb
  BY <1>2, <1>3, <1>5 DEF HoldsOK, s
<1>6. CASE s.eState = PAGER_READER /\ ~s.memDb
  <2>1. s.cache[1].c = B[1] /\ s.dbSize = Len(store.pages)
    BY <1>2, <1>3, <1>6 DEF HoldsOK, Reads, s
  <2>2. \A q \in Pagers : ~Owning(pager[q])
    BY <1>0, <1>1, <1>6, ReaderAlone DEF s
  <2>3. Read(store, 1) = B[1] /\ StoreHeaded(store)
    BY <1>1, <1>4, <2>2, NobodyOwns
  <2>4. Len(store.pages) \in Nat /\ DOMAIN store.pages = 1..Len(store.pages)
    BY <1>3, LenProperties DEF StoreTyped
  <2>5. CASE store.pages = <<>>
    <3>1. Len(store.pages) = 0 /\ 1 \notin DOMAIN store.pages
      BY <2>4, <2>5
    <3>2. Read(store, 1) = Zero
      BY <3>1 DEF Read
    <3> QED
      BY <2>1, <2>3, <3>1, <3>2 DEF Zero, s
  <2>6. CASE store.pages # <<>>
    <3>1. Len(store.pages) # 0
      BY <1>3, <2>6, EmptySeq DEF StoreTyped
    <3>2. 1 \in DOMAIN store.pages
      BY <2>4, <3>1
    <3>3. Read(store, 1) = store.pages[1]
      BY <3>2 DEF Read
    <3> QED
      BY <2>1, <2>3, <2>6, <3>3 DEF StoreHeaded, s
  <2> QED
    BY <2>5, <2>6
<1>7. CASE InTx(s)
  <2>1. Headed(s, store, B)
    BY <1>3, <1>7 DEF HoldsOK, Tx
  <2> QED
    BY <2>1 DEF Headed, s
<1>8. CASE s.eState = PAGER_WRITER_FINISHED
  BY <1>3, <1>8 DEF HoldsOK, Done, s
<1>9. s.eState = PAGER_READER \/ InTx(s) \/ s.eState = PAGER_WRITER_FINISHED
  BY <1>2 DEF s, InTx
<1> QED
  BY <1>5, <1>6, <1>7, <1>8, <1>9

\* The invariant holds where nobody begins to write while another reads,
\* where the first transaction of an empty store is not undone after phase
\* one, and where no spill finds the store full after the store has changed.
\* Without each of the three TLC finds a run that breaks a property below.
LEMMA StoreInvHolds ==
    ASSUME Turns, ~FirstUndone, ~LateFull PROVE Spec => []StoreInv
<1>1. StoreInv /\ [Next]_vars => StoreInv'
  BY StepStore
<1> QED
  BY <1>1, InitStore, PTL DEF Spec

\* A page of the original database is in the written part of the journal
\* before it is overwritten in the store (pager_write, pagerStress,
\* syncJournal), in every reachable state.
THEOREM JournalGoesFirst ==
    ASSUME Turns, ~FirstUndone, ~LateFull PROVE Spec => []WriteAhead
  BY StoreInvHolds, StoreWriteAhead, PTL

\* A clean page of the cache is what the store holds, in every transaction:
\* neither another pager, a spill, nor a playback changes one without the
\* other.
THEOREM CachesAreCoherent ==
    ASSUME Turns, ~FirstUndone, ~LateFull PROVE Spec => []CacheCoherent
  BY StoreInvHolds, StoreCacheCoherent, PTL

\* A cache kept between two transactions is what the store holds whenever the
\* version that the pager remembers is the one it finds (sqlite3PagerSharedLock).
THEOREM VersionTellsFreshness ==
    ASSUME Turns, ~FirstUndone, ~LateFull PROVE Spec => []UnchangedMeansFresh
  BY StoreInvHolds, StoreUnchangedMeansFresh, PTL

\* Page 1 gives the size of the image in every transaction, also after a
\* rollback to a savepoint, from where btreeSetNPage reads it.
THEOREM HeadersAgree ==
    ASSUME Turns, ~FirstUndone, ~LateFull PROVE Spec => []HeaderAgrees
  BY StoreInvHolds, StoreHeaderAgrees, PTL

-----------------------------------------------------------------------------
(* The images.                                                             *)

\* The image of pager s, with the store m.
ImageIn(s, m) == [n \in 1..s.dbSize |-> Holding(s, m, n).val]

\* The image that is the database B.
Img(B) == [n \in 1..B[1].vers.nPage |-> B[n].val]

\* The records after the place of savepoint sp, and the first of page n.
Tails(s, sp) ==
    SubSeq(s.journal, sp.iOffset + 1, Len(s.journal))
    \o SubSeq(s.sub, sp.iSubRec + 1, Len(s.sub))

FirstIn(R, n) == SelectInSeq(R, LAMBDA r : r.pgno = n)

\* The image savepoint sp of pager s restores, with the store m.
MarkIn(s, m, sp) ==
    [n \in 1..sp.nOrig |->
        IF FirstIn(Tails(s, sp), n) = 0 THEN Holding(s, m, n).val
        ELSE Tails(s, sp)[FirstIn(Tails(s, sp), n)].c.val]

\* The images of its savepoints, while there are any to go back to.
MarksIn(s, m) ==
    IF s.eState = PAGER_WRITER_FINISHED THEN <<>>
    ELSE [i \in DOMAIN s.aSavepoint |-> MarkIn(s, m, s.aSavepoint[i])]

\* What Pager says of the images, for a pager that is given.
LEMMA SeesHolding ==
    ASSUME NEW s, NEW n PROVE Sees(s, n) = Holding(s, store, n).val
BY DEF Sees, Holding

\* The same for the whole image.
LEMMA ImageOfIn ==
    ASSUME NEW s PROVE ImageOf(s) = ImageIn(s, store)
BY SeesHolding DEF ImageOf, ImageIn

\* The same for the image of a savepoint.
LEMMA SavedImageIn ==
    ASSUME NEW s, NEW sp PROVE SavedImage(s, sp) = MarkIn(s, store, sp)
<1>1. \A n : Sees(s, n) = Holding(s, store, n).val
  BY SeesHolding
<1> QED
  BY <1>1 DEF SavedImage, MarkIn, FirstIn, Tails

\* A rollback restores the database the transaction began with.
LEMMA OriginalImageIn ==
    ASSUME NEW s, Typed(s), NEW B, Base(s, store, B),
           s.dbOrigSize > 0 => B[1].vers.nPage = s.dbOrigSize
    PROVE  OriginalImage(s) = Img(B)
<1>1. s.dbOrigSize \in Nat /\ s.dbOrigSize <= MaxPage /\ MaxPage \in Nat
      /\ 1 \in 1..MaxPage
  BY Sizes, PagerAssumption
<1>2. B[1].vers.nPage = s.dbOrigSize
  <2>1. CASE s.dbOrigSize > 0
    BY <2>1
  <2>2. CASE ~(s.dbOrigSize > 0)
    <3>1. s.dbOrigSize = 0 /\ 1 > s.dbOrigSize
      BY <1>1, <2>2
    <3>2. B[1] = Zero
      BY <1>1, <3>1 DEF Base
    <3> QED
      BY <3>1, <3>2, ZeroContent
  <2> QED
    BY <2>1, <2>2
<1>3. ASSUME NEW n \in 1..s.dbOrigSize
      PROVE  (IF n \in InJournal(s) THEN Original(s, n).val ELSE Sees(s, n))
             = B[n].val
  <2>1. CASE n \in InJournal(s)
    BY <2>1, OriginalOf DEF Base
  <2>2. CASE n \notin InJournal(s)
    <3>1. Sees(s, n) = Holding(s, store, n).val
      BY SeesHolding
    <3>2. Holding(s, store, n) = B[n]
      BY <2>2 DEF Base, Holding
    <3> QED
      BY <2>2, <3>1, <3>2
  <2> QED
    BY <2>1, <2>2
<1> QED
  BY <1>2, <1>3 DEF OriginalImage, Img

\* The owner of a transaction, whatever its state, and the database.
LEMMA OwnerFacts ==
    ASSUME DataInv, NEW B, CommittedIs(B), NEW p \in Pagers, Owning(pager[p])
    PROVE  /\ Typed(pager[p]) /\ StoreTyped(store) /\ Base(pager[p], store, B)
           /\ pager[p].dbOrigSize > 0 => B[1].vers.nPage = pager[p].dbOrigSize
           /\ \A q \in Pagers : Owning(pager[q]) => q = p
<1>1. Typed(pager[p]) /\ StoreTyped(store) /\ HoldsOK(pager[p], store, B)
  BY PagersTyped DEF CommittedIs
<1>2. \A q \in Pagers : Owning(pager[q]) => q = p
  <2> SUFFICES ASSUME NEW q \in Pagers, Owning(pager[q]), q # p PROVE FALSE
    OBVIOUS
  <2>1. pager[q].eState <= PAGER_OPEN
    BY DEF CommittedIs
  <2> QED
    BY <2>1 DEF Owning
<1>3. CASE InTx(pager[p])
  <2>1. Tx(pager[p], store, B)
    BY <1>3, OwnTx
  <2> QED
    BY <1>1, <1>2, <2>1 DEF Tx, Logged, Headed
<1>4. CASE pager[p].eState = PAGER_WRITER_FINISHED
  <2>1. Done(pager[p], store, B)
    BY <1>1, <1>4 DEF HoldsOK
  <2> QED
    BY <1>1, <1>2, <2>1 DEF Done
<1>5. CASE pager[p].eState = PAGER_ERROR
  <2>1. Broken(pager[p], store, B)
    BY <1>1, <1>5 DEF HoldsOK
  <2> QED
    BY <1>1, <1>2, <2>1 DEF Broken
<1>6. InTx(pager[p]) \/ pager[p].eState \in {PAGER_WRITER_FINISHED, PAGER_ERROR}
  BY DEF Owning, InTx
<1> QED
  BY <1>3, <1>4, <1>5, <1>6

\* What the mapping sees of a transaction: the database it began with, and
\* the image and the savepoints of its owner.
SeenOwned ==
    \A B : \A p \in Pagers :
        CommittedIs(B) /\ Owning(pager[p]) =>
            /\ TheOwner = p /\ Committed = Img(B)
            /\ Working = ImageIn(pager[p], store)
            /\ Marks = MarksIn(pager[p], store)

\* What it sees between two transactions: the store, or the cache of the
\* pager of an in-memory database.
SeenIdle ==
    (\A p \in Pagers : ~Owning(pager[p])) =>
        /\ TheOwner = None /\ Working = <<>> /\ Marks = <<>>
        /\ \A p \in Pagers :
              pager[p].memDb => Committed = ImageIn(pager[p], store)
        /\ (\A p \in Pagers : ~pager[p].memDb) =>
              /\ Committed = [n \in DOMAIN store.pages |-> store.pages[n].val]
              /\ \A B : CommittedIs(B) => Committed = Img(B)

\* The mapping in a transaction.
LEMMA StoreSeenOwned == StoreInv => SeenOwned
<1> SUFFICES ASSUME StoreInv, NEW p \in Pagers, NEW B, CommittedIs(B),
                    Owning(pager[p])
             PROVE  /\ TheOwner = p /\ Committed = Img(B)
                    /\ Working = ImageIn(pager[p], store)
                    /\ Marks = MarksIn(pager[p], store)
  BY DEF SeenOwned
<1>1. /\ Typed(pager[p]) /\ Base(pager[p], store, B)
      /\ pager[p].dbOrigSize > 0 => B[1].vers.nPage = pager[p].dbOrigSize
      /\ \A q \in Pagers : Owning(pager[q]) => q = p
  BY OwnerFacts DEF StoreInv
<1>2. \A q : HasTransaction(q) <=> Owning(pager[q])
  BY DEF HasTransaction, Owning
<1>3. TheOwner = p
  BY <1>1, <1>2 DEF TheOwner
<1>4. p # None
  BY PagerAssumption
<1>5. Committed = OriginalImage(pager[p])
  BY <1>3, <1>4 DEF Committed
<1>6. OriginalImage(pager[p]) = Img(B)
  BY <1>1, OriginalImageIn
<1>7. Working = ImageIn(pager[p], store)
  BY <1>3, <1>4, ImageOfIn DEF Working
<1>8. Marks = MarksIn(pager[p], store)
  <2>1. \A sp : SavedImage(pager[p], sp) = MarkIn(pager[p], store, sp)
    BY SavedImageIn
  <2> QED
    BY <1>3, <1>4, <2>1 DEF Marks, MarksIn
<1> QED
  BY <1>3, <1>5, <1>6, <1>7, <1>8

\* The database a store holds is its pages.
LEMMA StoredImage ==
    ASSUME NEW m, StoreTyped(m), NEW B, Stores(m, Len(m.pages), B), StoreHeaded(m)
    PROVE  Img(B) = [n \in DOMAIN m.pages |-> m.pages[n].val]
<1>1. /\ Len(m.pages) \in Nat /\ DOMAIN m.pages = 1..Len(m.pages)
      /\ Len(m.pages) <= MaxPage /\ MaxPage \in Nat /\ 1 \in 1..MaxPage
  BY LenProperties, PagerAssumption DEF StoreTyped
<1>2. B[1].vers.nPage = Len(m.pages)
  <2>1. Read(m, 1) = B[1]
    BY <1>1 DEF Stores
  <2>2. CASE m.pages = <<>>
    <3>1. 1 \notin DOMAIN m.pages
      BY <2>2, EmptySeq
    <3>2. B[1] = Zero
      BY <2>1, <3>1 DEF Read
    <3>3. Len(m.pages) = 0
      BY <2>2, EmptySeq
    <3> QED
      BY <3>2, <3>3, ZeroContent
  <2>3. CASE m.pages # <<>>
    <3>1. 1 \in DOMAIN m.pages
      <4>1. Len(m.pages) # 0
        BY <2>3, EmptySeq DEF StoreTyped
      <4> QED
        BY ONLY <1>1, <4>1
    <3>2. B[1] = m.pages[1]
      BY <2>1, <3>1 DEF Read
    <3> QED
      BY <2>3, <3>2 DEF StoreHeaded
  <2> QED
    BY <2>2, <2>3
<1>3. ASSUME NEW n \in 1..Len(m.pages) PROVE B[n].val = m.pages[n].val
  <2>1. n \in DOMAIN m.pages /\ n \in 1..MaxPage
    BY <1>1
  <2>2. Read(m, n) = B[n] /\ Read(m, n) = m.pages[n]
    BY <2>1 DEF Stores, Read
  <2> QED
    BY <2>2
<1> QED
  BY <1>1, <1>2, <1>3 DEF Img

\* The mapping between two transactions.
LEMMA StoreSeenIdle == StoreInv => SeenIdle
<1> SUFFICES ASSUME StoreInv, \A p \in Pagers : ~Owning(pager[p])
             PROVE  /\ TheOwner = None /\ Working = <<>> /\ Marks = <<>>
                    /\ \A p \in Pagers :
                          pager[p].memDb => Committed = ImageIn(pager[p], store)
                    /\ (\A p \in Pagers : ~pager[p].memDb) =>
                          /\ Committed = [n \in DOMAIN store.pages |->
                                             store.pages[n].val]
                          /\ \A B : CommittedIs(B) => Committed = Img(B)
  BY DEF SeenIdle
<1>1. \A q \in Pagers : ~HasTransaction(q)
  BY DEF HasTransaction, Owning
<1>2. TheOwner = None
  BY <1>1 DEF TheOwner
<1>3. Working = <<>> /\ Marks = <<>>
  BY <1>2 DEF Working, Marks
<1> DEFINE private == {q \in Pagers : pager[q].memDb}
<1>4. Committed = IF private # {} THEN ImageOf(pager[CHOOSE q \in private : TRUE])
                  ELSE [n \in DOMAIN store.pages |-> store.pages[n].val]
  BY <1>2 DEF Committed
<1>5. ASSUME NEW p \in Pagers, pager[p].memDb
      PROVE  Committed = ImageIn(pager[p], store)
  <2>1. pager[p].eState # NOT_OPEN
    <3>1. StateOfLock(pager[p])
      BY PagersTyped DEF StoreInv
    <3> QED
      BY ONLY <1>5, <3>1 DEF StateOfLock
  <2>2. \A q \in Pagers \ {p} : pager[q] = NotOpen
    BY <1>5, <2>1, OpenOnes DEF StoreInv
  <2>3. NotOpen.memDb = FALSE
    BY DEF NotOpen
  <2>4. private = {p}
    BY <1>5, <2>2, <2>3
  <2>5. Committed = ImageOf(pager[p])
    BY <1>4, <2>4
  <2> QED
    BY <2>5, ImageOfIn
<1>6. (\A p \in Pagers : ~pager[p].memDb)
         => Committed = [n \in DOMAIN store.pages |-> store.pages[n].val]
  <2>1. (\A p \in Pagers : ~pager[p].memDb) => private = {}
    OBVIOUS
  <2> QED
    BY <1>4, <2>1
<1>7. ASSUME \A p \in Pagers : ~pager[p].memDb, NEW B, CommittedIs(B)
      PROVE  Committed = Img(B)
  <2>1. Stores(store, Len(store.pages), B) /\ StoreHeaded(store)
    BY <1>7, NobodyOwns
  <2>2. StoreTyped(store)
    BY DEF StoreInv, DataInv, DataOK
  <2>3. Img(B) = [n \in DOMAIN store.pages |-> store.pages[n].val]
    BY <2>1, <2>2, StoredImage
  <2> QED
    BY <1>6, <1>7, <2>3
<1> QED
  BY <1>2, <1>3, <1>5, <1>6, <1>7

\* The invariant and what the mapping sees by it.
Seen == StoreInv /\ SeenOwned /\ SeenIdle
-----------------------------------------------------------------------------
(* Steps the mapping does not see.                                         *)

\* A step of the abstract store, or none.
Refines == TheStore!Next \/ UNCHANGED TheStore!storeVars

\* What stays the same has the same images.
LEMMA SteadyImages ==
    ASSUME NEW s, Typed(s), NEW m, NEW t, NEW k, Steady(s, m, t, k),
           s.eState = PAGER_WRITER_FINISHED <=> t.eState = PAGER_WRITER_FINISHED,
           s.eState # PAGER_WRITER_FINISHED => Grown(s)
    PROVE  ImageIn(t, k) = ImageIn(s, m) /\ MarksIn(t, k) = MarksIn(s, m)
<1>1. /\ t.dbSize = s.dbSize /\ t.journal = s.journal /\ t.sub = s.sub
      /\ t.aSavepoint = s.aSavepoint
      /\ \A n \in 1..s.dbSize : Holding(t, k, n) = Holding(s, m, n)
  BY DEF Steady
<1>2. ImageIn(t, k) = ImageIn(s, m)
  BY <1>1 DEF ImageIn
<1>3. CASE s.eState = PAGER_WRITER_FINISHED
  BY <1>2, <1>3 DEF MarksIn
<1>4. CASE s.eState # PAGER_WRITER_FINISHED
  <2>1. ASSUME NEW i \in DOMAIN s.aSavepoint
        PROVE  MarkIn(t, k, s.aSavepoint[i]) = MarkIn(s, m, s.aSavepoint[i])
    <3> DEFINE sp == s.aSavepoint[i]
    <3>1. sp.nOrig \in Nat /\ sp.nOrig <= s.dbSize /\ s.dbSize \in Nat
      BY <1>4, JournalDomains, Sizes DEF Grown, MarkType
    <3> HIDE DEF sp
    <3>2. \A n \in 1..sp.nOrig : Holding(t, k, n) = Holding(s, m, n)
      BY <1>1, <3>1
    <3>3. Tails(t, sp) = Tails(s, sp)
      BY ONLY <1>1 DEF Tails
    <3>4. MarkIn(t, k, sp) = MarkIn(s, m, sp)
      BY ONLY <3>2, <3>3 DEF MarkIn
    <3> QED
      BY <3>4 DEF sp
  <2> QED
    BY <1>1, <1>2, <1>4, <2>1 DEF MarksIn
<1> QED
  BY <1>3, <1>4

\* What the mapping sees of the owner before and after a step.
LEMMA SeenOf ==
    ASSUME Seen, NEW B, CommittedIs(B), NEW p \in Pagers, Owning(pager[p])
    PROVE  /\ TheOwner = p /\ Committed = Img(B)
           /\ Working = ImageIn(pager[p], store)
           /\ Marks = MarksIn(pager[p], store)
           /\ TheOwner # None
<1>1. p # None
  BY PagerAssumption
<1> QED
  BY <1>1 DEF Seen, SeenOwned

\* The same after the step.
LEMMA SeenNext ==
    ASSUME Seen', NEW B, CommittedIs(B)', NEW p \in Pagers, Owning(pager'[p])
    PROVE  /\ TheOwner' = p /\ Committed' = Img(B)
           /\ Working' = ImageIn(pager'[p], store')
           /\ Marks' = MarksIn(pager'[p], store')
  BY DEF Seen, SeenOwned

\* A step that keeps the images of the owner of the transaction.
LEMMA SteadyRefines ==
    ASSUME Seen, Seen', NEW B, CommittedIs(B), CommittedIs(B)',
           NEW p \in Pagers, Owning(pager[p]), Owning(pager'[p]),
           pager[p].eState = PAGER_WRITER_FINISHED
               <=> pager'[p].eState = PAGER_WRITER_FINISHED,
           Steady(pager[p], store, pager'[p], store')
    PROVE  Refines
<1>1. DataInv
  BY DEF Seen, StoreInv
<1>2. pager[p].eState # PAGER_WRITER_FINISHED => Grown(pager[p])
  <2>1. HoldsOK(pager[p], store, B)
    BY DEF CommittedIs
  <2>2. CASE InTx(pager[p])
    BY <1>1, <2>2, OwnTx DEF Tx
  <2>3. CASE pager[p].eState = PAGER_ERROR
    BY <2>1, <2>3 DEF HoldsOK, Broken
  <2> QED
    BY <2>2, <2>3 DEF Owning, InTx
<1>3. Typed(pager[p])
  BY <1>1, PagersTyped
<1>4. /\ ImageIn(pager'[p], store') = ImageIn(pager[p], store)
      /\ MarksIn(pager'[p], store') = MarksIn(pager[p], store)
  BY <1>2, <1>3, SteadyImages
<1>5. /\ TheOwner = p /\ Committed = Img(B)
      /\ Working = ImageIn(pager[p], store)
      /\ Marks = MarksIn(pager[p], store)
  BY SeenOf
<1>6. /\ TheOwner' = p /\ Committed' = Img(B)
      /\ Working' = ImageIn(pager'[p], store')
      /\ Marks' = MarksIn(pager'[p], store')
  BY SeenNext
<1> QED
  BY ONLY <1>4, <1>5, <1>6 DEF Refines, TheStore!storeVars
-----------------------------------------------------------------------------
(* The end of a transaction.                                               *)

\* What the mapping sees when a transaction has ended.
LEMMA SettledSeen ==
    ASSUME Seen', NEW p \in Pagers, NEW C, Settled(pager'[p], store', C)
    PROVE  /\ TheOwner' = None /\ Working' = <<>> /\ Marks' = <<>>
           /\ Committed' = Img(C)
<1> DEFINE t == pager'[p]
           k == store'
<1>1. StoreInv' /\ SeenIdle'
  BY DEF Seen
<1>2. /\ t.eState = PAGER_READER /\ C \in Databases
      /\ t.memDb => /\ C[1].vers.nPage = t.dbSize
                    /\ \A n \in 1..t.dbSize : Holding(t, k, n) = C[n]
      /\ ~t.memDb => Stores(k, Len(k.pages), C) /\ StoreHeaded(k)
  BY DEF Settled
<1>3. IInv' /\ DataOK' /\ StoreOK'
  BY <1>1 DEF StoreInv, DataInv
<1>4. \A q \in Pagers : ~Owning(pager'[q])
  <2>1. PICK D : CommittedIs(D)'
    BY <1>3 DEF StoreOK
  <2>2. ~(t.eState <= PAGER_OPEN) /\ ~Owning(t)
    BY <1>2 DEF Owning
  <2> QED
    BY <2>1, <2>2 DEF CommittedIs
<1>5. CASE t.memDb
  <2>1. Committed' = ImageIn(t, k)
    BY <1>1, <1>4, <1>5 DEF SeenIdle
  <2>2. ImageIn(t, k) = Img(C)
    BY <1>2, <1>5 DEF ImageIn, Img
  <2> QED
    BY <1>1, <1>4, <2>1, <2>2 DEF SeenIdle
<1>6. CASE ~t.memDb
  <2>1. \A q \in Pagers : ~pager'[q].memDb
    BY <1>2, <1>3, <1>6 DEF IInv, MemDbAlone
  <2>2. Committed' = [n \in DOMAIN k.pages |-> k.pages[n].val]
    BY <1>1, <1>4, <2>1 DEF SeenIdle
  <2>3. Img(C) = [n \in DOMAIN k.pages |-> k.pages[n].val]
    BY <1>2, <1>3, <1>6, StoredImage DEF DataOK
  <2> QED
    BY <1>1, <1>4, <2>2, <2>3 DEF SeenIdle
<1> QED
  BY <1>5, <1>6

\* A transaction that leaves the database it began with is rolled back.
LEMMA UndoneRefines ==
    ASSUME Seen, Seen', NEW B, CommittedIs(B), NEW p \in Pagers,
           Owning(pager[p]), Settled(pager'[p], store', B)
    PROVE  Refines
<1>1. Committed = Img(B) /\ TheOwner # None
  BY SeenOf
<1>2. /\ TheOwner' = None /\ Working' = <<>> /\ Marks' = <<>>
      /\ Committed' = Img(B)
  BY SettledSeen
<1>3. TheStore!Rollback
  BY ONLY <1>1, <1>2 DEF TheStore!Rollback, TheStore!End
<1> QED
  BY ONLY <1>1, <1>3 DEF Refines, TheStore!Next, TheStore!Working

\* One that leaves its image is committed.
LEMMA DoneRefines ==
    ASSUME Seen, Seen', NEW B, CommittedIs(B), NEW p \in Pagers,
           Owning(pager[p]), NEW C, Settled(pager'[p], store', C),
           Commits(pager[p], store, C)
    PROVE  Refines
<1>1. Working = ImageIn(pager[p], store) /\ TheOwner # None
  BY SeenOf
<1>2. /\ TheOwner' = None /\ Working' = <<>> /\ Marks' = <<>>
      /\ Committed' = Img(C)
  BY SettledSeen
<1>3. ImageIn(pager[p], store) = Img(C)
  BY DEF Commits, ImageIn, Img
<1>4. TheStore!Commit
  BY ONLY <1>1, <1>2, <1>3 DEF TheStore!Commit, TheStore!End
<1> QED
  BY ONLY <1>1, <1>4 DEF Refines, TheStore!Next, TheStore!Working

\* sqlite3PagerRollback
LEMMA RollbackRefines ==
    ASSUME Seen, Seen', NEW p \in Pagers, Rollback(p), ~FirstUndone
    PROVE  Refines
<1>1. PICK B : CommittedIs(B)
  BY DEF Seen, StoreInv, StoreOK
<1>2. DataInv /\ DataInv'
  BY DEF Seen, StoreInv
<1>3. Settled(pager'[p], store', B)
  BY <1>1, <1>2, RollbackKeepsStore
<1>4. Owning(pager[p])
  BY DEF Rollback, Owning
<1> QED
  BY <1>1, <1>3, <1>4, UndoneRefines

\* sqlite3PagerCommitPhaseTwo
LEMMA CommitPhaseTwoRefines ==
    ASSUME Seen, Seen', NEW p \in Pagers, CommitPhaseTwo(p)
    PROVE  Refines
<1>1. PICK B : CommittedIs(B)
  BY DEF Seen, StoreInv, StoreOK
<1>2. DataInv /\ DataInv'
  BY DEF Seen, StoreInv
<1>3. PICK C : /\ Settled(pager'[p], store', C)
               /\ pager[p].eState = PAGER_WRITER_LOCKED => C = B
               /\ pager[p].eState # PAGER_WRITER_LOCKED =>
                     Commits(pager[p], store, C)
  BY <1>1, <1>2, CommitPhaseTwoKeepsStore
<1>4. Owning(pager[p])
  BY DEF CommitPhaseTwo, Owning
<1>5. CASE pager[p].eState = PAGER_WRITER_LOCKED
  BY <1>1, <1>3, <1>4, <1>5, UndoneRefines
<1>6. CASE pager[p].eState # PAGER_WRITER_LOCKED
  BY <1>1, <1>3, <1>4, <1>6, DoneRefines
<1> QED
  BY <1>5, <1>6
-----------------------------------------------------------------------------
(* Steps of the others, and between two transactions.                      *)

\* A step that the owner of the transaction takes no part in.
LEMMA OthersRefine ==
    ASSUME Seen, Seen', NEW B, CommittedIs(B), CommittedIs(B)',
           NEW q \in Pagers, Owning(pager[q]), pager'[q] = pager[q],
           store'.pages = store.pages
    PROVE  Refines
<1>1. \A n : Read(store', n) = Read(store, n)
  BY DEF Read
<1>2. Steady(pager[q], store, pager'[q], store')
  BY <1>1 DEF Steady, Holding
<1>3. Owning(pager'[q])
  OBVIOUS
<1> QED
  BY ONLY Seen, Seen', CommittedIs(B), CommittedIs(B)', q \in Pagers,
          Owning(pager[q]), pager'[q] = pager[q], <1>2, <1>3, SteadyRefines

\* Between two transactions nothing is seen but the database, which may only
\* vanish.
LEMMA IdleRefines ==
    ASSUME Seen, Seen', \A q \in Pagers : ~Owning(pager[q]) /\ ~Owning(pager'[q]),
           Committed' \in {Committed, <<>>}
    PROVE  Refines
<1>1. TheOwner = None /\ Working = <<>> /\ Marks = <<>>
  BY DEF Seen, SeenIdle
<1>2. TheOwner' = None /\ Working' = <<>> /\ Marks' = <<>>
  BY DEF Seen, SeenIdle
<1>3. CASE Committed' = Committed
  BY ONLY <1>1, <1>2, <1>3 DEF Refines, TheStore!storeVars
<1>4. CASE Committed' = <<>>
  BY ONLY <1>1, <1>2, <1>4 DEF Refines, TheStore!Next, TheStore!Vanish
<1> QED
  BY <1>3, <1>4

\* A step on the store of a pager that has no transaction.
LEMMA ReaderRefines ==
    ASSUME Seen, Seen', NEW B, CommittedIs(B), CommittedIs(B)',
           NEW p \in Pagers, NEW t, pager' = [pager EXCEPT ![p] = t],
           store'.pages = store.pages, ~Owning(pager[p]), ~Owning(t), ~t.memDb,
           \A q \in Pagers : ~pager[q].memDb
    PROVE  Refines
<1>1. \A q \in Pagers : pager'[q] = IF q = p THEN t ELSE pager[q]
  BY DEF Seen, StoreInv, DataInv, IInv
<1>2. CASE \E q \in Pagers : Owning(pager[q])
  <2>1. PICK q \in Pagers : Owning(pager[q])
    BY <1>2
  <2>2. pager'[q] = pager[q]
    BY <1>1, <2>1
  <2> QED
    BY ONLY Seen, Seen', CommittedIs(B), CommittedIs(B)', q \in Pagers, <2>1,
            <2>2, store'.pages = store.pages, OthersRefine
<1>3. CASE ~\E q \in Pagers : Owning(pager[q])
  <2>1. \A q \in Pagers : ~Owning(pager[q]) /\ ~Owning(pager'[q])
    BY <1>1, <1>3
  <2>2. \A q \in Pagers : ~pager[q].memDb /\ ~pager'[q].memDb
    BY <1>1
  <2>3. Committed = Img(B)
    BY <2>1, <2>2 DEF Seen, SeenIdle
  <2>4. Committed' = Img(B)
    BY <2>1, <2>2 DEF Seen, SeenIdle
  <2> QED
    BY <2>1, <2>3, <2>4, IdleRefines
<1> QED
  BY <1>2, <1>3

\* sqlite3PagerOpen
LEMMA OpenRefines ==
    ASSUME Seen, Seen', NEW p \in Pagers, NEW memDb \in BOOLEAN, Open(p, memDb)
    PROVE  Refines
<1> DEFINE t == OpenedPager(memDb)
<1>1. PICK B : CommittedIs(B)
  BY DEF Seen, StoreInv, StoreOK
<1>2. DataInv /\ DataInv' /\ IInv /\ IInv' /\ StoreTyped(store)
  BY DEF Seen, StoreInv, DataInv, DataOK
<1>3. CommittedIs(B)'
  BY <1>1, <1>2, OpenKeepsStore
<1>4. /\ pager' = [pager EXCEPT ![p] = t] /\ pager[p].eState = NOT_OPEN
      /\ \A q \in Pagers : IF memDb THEN pager[q].eState = NOT_OPEN
                                    ELSE ~pager[q].memDb
      /\ store' = CASE memDb -> store
                    [] ~memDb /\ store.nRef = 0 -> Created(store.szMax)
                    [] OTHER -> Shared(store)
  BY DEF Open
<1>5. /\ t.eState = IF memDb THEN PAGER_READER ELSE PAGER_OPEN
      /\ t.memDb = memDb /\ t.dbSize = 0
  BY DEF OpenedPager, NotOpen
<1> HIDE DEF t
<1>6. ~Owning(pager[p]) /\ ~Owning(t)
  BY <1>4, <1>5 DEF Owning
<1>7. pager'[p] = t /\ \A q \in Pagers \ {p} : pager'[q] = pager[q]
  BY <1>2, <1>4 DEF IInv
<1>8. store.nRef = 0 => store.pages = <<>>
  BY <1>1 DEF CommittedIs
<1>9. store'.pages = store.pages
  BY <1>2, <1>4, <1>8 DEF Created, Shared, StoreTyped
<1>10. CASE ~memDb
  BY <1>1, <1>3, <1>4, <1>5, <1>6, <1>9, <1>10, ReaderRefines
<1>11. CASE memDb
  <2>1. \A q \in Pagers : ~Owning(pager[q]) /\ ~Owning(pager'[q])
    BY <1>4, <1>6, <1>7, <1>11 DEF Owning
  <2>2. Committed' = ImageIn(t, store')
    BY <1>5, <1>7, <1>11, <2>1 DEF Seen, SeenIdle
  <2>3. ImageIn(t, store') = <<>>
    BY <1>5 DEF ImageIn
  <2> QED
    BY <2>1, <2>2, <2>3, IdleRefines
<1> QED
  BY <1>10, <1>11

\* sqlite3PagerClose
LEMMA CloseRefines ==
    ASSUME Seen, Seen', NEW p \in Pagers, Close(p)
    PROVE  Refines
<1>1. PICK B : CommittedIs(B)
  BY DEF Seen, StoreInv, StoreOK
<1>2. DataInv /\ DataInv' /\ IInv /\ IInv'
  BY DEF Seen, StoreInv, DataInv
<1>3. \/ CommittedIs(B)' /\ store'.pages = store.pages
      \/ store'.pages = <<>> /\ \A q \in Pagers : ~Owning(pager[q])
  BY <1>1, <1>2, CloseKeepsStore
<1>4. /\ pager' = [pager EXCEPT ![p] = NotOpen]
      /\ pager[p].eState = IF pager[p].memDb THEN PAGER_READER ELSE PAGER_OPEN
      /\ store' = IF pager[p].memDb THEN store ELSE Closed(store)
  BY DEF Close
<1>5. ~Owning(pager[p]) /\ ~Owning(NotOpen) /\ ~NotOpen.memDb
      /\ pager[p].eState # NOT_OPEN
  BY <1>4, EmptyTyped DEF Owning
<1>6. \A q \in Pagers : pager'[q] = IF q = p THEN NotOpen ELSE pager[q]
  BY <1>2, <1>4 DEF IInv
<1>7. CASE ~pager[p].memDb /\ CommittedIs(B)' /\ store'.pages = store.pages
  <2>1. \A q \in Pagers : ~pager[q].memDb
    BY <1>2, <1>5, <1>7, OpenOnes
  <2> QED
    BY <1>1, <1>4, <1>5, <1>7, <2>1, ReaderRefines
<1>8. CASE \/ pager[p].memDb
           \/ store'.pages = <<>> /\ \A q \in Pagers : ~Owning(pager[q])
  <2>1. /\ store'.pages = <<>>
        /\ \A q \in Pagers : ~Owning(pager[q]) /\ ~pager'[q].memDb
    <3>1. CASE pager[p].memDb
      <4>1. store.pages = <<>> /\ \A q \in Pagers \ {p} : pager[q] = NotOpen
        BY <1>1, <1>2, <1>5, <3>1, NoStore
      <4> QED
        BY <1>4, <1>5, <1>6, <3>1, <4>1
    <3>2. CASE ~pager[p].memDb
      <4>1. \A q \in Pagers : ~pager[q].memDb
        BY <1>2, <1>5, <3>2, OpenOnes
      <4> QED
        BY <1>5, <1>6, <1>8, <3>2, <4>1
    <3> QED
      BY <3>1, <3>2
  <2>2. \A q \in Pagers : ~Owning(pager'[q])
    BY <1>5, <1>6, <2>1
  <2>3. Committed' = [n \in DOMAIN store'.pages |-> store'.pages[n].val]
    BY <2>1, <2>2 DEF Seen, SeenIdle
  <2>4. DOMAIN store'.pages = 1..0
    <3>1. DOMAIN store'.pages = {}
      BY <2>1, EmptySeq
    <3>2. 1..0 = {}
      OBVIOUS
    <3> QED
      BY <3>1, <3>2
  <2>5. Committed' = <<>>
    BY <2>3, <2>4
  <2> QED
    BY <2>1, <2>2, <2>5, IdleRefines
<1> QED
  BY <1>3, <1>7, <1>8

\* A page that is read changes neither the state of a pager nor what it is.
LEMMA FetchedState ==
    ASSUME NEW s, {"eState", "memDb"} \subseteq DOMAIN s, NEW m, NEW n
    PROVE  LET t == Fetched(s, m, n)
           IN  t.eState = s.eState /\ t.memDb = s.memDb
BY DEF Fetched

\* sqlite3PagerSharedLock, and lockBtree
LEMMA BeginReadRefines ==
    ASSUME Seen, Seen', NEW p \in Pagers, BeginRead(p)
    PROVE  Refines
<1>1. PICK B : CommittedIs(B)
  BY DEF Seen, StoreInv, StoreOK
<1>2. DataInv /\ DataInv' /\ StoreTyped(store)
  BY DEF Seen, StoreInv, DataInv, DataOK
<1>3. CommittedIs(B)'
  BY <1>1, <1>2, BeginReadKeepsStore
<1>4. PICK r : /\ r = [pager[p] EXCEPT
                     !.eState = PAGER_READER, !.eLock = SHARED_LOCK,
                     !.hasHeldSharedLock = TRUE, !.dbSize = Len(store.pages),
                     !.cache = IF pager[p].hasHeldSharedLock
                                  /\ pager[p].dbFileVers # Read(store, 1).vers
                               THEN <<>> ELSE @]
               /\ pager' = [pager EXCEPT ![p] = Fetched(r, store, 1)]
               /\ store' = Locked(store, NO_LOCK, SHARED_LOCK)
               /\ pager[p].eState = PAGER_OPEN
  BY DEF BeginRead
<1>5. Typed(pager[p]) /\ StateOfLock(pager[p])
  BY <1>2, PagersTyped
<1>6. ~pager[p].memDb
  BY ONLY <1>4, <1>5 DEF StateOfLock
<1>7. /\ {"eState", "memDb"} \subseteq DOMAIN r
      /\ r.eState = PAGER_READER /\ r.memDb = pager[p].memDb
  BY <1>4, <1>5 DEF Typed, Fields
<1>8. PICK t : t = Fetched(r, store, 1)
  OBVIOUS
<1>9. t.eState = PAGER_READER /\ ~t.memDb
  BY <1>6, <1>7, <1>8, FetchedState
<1>10. ~Owning(t) /\ ~Owning(pager[p])
  BY <1>4, <1>9 DEF Owning
<1>11. store'.pages = store.pages
  BY <1>2, <1>4, LockedFacts
<1>12. \A q \in Pagers : ~pager[q].memDb
  <2>1. pager[p].eState # NOT_OPEN
    BY <1>4
  <2> QED
    BY <1>2, <1>6, <2>1, OpenOnes
<1>13. pager' = [pager EXCEPT ![p] = t]
  BY <1>4, <1>8
<1> QED
  BY ONLY Seen, Seen', p \in Pagers, <1>1, <1>3, <1>9, <1>10, <1>11, <1>12,
          <1>13, ReaderRefines

\* pagerUnlockAndRollback
LEMMA EndReadRefines ==
    ASSUME Seen, Seen', NEW p \in Pagers, EndRead(p)
    PROVE  Refines
<1>1. PICK B : CommittedIs(B)
  BY DEF Seen, StoreInv, StoreOK
<1>2. DataInv /\ DataInv' /\ IInv /\ StoreTyped(store)
  BY DEF Seen, StoreInv, DataInv, DataOK
<1>3. CommittedIs(B)'
  BY <1>1, <1>2, EndReadKeepsStore
<1>4. /\ pager[p].eState \in {PAGER_READER, PAGER_ERROR} /\ ~pager[p].memDb
      /\ pager' = [pager EXCEPT ![p] = Unlocked(pager[p], store).s]
      /\ store' = Unlocked(pager[p], store).m
  BY DEF EndRead, Update
<1>5. PICK t : t = Unlocked(pager[p], store).s
  OBVIOUS
<1>6. /\ t.eState = PAGER_OPEN /\ t.memDb = pager[p].memDb
      /\ store' = Locked(store, pager[p].eLock, NO_LOCK)
  BY <1>2, <1>4, <1>5, PagersTyped, UnlockedFacts
<1>7. store'.pages = store.pages
  BY <1>2, <1>6, LockedFacts
<1>8. \A q \in Pagers : ~pager[q].memDb
  BY <1>2, <1>4, OpenOnes
<1>9. pager' = [pager EXCEPT ![p] = t] /\ ~Owning(t) /\ ~t.memDb
  BY <1>4, <1>5, <1>6 DEF Owning
<1>10. CASE pager[p].eState = PAGER_READER
  <2>1. ~Owning(pager[p])
    BY <1>10 DEF Owning
  <2> QED
    BY ONLY Seen, Seen', p \in Pagers, <1>1, <1>3, <1>7, <1>8, <1>9, <2>1,
            ReaderRefines
<1>11. CASE pager[p].eState = PAGER_ERROR
  <2>1. Owning(pager[p])
    BY <1>11 DEF Owning
  <2>2. Committed = Img(B) /\ TheOwner # None
    BY <1>1, <2>1, SeenOf
  <2>3. \A q \in Pagers : pager'[q] = IF q = p THEN t ELSE pager[q]
    BY <1>2, <1>9 DEF IInv
  <2>4. \A q \in Pagers : Owning(pager[q]) => q = p
    BY <1>1, <1>2, <2>1, OwnerFacts
  <2>5. \A q \in Pagers : ~Owning(pager'[q]) /\ ~pager'[q].memDb
    BY <1>8, <1>9, <2>3, <2>4
  <2>6. /\ TheOwner' = None /\ Working' = <<>> /\ Marks' = <<>>
        /\ Committed' = Img(B)
    BY <1>3, <2>5 DEF Seen, SeenIdle
  <2>7. TheStore!Rollback
    BY ONLY <2>2, <2>6 DEF TheStore!Rollback, TheStore!End
  <2> QED
    BY ONLY <2>2, <2>7 DEF Refines, TheStore!Next, TheStore!Working
<1> QED
  BY <1>4, <1>10, <1>11

\* A pager that has a transaction keeps its pages in step with the store.
LEMMA OwnerCoherent ==
    ASSUME DataInv, NEW B, CommittedIs(B), NEW p \in Pagers,
           Owning(pager[p]), ~pager[p].memDb
    PROVE  Coherent(pager[p], store)
<1>1. HoldsOK(pager[p], store, B)
  BY DEF CommittedIs
<1>2. CASE InTx(pager[p])
  BY <1>2, OwnTx DEF Tx, Logged
<1>3. CASE pager[p].eState = PAGER_WRITER_FINISHED
  BY <1>1, <1>3 DEF HoldsOK, Done
<1>4. CASE pager[p].eState = PAGER_ERROR
  BY <1>1, <1>4 DEF HoldsOK, Broken
<1>5. InTx(pager[p]) \/ pager[p].eState \in {PAGER_WRITER_FINISHED, PAGER_ERROR}
  BY DEF Owning, InTx
<1> QED
  BY <1>2, <1>3, <1>4, <1>5

\* A page that is read holds what the mapping already saw on it.
LEMMA FetchedHolds ==
    ASSUME NEW s, NEW m, NEW t, NEW n, Fetches(s, m, t, n), n <= s.dbSize
    PROVE  /\ \A i : Holding(t, m, i) = Holding(s, m, i)
           /\ t.dbSize = s.dbSize /\ Steady(s, m, t, m)
<1>1. /\ t.memDb = s.memDb /\ t.dbSize = s.dbSize /\ SameJournals(s, t)
      /\ DOMAIN t.cache = DOMAIN s.cache \cup {n}
      /\ \A i \in DOMAIN s.cache : t.cache[i] = s.cache[i]
      /\ n \notin DOMAIN s.cache =>
            t.cache[n] = CleanPage(IF ~s.memDb /\ n <= s.dbSize
                                   THEN Read(m, n) ELSE Zero)
  BY DEF Fetches
<1>2. ASSUME NEW i PROVE Holding(t, m, i) = Holding(s, m, i)
  <2>1. CASE i \in DOMAIN s.cache
    BY <1>1, <2>1 DEF Holding
  <2>2. CASE i \notin DOMAIN s.cache /\ i = n
    BY <1>1, <2>2 DEF Holding, CleanPage
  <2>3. CASE i \notin DOMAIN s.cache /\ i # n
    BY <1>1, <2>3 DEF Holding
  <2> QED
    BY <2>1, <2>2, <2>3
<1> QED
  BY <1>1, <1>2 DEF Steady, SameJournals

\* sqlite3PagerGet
LEMMA GetRefines ==
    ASSUME Seen, Seen', NEW p \in Pagers, NEW n \in 1..MaxPage, Get(p, n)
    PROVE  Refines
<1>1. PICK B : CommittedIs(B)
  BY DEF Seen, StoreInv, StoreOK
<1>2. DataInv /\ DataInv' /\ IInv
  BY DEF Seen, StoreInv, DataInv
<1>3. CommittedIs(B)'
  BY <1>1, <1>2, GetKeepsStore
<1>4. PICK t : t = Fetched(pager[p], store, n)
  OBVIOUS
<1>5. /\ pager' = [pager EXCEPT ![p] = t] /\ store' = store /\ n <= pager[p].dbSize
      /\ pager[p].eState \in PAGER_READER..PAGER_WRITER_DBMOD
  BY <1>4 DEF Get, Becomes
<1>6. Typed(pager[p]) /\ StoreTyped(store)
  BY <1>2, PagersTyped
<1>7. Fetches(pager[p], store, t, n)
  BY <1>4, <1>6, FetchedFacts
<1>8. /\ \A i : Holding(t, store, i) = Holding(pager[p], store, i)
      /\ t.dbSize = pager[p].dbSize /\ Steady(pager[p], store, t, store)
  BY <1>5, <1>7, FetchedHolds
<1>9. t.eState = pager[p].eState /\ t.memDb = pager[p].memDb
  BY <1>7 DEF Fetches
<1>10. \A q \in Pagers : pager'[q] = IF q = p THEN t ELSE pager[q]
  BY <1>2, <1>5 DEF IInv
<1>11. CASE Owning(pager[p])
  <2>1. pager'[p] = t /\ Owning(t)
    BY <1>9, <1>10, <1>11 DEF Owning
  <2>2. Steady(pager[p], store, pager'[p], store')
    BY <1>5, <1>8, <2>1
  <2>3. Owning(pager'[p]) /\ pager'[p].eState = pager[p].eState
    BY <1>9, <2>1
  <2> QED
    BY ONLY Seen, Seen', p \in Pagers, <1>1, <1>3, <1>11, <2>2, <2>3,
            SteadyRefines
<1>12. CASE ~Owning(pager[p]) /\ ~pager[p].memDb
  <2>1. \A q \in Pagers : ~pager[q].memDb
    <3>1. pager[p].eState # NOT_OPEN
      BY <1>5
    <3> QED
      BY <1>2, <1>12, <3>1, OpenOnes
  <2>2. ~Owning(t) /\ ~t.memDb
    BY <1>9, <1>12 DEF Owning
  <2>3. store'.pages = store.pages
    BY <1>5
  <2> QED
    BY ONLY Seen, Seen', p \in Pagers, <1>1, <1>3, <1>5, <1>12, <2>1, <2>2,
            <2>3, ReaderRefines
<1>13. CASE ~Owning(pager[p]) /\ pager[p].memDb
  <2>1. pager[p].eState = PAGER_READER
    BY <1>5, <1>13 DEF Owning
  <2>2. \A q \in Pagers : ~Owning(pager[q])
    BY <1>1, <1>2, <2>1, ReaderAlone
  <2>3. \A q \in Pagers : ~Owning(pager'[q])
    BY <1>9, <1>10, <2>2 DEF Owning
  <2>4. Committed = ImageIn(pager[p], store)
    BY <1>13, <2>2 DEF Seen, SeenIdle
  <2>5. pager'[p] = t /\ t.memDb
    BY <1>9, <1>10, <1>13
  <2>6. Committed' = ImageIn(t, store)
    BY <1>5, <2>3, <2>5 DEF Seen, SeenIdle
  <2>7. ImageIn(t, store) = ImageIn(pager[p], store)
    BY <1>8 DEF ImageIn
  <2> QED
    BY <2>2, <2>3, <2>4, <2>6, <2>7, IdleRefines
<1> QED
  BY <1>11, <1>12, <1>13

\* pcache1
LEMMA EvictRefines ==
    ASSUME Seen, Seen', NEW p \in Pagers, NEW n \in 1..MaxPage, Evict(p, n)
    PROVE  Refines
<1>1. PICK B : CommittedIs(B)
  BY DEF Seen, StoreInv, StoreOK
<1>2. DataInv /\ DataInv' /\ IInv
  BY DEF Seen, StoreInv, DataInv
<1>3. CommittedIs(B)'
  BY <1>1, <1>2, EvictKeepsStore
<1>4. PICK t : t = Without(pager[p], n)
  OBVIOUS
<1>5. /\ pager' = [pager EXCEPT ![p] = t] /\ store' = store
      /\ ~pager[p].memDb /\ n \in DOMAIN pager[p].cache
      /\ ~pager[p].cache[n].dirty
  BY <1>4 DEF Evict, Becomes, Without
<1>6. Typed(pager[p]) /\ StoreTyped(store)
  BY <1>2, PagersTyped
<1>7. /\ SameFile(pager[p], t) /\ SameJournals(pager[p], t)
      /\ t.eState = pager[p].eState /\ t.dbSize = pager[p].dbSize
      /\ DOMAIN t.cache = DOMAIN pager[p].cache \ {n}
      /\ \A i \in DOMAIN pager[p].cache \ {n} : t.cache[i] = pager[p].cache[i]
  BY <1>4, <1>6, WithoutFacts
<1>8. t.memDb = pager[p].memDb
  BY <1>7 DEF SameFile
<1>9. \A q \in Pagers : pager'[q] = IF q = p THEN t ELSE pager[q]
  BY <1>2, <1>5 DEF IInv
<1>10. CASE Owning(pager[p])
  <2>1. pager'[p] = t /\ Owning(t)
    BY <1>7, <1>9, <1>10 DEF Owning
  <2>2. Coherent(pager[p], store)
    BY <1>1, <1>2, <1>5, <1>10, OwnerCoherent
  <2>3. pager[p].dbSize \in Nat
    BY <1>6, Sizes
  <2>4. ASSUME NEW i \in 1..pager[p].dbSize
        PROVE  Holding(t, store, i) = Holding(pager[p], store, i)
    <3>1. CASE i = n
      <4>1. pager[p].cache[n].c = Read(store, n)
        BY <1>5, <2>2, <2>3, <2>4, <3>1 DEF Coherent
      <4> QED
        BY <1>5, <1>7, <1>8, <3>1, <4>1 DEF Holding
    <3>2. CASE i # n
      BY <1>5, <1>7, <1>8, <3>2 DEF Holding
    <3> QED
      BY <3>1, <3>2
  <2>5. Steady(pager[p], store, pager'[p], store')
    BY <1>5, <1>7, <2>1, <2>4 DEF Steady, SameJournals
  <2>6. Owning(pager'[p]) /\ pager'[p].eState = pager[p].eState
    BY <1>7, <2>1
  <2> QED
    BY ONLY Seen, Seen', p \in Pagers, <1>1, <1>3, <1>10, <2>5, <2>6,
            SteadyRefines
<1>11. CASE ~Owning(pager[p])
  <2>1. \A q \in Pagers : ~pager[q].memDb
    <3>1. pager[p].eState # NOT_OPEN
      <4>1. LocalOK(pager[p], store.szMax)
        BY <1>2, PagersTyped
      <4>2. pager[p].eState = NOT_OPEN => pager[p] = NotOpen
        BY <4>1, LocalCases
      <4>3. NotOpen.cache = <<>>
        BY EmptyTyped
      <4>4. NotOpen.cache[n] = NotOpen.cache[n] /\ DOMAIN NotOpen.cache = {}
        BY <4>3, EmptySeq
      <4> QED
        BY <1>5, <4>2, <4>4
    <3> QED
      BY <1>2, <1>5, <3>1, OpenOnes
  <2>2. ~Owning(t) /\ ~t.memDb
    BY <1>5, <1>7, <1>8, <1>11 DEF Owning
  <2>3. store'.pages = store.pages
    BY <1>5
  <2> QED
    BY ONLY Seen, Seen', p \in Pagers, <1>1, <1>3, <1>5, <1>11, <2>1, <2>2,
            <2>3, ReaderRefines
<1> QED
  BY <1>10, <1>11

\* pagerStress
LEMMA SpillRefines ==
    ASSUME Seen, Seen', NEW p \in Pagers, NEW n \in 1..MaxPage, Spill(p, n),
           ~LateFull
    PROVE  Refines
<1>1. PICK B : CommittedIs(B)
  BY DEF Seen, StoreInv, StoreOK
<1>2. DataInv /\ DataInv'
  BY DEF Seen, StoreInv
<1>3. /\ CommittedIs(B)' /\ Steady(pager[p], store, pager'[p], store')
      /\ pager'[p].eState \in {PAGER_WRITER_DBMOD, PAGER_ERROR}
  BY <1>1, <1>2, SpillKeepsStore
<1>4. pager[p].eState \in {PAGER_WRITER_CACHEMOD, PAGER_WRITER_DBMOD}
  BY DEF Spill
<1>5. /\ Owning(pager[p]) /\ pager[p].eState # PAGER_WRITER_FINISHED
      /\ Owning(pager'[p]) /\ pager'[p].eState # PAGER_WRITER_FINISHED
  BY <1>3, <1>4 DEF Owning
<1> QED
  BY ONLY Seen, Seen', p \in Pagers, <1>1, <1>3, <1>5, SteadyRefines
-----------------------------------------------------------------------------
(* The images of savepoints.                                               *)

\* The part of a sequence after position k.
LEMMA TailOf ==
    ASSUME NEW S, NEW q \in Seq(S), NEW k \in 0..Len(q), NEW t,
           t = SubSeq(q, k + 1, Len(q))
    PROVE  /\ t \in Seq(S) /\ Len(t) = Len(q) - k /\ Len(t) \in Nat
           /\ \A x \in 1..Len(t) : t[x] = q[k + x] /\ k + x \in 1..Len(q)
           /\ \A i \in 1..Len(q) : i > k => i - k \in 1..Len(t) /\ k + (i - k) = i
<1>1. Len(q) \in Nat /\ k \in Nat /\ k <= Len(q) /\ DOMAIN q = 1..Len(q)
  BY LenProperties
<1>2. Len(t) = Len(q) - k /\ t \in Seq(S)
      /\ \A x \in 1..(Len(q) - k) : t[x] = q[k + x]
  <2>1. PICK m : m = k + 1
    OBVIOUS
  <2>2. PICK n : n = Len(q)
    OBVIOUS
  <2>3. m \in Int /\ n \in Int /\ t = SubSeq(q, m, n)
        /\ \A i \in m..n : i \in 1..Len(q)
    BY <1>1, <2>1, <2>2
  <2>4. \A i \in m..n : q[i] \in S
    BY <2>3, ElementOfSeq
  <2>5. /\ t \in Seq(S) /\ Len(t) = IF m <= n THEN (n - m) + 1 ELSE 0
        /\ \A x \in 1..((n - m) + 1) : t[x] = q[(m + x) - 1]
    BY ONLY <2>3, <2>4, SubSeqProperties
  <2>6. k \in Nat /\ n \in Nat /\ k <= n /\ m = k + 1
    BY ONLY <1>1, <2>1, <2>2
  <2>7. (n - m) + 1 = n - k /\ (~(m <= n) => n - k = 0)
    BY ONLY <2>6
  <2>8. \A x \in Int : (m + x) - 1 = k + x
    BY ONLY <2>6
  <2>9. Len(t) = n - k
    BY ONLY <2>5, <2>7
  <2>10. ASSUME NEW x \in 1..(n - k) PROVE t[x] = q[k + x]
    <3>1. t[x] = q[(m + x) - 1]
      BY ONLY <2>5, <2>7, x \in 1..(n - k)
    <3>2. x \in Int
      OBVIOUS
    <3> QED
      BY ONLY <3>1, <3>2, <2>8
  <2> QED
    BY ONLY <2>2, <2>5, <2>9, <2>10
<1>3. Len(q) - k \in Nat
  BY <1>1
<1>4. \A x \in 1..(Len(q) - k) : k + x \in 1..Len(q)
  BY <1>1
<1>5. \A i \in 1..Len(q) : i > k => i - k \in 1..(Len(q) - k) /\ k + (i - k) = i
  BY <1>1
<1> QED
  BY <1>2, <1>3, <1>4, <1>5

\* R lists the last a records of the journal, and then the last b of the
\* sub-journal.
Lists(s, sp, R, a, b) ==
    /\ a \in Nat /\ b \in Nat /\ Len(R) = a + b
    /\ \A x \in 1..a : /\ x \in 1..(a + b)
                       /\ R[x] = s.journal[sp.iOffset + x]
                       /\ sp.iOffset + x \in DOMAIN s.journal
                       /\ sp.iOffset + x > sp.iOffset
    /\ \A y \in 1..b : /\ a + y \in 1..(a + b)
                       /\ R[a + y] = s.sub[sp.iSubRec + y]
                       /\ sp.iSubRec + y \in DOMAIN s.sub
                       /\ sp.iSubRec + y > sp.iSubRec
    /\ \A i \in DOMAIN s.journal : i > sp.iOffset =>
          i - sp.iOffset \in 1..a /\ sp.iOffset + (i - sp.iOffset) = i
    /\ \A i \in DOMAIN s.sub : i > sp.iSubRec =>
          i - sp.iSubRec \in 1..b /\ sp.iSubRec + (i - sp.iSubRec) = i
    /\ \A x \in 1..(a + b) : ~(x \in 1..a) => x - a \in 1..b /\ a + (x - a) = x

\* Where the records come from.
LEMMA TailsAre ==
    ASSUME NEW s, Typed(s), NEW sp, sp \in MarkType,
           sp.iOffset <= Len(s.journal), sp.iSubRec <= Len(s.sub),
           NEW R, R = Tails(s, sp), NEW a, a = Len(s.journal) - sp.iOffset,
           NEW b, b = Len(s.sub) - sp.iSubRec
    PROVE  Lists(s, sp, R, a, b)
<1> DEFINE J == SubSeq(s.journal, sp.iOffset + 1, Len(s.journal))
           K == SubSeq(s.sub, sp.iSubRec + 1, Len(s.sub))
<1>1. /\ s.journal \in Seq(RecordType) /\ s.sub \in Seq(RecordType)
      /\ Len(s.journal) \in Nat /\ DOMAIN s.journal = 1..Len(s.journal)
      /\ Len(s.sub) \in Nat /\ DOMAIN s.sub = 1..Len(s.sub)
  BY JournalDomains DEF Typed
<1>2. sp.iOffset \in Nat /\ sp.iSubRec \in Nat
  BY DEF MarkType
<1>3. sp.iOffset \in 0..Len(s.journal) /\ sp.iSubRec \in 0..Len(s.sub)
  BY <1>1, <1>2
<1>4. /\ J \in Seq(RecordType) /\ Len(J) = a /\ a \in Nat
      /\ \A x \in 1..a : J[x] = s.journal[sp.iOffset + x]
                         /\ sp.iOffset + x \in 1..Len(s.journal)
      /\ \A i \in 1..Len(s.journal) : i > sp.iOffset =>
            i - sp.iOffset \in 1..a /\ sp.iOffset + (i - sp.iOffset) = i
  <2>1. /\ J \in Seq(RecordType) /\ Len(J) = a /\ Len(J) \in Nat
        /\ \A x \in 1..Len(J) : J[x] = s.journal[sp.iOffset + x]
                                 /\ sp.iOffset + x \in 1..Len(s.journal)
        /\ \A i \in 1..Len(s.journal) : i > sp.iOffset =>
              i - sp.iOffset \in 1..Len(J) /\ sp.iOffset + (i - sp.iOffset) = i
    <3>1. PICK q, k, t : q = s.journal /\ k = sp.iOffset /\ t = J
      OBVIOUS
    <3>2. q \in Seq(RecordType) /\ k \in 0..Len(q) /\ t = SubSeq(q, k + 1, Len(q))
      BY <1>1, <1>3, <3>1
    <3>3. /\ t \in Seq(RecordType) /\ Len(t) = Len(q) - k /\ Len(t) \in Nat
          /\ \A x \in 1..Len(t) : t[x] = q[k + x] /\ k + x \in 1..Len(q)
          /\ \A i \in 1..Len(q) :
                i > k => i - k \in 1..Len(t) /\ k + (i - k) = i
      BY ONLY <3>2, TailOf
    <3> HIDE DEF J
    <3>4. a = Len(s.journal) - sp.iOffset
      OBVIOUS
    <3> QED
      BY ONLY <3>1, <3>3, <3>4
  <2> HIDE DEF J
  <2> QED
    BY ONLY <2>1
<1>5. /\ K \in Seq(RecordType) /\ Len(K) = b /\ b \in Nat
      /\ \A x \in 1..b : K[x] = s.sub[sp.iSubRec + x]
                         /\ sp.iSubRec + x \in 1..Len(s.sub)
      /\ \A i \in 1..Len(s.sub) : i > sp.iSubRec =>
            i - sp.iSubRec \in 1..b /\ sp.iSubRec + (i - sp.iSubRec) = i
  <2>1. /\ K \in Seq(RecordType) /\ Len(K) = b /\ Len(K) \in Nat
        /\ \A x \in 1..Len(K) : K[x] = s.sub[sp.iSubRec + x]
                                 /\ sp.iSubRec + x \in 1..Len(s.sub)
        /\ \A i \in 1..Len(s.sub) : i > sp.iSubRec =>
              i - sp.iSubRec \in 1..Len(K) /\ sp.iSubRec + (i - sp.iSubRec) = i
    <3>1. PICK q, k, t : q = s.sub /\ k = sp.iSubRec /\ t = K
      OBVIOUS
    <3>2. q \in Seq(RecordType) /\ k \in 0..Len(q) /\ t = SubSeq(q, k + 1, Len(q))
      BY <1>1, <1>3, <3>1
    <3>3. /\ t \in Seq(RecordType) /\ Len(t) = Len(q) - k /\ Len(t) \in Nat
          /\ \A x \in 1..Len(t) : t[x] = q[k + x] /\ k + x \in 1..Len(q)
          /\ \A i \in 1..Len(q) :
                i > k => i - k \in 1..Len(t) /\ k + (i - k) = i
      BY ONLY <3>2, TailOf
    <3> HIDE DEF K
    <3>4. b = Len(s.sub) - sp.iSubRec
      OBVIOUS
    <3> QED
      BY ONLY <3>1, <3>3, <3>4
  <2> HIDE DEF K
  <2> QED
    BY ONLY <2>1
<1>6. R = J \o K
  BY DEF Tails
<1> HIDE DEF J, K
<1>7. /\ Len(R) = a + b
      /\ \A x \in 1..(a + b) : R[x] = IF x <= a THEN J[x] ELSE K[x - a]
  <2>1. PICK h, k : h = J /\ k = K
    OBVIOUS
  <2>2. /\ h \in Seq(RecordType) /\ k \in Seq(RecordType)
        /\ Len(h) = a /\ Len(k) = b /\ R = h \o k
    BY ONLY <1>4, <1>5, <1>6, <2>1
  <2>3. h \in Seq(RecordType) /\ k \in Seq(RecordType)
    BY ONLY <2>2
  <2>4. /\ Len(h \o k) = Len(h) + Len(k)
        /\ \A x \in 1..(Len(h) + Len(k)) :
              (h \o k)[x] = IF x <= Len(h) THEN h[x] ELSE k[x - Len(h)]
    BY ONLY <2>3, ConcatProperties
  <2> QED
    BY ONLY <2>1, <2>2, <2>4
<1>8. /\ \A x \in 1..a : x \in 1..(a + b) /\ x <= a /\ sp.iOffset + x > sp.iOffset
      /\ \A y \in 1..b : /\ a + y \in 1..(a + b) /\ ~(a + y <= a) /\ (a + y) - a = y
                         /\ sp.iSubRec + y > sp.iSubRec
      /\ \A x \in 1..(a + b) : ~(x \in 1..a) => x - a \in 1..b /\ a + (x - a) = x
  BY ONLY <1>2, <1>4, <1>5
<1>9. \A x \in 1..a : R[x] = s.journal[sp.iOffset + x]
  BY <1>4, <1>7, <1>8
<1>10. \A y \in 1..b : R[a + y] = s.sub[sp.iSubRec + y]
  <2> SUFFICES ASSUME NEW y \in 1..b PROVE R[a + y] = s.sub[sp.iSubRec + y]
    OBVIOUS
  <2>1. R[a + y] = K[(a + y) - a] /\ (a + y) - a = y
    BY ONLY <1>7, <1>8, y \in 1..b
  <2> QED
    BY ONLY <1>5, <2>1, y \in 1..b
<1> QED
  BY ONLY <1>1, <1>4, <1>5, <1>7, <1>8, <1>9, <1>10 DEF Lists

\* The first record of a page in a list.
LEMMA Selected ==
    ASSUME NEW R, Len(R) \in Nat, NEW n, NEW i,
           i = FirstIn(R, n)
    PROVE  \/ i = 0 /\ \A x \in 1..Len(R) : R[x].pgno # n
           \/ /\ i \in 1..Len(R) /\ i # 0 /\ R[i].pgno = n
              /\ \A x \in 1..Len(R) : R[x].pgno = n => i <= x
<1> DEFINE I == {x \in 1..Len(R) : R[x].pgno = n}
<1>1. i = IF I # {} THEN Min(I) ELSE 0
  BY DEF FirstIn, SelectInSeq
<1>2. I \in SUBSET Nat
  OBVIOUS
<1>3. CASE I = {}
  BY <1>1, <1>3
<1> HIDE DEF I
<1>5. \A x : x \in I <=> x \in 1..Len(R) /\ R[x].pgno = n
  BY DEF I
<1>4. CASE I # {}
  <2>1. Min(I) \in I /\ \A x \in I : Min(I) <= x
    BY <1>2, <1>4, MinFacts
  <2>2. i \in I /\ \A x \in I : i <= x
    BY <1>1, <1>4, <2>1
  <2>3. i \in 1..Len(R) /\ R[i].pgno = n
    BY <1>5, <2>2
  <2>4. \A x \in 1..Len(R) : R[x].pgno = n => i <= x
    BY ONLY <1>5, <2>2
  <2>5. i # 0
    BY ONLY <2>3
  <2> QED
    BY ONLY <2>3, <2>4, <2>5
<1> QED
  BY <1>3, <1>4

\* What a pager holds is a content.
LEMMA HoldingContent ==
    ASSUME NEW s, Typed(s), NEW m, StoreTyped(m), NEW n
    PROVE  Holding(s, m, n) \in Content
<1>1. n \in DOMAIN s.cache => s.cache[n].c \in Content
  BY DEF Typed, IsCache, PageType
<1>2. Zero \in Content /\ Read(m, n) \in Content
  BY ZeroContent, ReadContent
<1> QED
  BY <1>1, <1>2 DEF Holding

\* The mapping gives a savepoint the content it has saved.
LEMMA MarkIs ==
    ASSUME NEW s, Typed(s), NEW m, StoreTyped(m), NEW sp, sp \in MarkType,
           sp.iOffset <= Len(s.journal), sp.iSubRec <= Len(s.sub),
           NEW n \in 1..sp.nOrig
    PROVE  \E c \in Content : Saved(s, m, sp, n, c) /\ MarkIn(s, m, sp)[n] = c.val
<1>1. PICK R, a, b : /\ R = Tails(s, sp) /\ a = Len(s.journal) - sp.iOffset
                     /\ b = Len(s.sub) - sp.iSubRec
  OBVIOUS
<1>2. /\ a \in Nat /\ b \in Nat /\ Len(R) = a + b
      /\ \A x \in 1..a : /\ x \in 1..(a + b)
                         /\ R[x] = s.journal[sp.iOffset + x]
                         /\ sp.iOffset + x \in DOMAIN s.journal
                         /\ sp.iOffset + x > sp.iOffset
      /\ \A y \in 1..b : /\ a + y \in 1..(a + b)
                         /\ R[a + y] = s.sub[sp.iSubRec + y]
                         /\ sp.iSubRec + y \in DOMAIN s.sub
                         /\ sp.iSubRec + y > sp.iSubRec
      /\ \A i \in DOMAIN s.journal : i > sp.iOffset =>
            i - sp.iOffset \in 1..a /\ sp.iOffset + (i - sp.iOffset) = i
      /\ \A i \in DOMAIN s.sub : i > sp.iSubRec =>
            i - sp.iSubRec \in 1..b /\ sp.iSubRec + (i - sp.iSubRec) = i
      /\ \A x \in 1..(a + b) : ~(x \in 1..a) => x - a \in 1..b /\ a + (x - a) = x
  <2>1. Lists(s, sp, R, a, b)
    BY <1>1, TailsAre
  <2> QED
    BY ONLY <2>1 DEF Lists
<1>3. PICK i : i = FirstIn(R, n)
  OBVIOUS
<1>4. \/ i = 0 /\ \A x \in 1..Len(R) : R[x].pgno # n
      \/ /\ i \in 1..Len(R) /\ i # 0 /\ R[i].pgno = n
         /\ \A x \in 1..Len(R) : R[x].pgno = n => i <= x
  <2>1. Len(R) \in Nat
    BY ONLY <1>2
  <2> QED
    BY ONLY <1>3, <2>1, Selected, Zenon
<1>5. MarkIn(s, m, sp)[n] = IF i = 0 THEN Holding(s, m, n).val ELSE R[i].c.val
  BY ONLY <1>1, <1>3, n \in 1..sp.nOrig DEF MarkIn
<1>6. /\ \A j \in DOMAIN s.journal : s.journal[j].c \in Content
      /\ \A j \in DOMAIN s.sub : s.sub[j].c \in Content
      /\ DOMAIN s.sub = 1..Len(s.sub) /\ Len(s.sub) \in Nat
      /\ sp.iSubRec \in Nat
  BY JournalDomains DEF RecordType, MarkType
<1>7. \A k \in DOMAIN s.sub : k <= Len(s.sub)
  BY <1>6
<1>8. CASE i = 0
  <2>1. \A x \in 1..(a + b) : R[x].pgno # n
    BY ONLY <1>2, <1>4, <1>8
  <2>2. \A j \in DOMAIN s.journal : j > sp.iOffset => s.journal[j].pgno # n
    BY ONLY <1>2, <2>1
  <2>3. \A j \in DOMAIN s.sub : j > sp.iSubRec => s.sub[j].pgno # n
    BY ONLY <1>2, <2>1
  <2>4. ~Recorded(s, sp, n, Len(s.sub))
    BY ONLY <2>2, <2>3 DEF Recorded, InTail, InSubTail
  <2>5. Holding(s, m, n) \in Content
    BY HoldingContent
  <2> QED
    BY ONLY <1>5, <1>8, <2>4, <2>5 DEF Saved
<1>9. CASE i \in 1..a
  <2>1. R[i].pgno = n /\ i # 0
    BY ONLY <1>4, <1>9
  <2>2. PICK j : j = sp.iOffset + i
    OBVIOUS
  <2>3. j \in DOMAIN s.journal /\ j > sp.iOffset /\ R[i] = s.journal[j]
    BY ONLY <1>2, <1>9, <2>2
  <2> QED
    BY ONLY <1>5, <1>6, <2>1, <2>3 DEF Saved
<1>10. CASE i # 0 /\ ~(i \in 1..a)
  <2>1. /\ i \in 1..(a + b) /\ R[i].pgno = n
        /\ \A x \in 1..(a + b) : R[x].pgno = n => i <= x
    BY ONLY <1>2, <1>4, <1>10
  <2>2. i - a \in 1..b /\ a + (i - a) = i
    BY ONLY <1>2, <1>10, <2>1
  <2>3. PICK j : j = sp.iSubRec + (i - a)
    OBVIOUS
  <2>4. j \in DOMAIN s.sub /\ j > sp.iSubRec /\ R[i] = s.sub[j]
    BY ONLY <1>2, <2>2, <2>3
  <2>5. ~InTail(s, sp, n)
    <3> SUFFICES ASSUME NEW x \in DOMAIN s.journal, x > sp.iOffset,
                        s.journal[x].pgno = n
                 PROVE  FALSE
      BY DEF InTail
    <3>1. PICK y : y = x - sp.iOffset
      OBVIOUS
    <3>2. y \in 1..a /\ sp.iOffset + y = x
      BY ONLY <1>2, <3>1, x \in DOMAIN s.journal, x > sp.iOffset
    <3>4. y \in 1..(a + b) /\ R[y] = s.journal[x]
      BY ONLY <1>2, <3>2
    <3>3. i <= y
      BY <2>1, <3>4
    <3> QED
      BY ONLY <1>2, <1>10, <2>1, <3>2, <3>3
  <2>6. ASSUME NEW k \in DOMAIN s.sub, k > sp.iSubRec, s.sub[k].pgno = n
        PROVE  j <= k
    <3>1. PICK y : y = k - sp.iSubRec
      OBVIOUS
    <3>2. y \in 1..b /\ sp.iSubRec + y = k
      BY ONLY <1>2, <3>1, k \in DOMAIN s.sub, k > sp.iSubRec
    <3>5. a + y \in 1..(a + b) /\ R[a + y] = s.sub[k]
      BY ONLY <1>2, <3>2
    <3>3. i <= a + y
      BY <2>1, <2>6, <3>5
    <3>4. k \in Nat
      BY <1>6
    <3> QED
      BY ONLY <1>2, <1>6, <2>1, <2>3, <3>1, <3>2, <3>3, <3>4
  <2> QED
    BY ONLY <1>5, <1>6, <1>10, <2>1, <2>4, <2>5, <2>6 DEF Saved
<1> QED
  BY <1>4, <1>8, <1>9, <1>10

\* It has saved no other.
LEMMA SavedOnce ==
    ASSUME NEW s, Typed(s), JournalOK(s), NEW m, NEW sp, NEW n,
           NEW c, Saved(s, m, sp, n, c), NEW d, Saved(s, m, sp, n, d)
    PROVE  c = d
<1>1. DOMAIN s.sub \subseteq Nat
  BY JournalDomains
<1>2. CASE InTail(s, sp, n)
  <2>1. \A e : Saved(s, m, sp, n, e) =>
           \E i \in DOMAIN s.journal :
              i > sp.iOffset /\ s.journal[i].pgno = n /\ s.journal[i].c = e
    BY ONLY <1>2 DEF Saved, Recorded
  <2> QED
    BY <2>1 DEF JournalOK
<1>3. CASE ~InTail(s, sp, n) /\ InSubTail(s, sp, n, Len(s.sub))
  <2>1. \A e : Saved(s, m, sp, n, e) =>
           \E i \in DOMAIN s.sub :
             /\ i > sp.iSubRec /\ s.sub[i].pgno = n /\ s.sub[i].c = e
             /\ \A k \in DOMAIN s.sub :
                   k > sp.iSubRec /\ s.sub[k].pgno = n => i <= k
    BY ONLY <1>3 DEF Saved, Recorded, InTail
  <2>2. PICK i \in DOMAIN s.sub :
             /\ i > sp.iSubRec /\ s.sub[i].pgno = n /\ s.sub[i].c = c
             /\ \A k \in DOMAIN s.sub :
                   k > sp.iSubRec /\ s.sub[k].pgno = n => i <= k
    BY <2>1
  <2>3. PICK j \in DOMAIN s.sub :
             /\ j > sp.iSubRec /\ s.sub[j].pgno = n /\ s.sub[j].c = d
             /\ \A k \in DOMAIN s.sub :
                   k > sp.iSubRec /\ s.sub[k].pgno = n => j <= k
    BY <2>1
  <2>4. i <= j /\ j <= i /\ i \in Nat /\ j \in Nat
    BY <1>1, <2>2, <2>3
  <2>5. i = j
    BY ONLY <2>4
  <2> QED
    BY <2>2, <2>3, <2>5
<1>4. CASE ~Recorded(s, sp, n, Len(s.sub))
  <2>1. \A j \in DOMAIN s.sub : j <= Len(s.sub)
    BY JournalDomains
  <2>2. ~InTail(s, sp, n) /\ ~InSubTail(s, sp, n, Len(s.sub))
    BY ONLY <1>4 DEF Recorded
  <2>3. \A e : Saved(s, m, sp, n, e) => Holding(s, m, n) = e
    BY ONLY <2>1, <2>2 DEF Saved, InTail, InSubTail
  <2> QED
    BY <2>3
<1> QED
  BY <1>2, <1>3, <1>4 DEF Recorded

\* So what it has saved is what the mapping gives it.
LEMMA MarkSaves ==
    ASSUME NEW s, Sound(s), NEW m, StoreTyped(m), NEW i \in DOMAIN s.aSavepoint,
           NEW n \in 1..s.aSavepoint[i].nOrig,
           NEW c, Saved(s, m, s.aSavepoint[i], n, c)
    PROVE  MarkIn(s, m, s.aSavepoint[i])[n] = c.val
<1>1. PICK sp : sp = s.aSavepoint[i]
  OBVIOUS
<1>2. /\ Typed(s) /\ JournalOK(s) /\ sp \in MarkType
      /\ sp.iOffset <= Len(s.journal) /\ sp.iSubRec <= Len(s.sub)
  BY <1>1, JournalDomains DEF Sound, MarksInside
<1>3. PICK d \in Content : Saved(s, m, sp, n, d) /\ MarkIn(s, m, sp)[n] = d.val
  BY <1>1, <1>2, MarkIs
<1>4. Saved(s, m, sp, n, c)
  BY <1>1
<1>5. c = d
  BY ONLY <1>2, <1>3, <1>4, SavedOnce
<1> QED
  BY <1>1, <1>3, <1>5

\* Two savepoints that save the same have the same image.
LEMMA CarriesMarks ==
    ASSUME NEW s, Sound(s), NEW m, StoreTyped(m), NEW t, Sound(t),
           NEW k, StoreTyped(k), Carries(s, m, t, k)
    PROVE  /\ MarksIn(s, m) = [i \in 1..Len(s.aSavepoint) |-> MarkIn(s, m, s.aSavepoint[i])]
           /\ MarksIn(t, k) = [i \in 1..Len(t.aSavepoint) |-> MarkIn(s, m, s.aSavepoint[i])]
           /\ Len(s.aSavepoint) \in Nat /\ Len(t.aSavepoint) \in 0..Len(s.aSavepoint)
<1>1. /\ Typed(s) /\ Typed(t)
      /\ s.eState # PAGER_WRITER_FINISHED /\ t.eState # PAGER_WRITER_FINISHED
  BY DEF Sound, InTx
<1>2. /\ DOMAIN s.aSavepoint = 1..Len(s.aSavepoint) /\ Len(s.aSavepoint) \in Nat
      /\ DOMAIN t.aSavepoint = 1..Len(t.aSavepoint) /\ Len(t.aSavepoint) \in Nat
  BY <1>1, JournalDomains
<1>3. Len(t.aSavepoint) <= Len(s.aSavepoint)
  BY DEF Carries
<1>4. ASSUME NEW i \in 1..Len(t.aSavepoint)
      PROVE  MarkIn(t, k, t.aSavepoint[i]) = MarkIn(s, m, s.aSavepoint[i])
  <2>1. i \in DOMAIN s.aSavepoint /\ i \in DOMAIN t.aSavepoint
    BY <1>2, <1>3
  <2>2. PICK sp, tp : sp = s.aSavepoint[i] /\ tp = t.aSavepoint[i]
    OBVIOUS
  <2>3. /\ tp.nOrig = sp.nOrig
        /\ \A n \in 1..sp.nOrig, c \in Content :
              Saved(s, m, sp, n, c) => Saved(t, k, tp, n, c)
    BY <2>2 DEF Carries
  <2>4. /\ sp \in MarkType /\ sp.iOffset <= Len(s.journal)
        /\ sp.iSubRec <= Len(s.sub)
    BY <1>1, <2>1, <2>2, JournalDomains DEF Sound, MarksInside
  <2>5. ASSUME NEW n \in 1..sp.nOrig
        PROVE  MarkIn(t, k, tp)[n] = MarkIn(s, m, sp)[n]
    <3>1. PICK c \in Content : Saved(s, m, sp, n, c) /\ MarkIn(s, m, sp)[n] = c.val
      BY <1>1, <2>4, MarkIs
    <3>2. Saved(t, k, tp, n, c)
      BY <2>3, <3>1
    <3>3. n \in 1..t.aSavepoint[i].nOrig /\ Saved(t, k, t.aSavepoint[i], n, c)
      BY <2>2, <2>3, <3>2
    <3>4. MarkIn(t, k, t.aSavepoint[i])[n] = c.val
      BY <2>1, <3>3, MarkSaves
    <3> QED
      BY <2>2, <3>1, <3>4
  <2>6. /\ MarkIn(t, k, tp) = [n \in 1..sp.nOrig |-> MarkIn(t, k, tp)[n]]
        /\ MarkIn(s, m, sp) = [n \in 1..sp.nOrig |-> MarkIn(s, m, sp)[n]]
    BY <2>3 DEF MarkIn
  <2>7. [n \in 1..sp.nOrig |-> MarkIn(t, k, tp)[n]]
        = [n \in 1..sp.nOrig |-> MarkIn(s, m, sp)[n]]
    BY ONLY <2>5
  <2> QED
    BY ONLY <2>2, <2>6, <2>7
<1> QED
  BY <1>1, <1>2, <1>3, <1>4 DEF MarksIn
-----------------------------------------------------------------------------
(* The owner's steps.                                                      *)

\* An image is one of those a database can have.
LEMMA ImageInType ==
    ASSUME NEW s, Typed(s), NEW m, StoreTyped(m)
    PROVE  ImageIn(s, m) \in AllImages
<1>1. \A n : Holding(s, m, n) \in Content
  BY HoldingContent
<1>2. \A n : Holding(s, m, n).val \in Vals
  BY <1>1 DEF Content
<1>3. s.dbSize \in 0..MaxPage
  BY DEF Typed
<1>4. ImageIn(s, m) \in [1..s.dbSize -> Vals]
  BY <1>2 DEF ImageIn
<1> QED
  BY <1>3, <1>4 DEF AllImages

\* At first the database is empty.
LEMMA InitRefines == Init => TheStore!Init
<1> SUFFICES ASSUME Init PROVE TheStore!Init
  OBVIOUS
<1>1. SeenIdle
  BY InitStore, StoreSeenIdle
<1>2. PICK limit \in Limits : store = [Created(limit) EXCEPT !.nRef = 0]
  BY DEF Init
<1>3. store.pages = <<>>
  BY <1>2 DEF Created
<1>4. \A p \in Pagers : pager[p] = NotOpen
  BY DEF Init
<1>5. \A p \in Pagers : ~Owning(pager[p]) /\ ~pager[p].memDb
  BY <1>4 DEF NotOpen, Owning
<1>6. /\ TheOwner = None /\ Working = <<>> /\ Marks = <<>>
      /\ Committed = [n \in DOMAIN store.pages |-> store.pages[n].val]
  BY <1>1, <1>5 DEF SeenIdle
<1>7. DOMAIN store.pages = 1..0
  BY <1>3
<1>8. Committed \in [1..0 -> Vals] /\ 0 \in 0..MaxPage
  BY <1>6, <1>7, PagerAssumption
<1>9. Committed \in AllImages
  BY <1>8 DEF AllImages
<1> QED
  BY <1>6, <1>9 DEF TheStore!Init

\* A pager in a transaction is typed and sound after a step, too.
LEMMA SoundNext ==
    ASSUME Seen', NEW p \in Pagers
    PROVE  /\ StoreTyped(store') /\ Typed(pager'[p])
           /\ InTx(pager'[p]) => Sound(pager'[p])
<1>1. LocalOK(pager'[p], store'.szMax) /\ StoreTyped(store')
  BY DEF Seen, StoreInv, DataInv, DataOK
<1>2. PICK t, k : t = pager'[p] /\ k = store'.szMax
  OBVIOUS
<1>3. LocalOK(t, k)
  BY <1>1, <1>2
<1>4. Typed(t)
  BY ONLY <1>3, LocalTyped
<1>5. InTx(t) => Changing(t, k)
  BY ONLY <1>3, LocalCases
<1>6. InTx(t) => Sound(t)
  BY ONLY <1>5 DEF Changing
<1> QED
  BY <1>1, <1>2, <1>4, <1>6

\* A change of the image, which every savepoint outlives.
LEMMA ChangeRefines ==
    ASSUME Seen, Seen', NEW B, CommittedIs(B), CommittedIs(B)', NEW p \in Pagers,
           InTx(pager[p]), Sound(pager'[p]),
           Continues(pager[p], store, pager'[p], store')
    PROVE  Refines
<1>1. DataInv
  BY DEF Seen, StoreInv
<1>2. Sound(pager[p]) /\ StoreTyped(store) /\ Owning(pager[p])
  BY <1>1, OwnTx
<1>3. StoreTyped(store') /\ Typed(pager'[p])
  BY SoundNext
<1>4. Owning(pager'[p])
  BY DEF Sound, InTx, Owning
<1>5. /\ TheOwner = p /\ Committed = Img(B) /\ Marks = MarksIn(pager[p], store)
      /\ TheOwner # None
  BY <1>2, SeenOf
<1>6. /\ TheOwner' = p /\ Committed' = Img(B)
      /\ Working' = ImageIn(pager'[p], store')
      /\ Marks' = MarksIn(pager'[p], store')
  BY <1>4, SeenNext
<1>7. MarksIn(pager'[p], store') = MarksIn(pager[p], store)
  <2>1. /\ Carries(pager[p], store, pager'[p], store')
        /\ Len(pager'[p].aSavepoint) = Len(pager[p].aSavepoint)
    BY DEF Continues
  <2> QED
    BY <1>2, <1>3, <2>1, CarriesMarks
<1>8. ImageIn(pager'[p], store') \in AllImages
  BY <1>3, ImageInType
<1>9. TheStore!Change
  BY ONLY <1>5, <1>6, <1>7, <1>8 DEF TheStore!Change
<1> QED
  BY ONLY <1>5, <1>9 DEF Refines, TheStore!Next, TheStore!Working

\* The b-tree changes a page.
LEMMA WriteRefines ==
    ASSUME Seen, Seen', NEW p \in Pagers, NEW n \in 1..MaxPage, NEW v \in Vals,
           Write(p, n, v)
    PROVE  Refines
<1>1. PICK B : CommittedIs(B)
  BY DEF Seen, StoreInv, StoreOK
<1>2. DataInv /\ DataInv' /\ InTx(pager[p])
  BY DEF Seen, StoreInv, Write, Writing, InTx
<1>3. /\ CommittedIs(B)' /\ Continues(pager[p], store, pager'[p], store')
      /\ Sound(pager'[p])
  BY <1>1, <1>2, WriteKeepsStore
<1> QED
  BY ONLY Seen, Seen', p \in Pagers, <1>1, <1>2, <1>3, ChangeRefines

\* allocateBtreePage
LEMMA AllocateRefines ==
    ASSUME Seen, Seen', NEW p \in Pagers, NEW v \in Vals, Allocate(p, v)
    PROVE  Refines
<1>1. PICK B : CommittedIs(B)
  BY DEF Seen, StoreInv, StoreOK
<1>2. DataInv /\ DataInv' /\ InTx(pager[p])
  BY DEF Seen, StoreInv, Allocate, Writing, InTx
<1>3. /\ CommittedIs(B)' /\ Continues(pager[p], store, pager'[p], store')
      /\ Sound(pager'[p])
  BY <1>1, <1>2, AllocateKeepsStore
<1> QED
  BY ONLY Seen, Seen', p \in Pagers, <1>1, <1>2, <1>3, ChangeRefines

\* sqlite3PagerCommitPhaseOne
LEMMA CommitPhaseOneRefines ==
    ASSUME Seen, Seen', NEW p \in Pagers, NEW size \in 1..MaxPage,
           CommitPhaseOne(p, size)
    PROVE  Refines
<1>1. PICK B : CommittedIs(B)
  BY DEF Seen, StoreInv, StoreOK
<1>2. DataInv /\ DataInv' /\ Owning(pager[p])
  BY DEF Seen, StoreInv, CommitPhaseOne, Owning
<1>3. \/ CommittedIs(B)' /\ pager'[p].eState = PAGER_WRITER_FINISHED
      \/ StoreOK' /\ Settled(pager'[p], store', B)
  BY <1>1, <1>2, CommitPhaseOneKeepsStore
<1>4. CASE CommittedIs(B)' /\ pager'[p].eState = PAGER_WRITER_FINISHED
  <2>1. Owning(pager'[p])
    BY <1>4 DEF Owning
  <2>2. TheOwner = p /\ Committed = Img(B) /\ TheOwner # None
    BY <1>1, <1>2, SeenOf
  <2>3. /\ TheOwner' = p /\ Committed' = Img(B)
        /\ Working' = ImageIn(pager'[p], store')
        /\ Marks' = MarksIn(pager'[p], store')
    BY <1>4, <2>1, SeenNext
  <2>4. Marks' = <<>>
    BY <1>4, <2>3 DEF MarksIn
  <2>5. ImageIn(pager'[p], store') \in AllImages
    BY SoundNext, ImageInType
  <2>6. TheStore!Prepare
    BY ONLY <2>2, <2>3, <2>4, <2>5 DEF TheStore!Prepare
  <2> QED
    BY ONLY <2>2, <2>6 DEF Refines, TheStore!Next, TheStore!Working
<1>5. CASE Settled(pager'[p], store', B)
  BY <1>1, <1>2, <1>5, UndoneRefines
<1> QED
  BY <1>3, <1>4, <1>5
-----------------------------------------------------------------------------
(* Opening and closing savepoints.                                         *)

\* The first k of a elements.
LEMMA FirstPart ==
    ASSUME NEW a \in Nat, NEW k \in 0..a, NEW f, f = [i \in 1..a |-> f[i]]
    PROVE  SubSeq(f, 1, k) = [i \in 1..k |-> f[i]] /\ Len(f) = a
<1> DEFINE S == {f[i] : i \in 1..a}
<1>1. f \in [1..a -> S]
  OBVIOUS
<1>2. f \in Seq(S) /\ Len(f) = a
  BY <1>1, FunctionIsSeq
<1>3. \A i \in 1..k : f[i] \in S
  OBVIOUS
<1> HIDE DEF S
<1>4. 1 \in Int /\ k \in Int /\ (1 <= k => (k - 1) + 1 = k) /\ (~(1 <= k) => k = 0)
      /\ (k - 1) + 1 = k
  OBVIOUS
<1>5. PICK g : g = SubSeq(f, 1, k)
  OBVIOUS
<1>6. /\ g \in Seq(S) /\ Len(g) = IF 1 <= k THEN (k - 1) + 1 ELSE 0
      /\ \A i \in 1..((k - 1) + 1) : g[i] = f[(1 + i) - 1]
  BY ONLY <1>3, <1>4, <1>5, SubSeqProperties
<1>7. Len(g) = k
  BY ONLY <1>4, <1>6
<1>11. ASSUME NEW i \in 1..k PROVE g[i] = f[i]
  <2>1. i \in 1..((k - 1) + 1) /\ (1 + i) - 1 = i
    OBVIOUS
  <2>2. g[i] = f[(1 + i) - 1]
    BY ONLY <1>6, <2>1
  <2> QED
    BY ONLY <2>1, <2>2
<1>8. g = [i \in 1..Len(g) |-> g[i]]
  BY <1>6
<1>9. g = [i \in 1..k |-> g[i]]
  BY ONLY <1>7, <1>8
<1>10. g = [i \in 1..k |-> f[i]]
  BY ONLY <1>9, <1>11
<1> QED
  BY <1>2, <1>5, <1>10

\* f has a elements and g is b times c; h has the one and then the other.
PutTogether(f, g, h, a, b, c) ==
    /\ f = [i \in 1..a |-> f[i]] /\ g = [i \in 1..b |-> c]
    /\ h = [i \in 1..(a + b) |-> IF i <= a THEN f[i] ELSE c]

\* That is how sequences are put together.
LEMMA Appending ==
    ASSUME NEW a \in Nat, NEW b \in Nat, NEW f, NEW g, NEW h,
           NEW c, PutTogether(f, g, h, a, b, c)
    PROVE  h = f \o g /\ Len(f) = a /\ Len(h) = a + b
<1> DEFINE S == {f[i] : i \in 1..a} \cup {c}
<1>1. g = [i \in 1..b |-> c]
  BY DEF PutTogether
<1>2. f \in [1..a -> S] /\ g \in [1..b -> S] /\ h \in [1..(a + b) -> S]
      /\ a + b \in Nat
  BY <1>1 DEF PutTogether
<1> HIDE DEF S
<1>3. /\ f \in Seq(S) /\ Len(f) = a /\ g \in Seq(S) /\ Len(g) = b
      /\ Len(h) = a + b
  BY ONLY <1>2, a \in Nat, b \in Nat, FunctionIsSeq
<1>4. PICK u : u = f \o g
  OBVIOUS
<1>5. f \in Seq(S) /\ g \in Seq(S)
  BY ONLY <1>3
<1>6. /\ u \in Seq(S) /\ Len(u) = Len(f) + Len(g)
      /\ \A i \in 1..(Len(f) + Len(g)) :
            u[i] = IF i <= Len(f) THEN f[i] ELSE g[i - Len(f)]
  BY ONLY <1>4, <1>5, ConcatProperties
<1>7. /\ u \in Seq(S) /\ Len(u) = a + b
      /\ \A i \in 1..(a + b) : u[i] = IF i <= a THEN f[i] ELSE g[i - a]
  BY ONLY <1>3, <1>6
<1>8. \A i \in 1..(a + b) : ~(i <= a) => g[i - a] = c
  BY <1>1
<1>9. \A i \in 1..(a + b) : u[i] = IF i <= a THEN f[i] ELSE c
  BY ONLY <1>7, <1>8
<1>10. u = [i \in 1..Len(u) |-> u[i]]
  BY <1>7
<1>11. u = [i \in 1..(a + b) |-> u[i]]
  BY ONLY <1>7, <1>10
<1>12. u = [i \in 1..(a + b) |-> IF i <= a THEN f[i] ELSE c]
  BY ONLY <1>9, <1>11
<1>13. h = u
  BY ONLY PutTogether(f, g, h, a, b, c), <1>12 DEF PutTogether
<1> QED
  BY ONLY <1>3, <1>4, <1>13

\* A savepoint at the end of the journals has the image as it is.
LEMMA MarkNow ==
    ASSUME NEW s, Sound(s), NEW m, StoreTyped(m), NEW i \in DOMAIN s.aSavepoint,
           s.aSavepoint[i].nOrig = s.dbSize,
           s.aSavepoint[i].iOffset = Len(s.journal),
           s.aSavepoint[i].iSubRec = Len(s.sub)
    PROVE  MarkIn(s, m, s.aSavepoint[i]) = ImageIn(s, m)
<1>1. PICK sp : sp = s.aSavepoint[i]
  OBVIOUS
<1>2. /\ sp.nOrig = s.dbSize /\ sp.iOffset = Len(s.journal)
      /\ sp.iSubRec = Len(s.sub)
  BY <1>1
<1>3. /\ Len(s.journal) \in Nat /\ DOMAIN s.journal = 1..Len(s.journal)
      /\ Len(s.sub) \in Nat /\ DOMAIN s.sub = 1..Len(s.sub)
  BY JournalDomains DEF Sound
<1>4. /\ \A j \in DOMAIN s.journal : ~(j > sp.iOffset)
      /\ \A j \in DOMAIN s.sub : ~(j > sp.iSubRec)
  BY ONLY <1>2, <1>3
<1>5. ASSUME NEW n \in 1..s.dbSize
      PROVE  MarkIn(s, m, sp)[n] = Holding(s, m, n).val
  <2>1. Saved(s, m, sp, n, Holding(s, m, n))
    BY ONLY <1>4 DEF Saved, Recorded, InTail, InSubTail
  <2>2. n \in 1..s.aSavepoint[i].nOrig
    OBVIOUS
  <2> QED
    BY <1>1, <2>1, <2>2, MarkSaves
<1>6. MarkIn(s, m, sp) = [n \in 1..s.dbSize |-> MarkIn(s, m, sp)[n]]
  BY <1>2 DEF MarkIn
<1>7. [n \in 1..s.dbSize |-> MarkIn(s, m, sp)[n]]
      = [n \in 1..s.dbSize |-> Holding(s, m, n).val]
  BY ONLY <1>5
<1> QED
  BY <1>1, <1>6, <1>7 DEF ImageIn

\* The images of the savepoints that stay.
LEMMA FewerImages ==
    ASSUME NEW s, Sound(s), NEW m, StoreTyped(m), NEW t, Sound(t),
           NEW k, StoreTyped(k), Carries(s, m, t, k),
           NEW n, Len(t.aSavepoint) = n
    PROVE  /\ n \in 0..Len(MarksIn(s, m))
           /\ MarksIn(t, k) = SubSeq(MarksIn(s, m), 1, n)
           /\ n > 0 => MarksIn(s, m)[n] = MarkIn(s, m, s.aSavepoint[n])
<1>1. PICK F, a : /\ F = MarksIn(s, m) /\ a = Len(s.aSavepoint)
  OBVIOUS
<1>2. /\ F = [i \in 1..a |-> MarkIn(s, m, s.aSavepoint[i])]
      /\ MarksIn(t, k) = [i \in 1..n |-> MarkIn(s, m, s.aSavepoint[i])]
      /\ a \in Nat /\ n \in 0..a
  BY <1>1, CarriesMarks
<1>3. \A i \in 1..a : F[i] = MarkIn(s, m, s.aSavepoint[i])
  BY ONLY <1>2
<1>4. F = [i \in 1..a |-> F[i]]
  BY ONLY <1>2
<1>5. SubSeq(F, 1, n) = [i \in 1..n |-> F[i]] /\ Len(F) = a
  BY ONLY <1>2, <1>4, FirstPart
<1>6. \A i \in 1..n : i \in 1..a
  BY <1>2
<1>7. [i \in 1..n |-> F[i]] = [i \in 1..n |-> MarkIn(s, m, s.aSavepoint[i])]
  BY ONLY <1>3, <1>6
<1>8. n > 0 => n \in 1..a
  BY <1>2
<1> QED
  BY ONLY <1>1, <1>2, <1>3, <1>5, <1>7, <1>8

\* What has the same cache has the same image.
LEMMA SameCache ==
    ASSUME NEW s, NEW t, NEW m, t.cache = s.cache, t.memDb = s.memDb,
           t.dbSize = s.dbSize
    PROVE  ImageIn(t, m) = ImageIn(s, m)
BY DEF ImageIn, Holding

\* Fewer savepoints, and the same image.
LEMMA ReleasedRefines ==
    ASSUME Seen, Seen', NEW B, CommittedIs(B), CommittedIs(B)', NEW p \in Pagers,
           InTx(pager[p]), store' = store, NEW n, Released(pager[p], pager'[p], n)
    PROVE  Refines
<1>1. DataInv
  BY DEF Seen, StoreInv
<1>2. /\ Sound(pager[p]) /\ StoreTyped(store) /\ Owning(pager[p])
      /\ Tx(pager[p], store, B)
  BY <1>1, OwnTx
<1>3. InTx(pager'[p]) /\ Len(pager'[p].aSavepoint) = n
  BY <1>2 DEF Released, Fewer, InTx
<1>4. Sound(pager'[p]) /\ Owning(pager'[p])
  BY <1>3, SoundNext DEF InTx, Owning
<1>5. /\ TheOwner = p /\ Committed = Img(B) /\ Working = ImageIn(pager[p], store)
      /\ Marks = MarksIn(pager[p], store) /\ TheOwner # None
  BY <1>2, SeenOf
<1>6. /\ TheOwner' = p /\ Committed' = Img(B)
      /\ Working' = ImageIn(pager'[p], store')
      /\ Marks' = MarksIn(pager'[p], store')
  BY <1>4, SeenNext
<1>7. Carries(pager[p], store, pager'[p], store)
  BY <1>2, ReleasedCarries DEF Tx
<1>8. n \in 0..Len(Marks) /\ Marks' = SubSeq(Marks, 1, n)
  BY ONLY <1>2, <1>3, <1>4, <1>5, <1>6, <1>7, store' = store, FewerImages
<1>9. ImageIn(pager'[p], store) = ImageIn(pager[p], store)
  BY SameCache DEF Released
<1>10. TheStore!Release(n)
  BY ONLY <1>5, <1>6, <1>8, <1>9, store' = store DEF TheStore!Release
<1> QED
  BY ONLY <1>5, <1>8, <1>10 DEF Refines, TheStore!Next, TheStore!Working

\* sqlite3PagerSavepoint, SAVEPOINT_RELEASE
LEMMA ReleaseSavepointRefines ==
    ASSUME Seen, Seen', NEW p \in Pagers, NEW n \in 0..MaxSavepoints,
           ReleaseSavepoint(p, n)
    PROVE  Refines
<1>1. PICK B : CommittedIs(B)
  BY DEF Seen, StoreInv, StoreOK
<1>2. DataInv /\ DataInv' /\ InTx(pager[p])
  BY DEF Seen, StoreInv, ReleaseSavepoint, Writing, InTx
<1>3. /\ CommittedIs(B)' /\ store' = store
      /\ Released(pager[p], pager'[p], n)
  BY <1>1, <1>2, ReleaseSavepointKeepsStore
<1> QED
  BY ONLY Seen, Seen', p \in Pagers, <1>1, <1>2, <1>3, ReleasedRefines

\* What the savepoints of s save, they save in t.
LEMMA OpenedImages ==
    ASSUME NEW s, Sound(s), NEW t, Sound(t), NEW m, StoreTyped(m), Opened(s, t),
           NEW n, n > Len(s.aSavepoint), DOMAIN t.aSavepoint = 1..n, n \in Nat
    PROVE  /\ n - Len(MarksIn(s, m)) \in 1..(Len(MarksIn(t, m)) - Len(MarksIn(s, m)))
           /\ MarksIn(t, m) = MarksIn(s, m) \o
                  [i \in 1..(n - Len(MarksIn(s, m))) |-> ImageIn(s, m)]
<1>1. Typed(s) /\ s.eState # PAGER_WRITER_FINISHED /\ t.eState # PAGER_WRITER_FINISHED
  BY DEF Sound, InTx
<1>2. PICK a, b : a = Len(s.aSavepoint) /\ b = n - a
  OBVIOUS
<1>3. /\ DOMAIN s.aSavepoint = 1..a /\ a \in Nat /\ b \in Nat /\ a + b = n
      /\ b > 0 /\ \A i \in 1..n : ~(i <= a) => i \notin 1..a
  BY <1>1, <1>2, JournalDomains
<1>4. PICK F, H, c : F = MarksIn(s, m) /\ H = MarksIn(t, m) /\ c = ImageIn(s, m)
  OBVIOUS
<1>5. /\ F = [i \in 1..a |-> MarkIn(s, m, s.aSavepoint[i])]
      /\ H = [i \in 1..n |-> MarkIn(t, m, t.aSavepoint[i])]
  BY <1>1, <1>3, <1>4 DEF MarksIn
<1>6. F = [i \in 1..a |-> F[i]]
  BY ONLY <1>5
<1>7. \A x : Holding(t, m, x) = Holding(s, m, x)
  BY DEF Opened, Holding
<1>8. \A sp : Tails(t, sp) = Tails(s, sp)
  BY DEF Opened, Tails
<1>9. \A sp : MarkIn(t, m, sp) = MarkIn(s, m, sp)
  BY ONLY <1>7, <1>8 DEF MarkIn
<1>10. ASSUME NEW i \in 1..n
       PROVE  MarkIn(t, m, t.aSavepoint[i]) = IF i <= a THEN F[i] ELSE c
  <2>1. CASE i <= a
    <3>1. i \in 1..a /\ i \in DOMAIN t.aSavepoint
      BY <1>3, <2>1
    <3>2. t.aSavepoint[i] = s.aSavepoint[i]
      BY <1>3, <3>1 DEF Opened
    <3>3. F[i] = MarkIn(s, m, s.aSavepoint[i])
      BY ONLY <1>5, <3>1
    <3> QED
      BY <1>9, <2>1, <3>2, <3>3
  <2>2. CASE ~(i <= a)
    <3>1. i \notin DOMAIN s.aSavepoint /\ i \in DOMAIN t.aSavepoint
      BY <1>3, <2>2
    <3>2. /\ t.aSavepoint[i].nOrig = t.dbSize
          /\ t.aSavepoint[i].iOffset = Len(t.journal)
          /\ t.aSavepoint[i].iSubRec = Len(t.sub)
      BY <3>1 DEF Opened
    <3>3. MarkIn(t, m, t.aSavepoint[i]) = ImageIn(t, m)
      BY <3>1, <3>2, MarkNow
    <3>4. ImageIn(t, m) = c
      BY <1>4, SameCache DEF Opened
    <3> QED
      BY <2>2, <3>3, <3>4
  <2> QED
    BY <2>1, <2>2
<1>11. H = [i \in 1..n |-> IF i <= a THEN F[i] ELSE c]
  BY ONLY <1>5, <1>10
<1>12. H = [i \in 1..(a + b) |-> IF i <= a THEN F[i] ELSE c]
  BY ONLY <1>3, <1>11
<1>13. H = F \o [i \in 1..b |-> c] /\ Len(F) = a /\ Len(H) = a + b
  <2>1. a \in Nat /\ b \in Nat
    BY <1>3
  <2>2. PICK G : G = [i \in 1..b |-> c]
    OBVIOUS
  <2>3. PutTogether(F, G, H, a, b, c)
    BY ONLY <1>6, <1>12, <2>2 DEF PutTogether
  <2>4. H = F \o G /\ Len(F) = a /\ Len(H) = a + b
    BY ONLY <2>1, <2>3, Appending
  <2> QED
    BY ONLY <2>2, <2>4
<1>14. n - Len(F) = b /\ b \in 1..(Len(H) - Len(F))
  <2>1. Len(H) - Len(F) = b /\ n - Len(F) = b
    BY ONLY <1>2, <1>3, <1>13
  <2> QED
    BY ONLY <1>3, <2>1
<1> QED
  BY ONLY <1>4, <1>13, <1>14

\* sqlite3PagerOpenSavepoint
LEMMA OpenSavepointRefines ==
    ASSUME Seen, Seen', NEW p \in Pagers, NEW n \in 1..MaxSavepoints,
           OpenSavepoint(p, n)
    PROVE  Refines
<1>1. PICK B : CommittedIs(B)
  BY DEF Seen, StoreInv, StoreOK
<1>2. DataInv /\ DataInv' /\ InTx(pager[p])
  BY DEF Seen, StoreInv, OpenSavepoint, Writing, InTx
<1>3. /\ CommittedIs(B)' /\ store' = store /\ Opened(pager[p], pager'[p])
      /\ n > Len(pager[p].aSavepoint) /\ DOMAIN pager'[p].aSavepoint = 1..n
  BY <1>1, <1>2, OpenSavepointKeepsStore
<1>4. Sound(pager[p]) /\ StoreTyped(store) /\ Owning(pager[p])
  BY <1>1, <1>2, OwnTx
<1>5. InTx(pager'[p])
  BY <1>2, <1>3 DEF Opened, InTx
<1>6. Sound(pager'[p]) /\ Owning(pager'[p])
  BY <1>5, SoundNext DEF InTx, Owning
<1>7. /\ TheOwner = p /\ Committed = Img(B) /\ Working = ImageIn(pager[p], store)
      /\ Marks = MarksIn(pager[p], store) /\ TheOwner # None
  BY <1>1, <1>4, SeenOf
<1>8. /\ TheOwner' = p /\ Committed' = Img(B)
      /\ Working' = ImageIn(pager'[p], store')
      /\ Marks' = MarksIn(pager'[p], store')
  BY <1>3, <1>6, SeenNext
<1>9. ImageIn(pager'[p], store) = ImageIn(pager[p], store)
  BY <1>3, SameCache DEF Opened
<1>10. n \in Nat
  OBVIOUS
<1>11. PICK s, t, m : s = pager[p] /\ t = pager'[p] /\ m = store
  OBVIOUS
<1>12. /\ Sound(s) /\ Sound(t) /\ StoreTyped(m) /\ Opened(s, t)
       /\ n > Len(s.aSavepoint) /\ DOMAIN t.aSavepoint = 1..n
  BY ONLY <1>3, <1>4, <1>6, <1>11
<1>13. /\ n - Len(MarksIn(s, m)) \in 1..(Len(MarksIn(t, m)) - Len(MarksIn(s, m)))
       /\ MarksIn(t, m) = MarksIn(s, m) \o
              [i \in 1..(n - Len(MarksIn(s, m))) |-> ImageIn(s, m)]
  BY ONLY <1>10, <1>12, OpenedImages
<1>14. PICK k : k = n - Len(Marks)
  OBVIOUS
<1>15. /\ k \in 1..(Len(Marks') - Len(Marks))
       /\ Marks' = Marks \o [i \in 1..k |-> Working]
  BY ONLY <1>3, <1>7, <1>8, <1>11, <1>13, <1>14
<1>16. TheStore!Mark(k)
  BY ONLY <1>3, <1>7, <1>8, <1>9, <1>15 DEF TheStore!Mark
<1> QED
  BY ONLY <1>7, <1>15, <1>16 DEF Refines, TheStore!Next, TheStore!Working
-----------------------------------------------------------------------------
(* Going back.                                                             *)

\* What has a record after savepoint sp is played back, in the cache or in
\* the file.
LEMMA PlayedRecord ==
    ASSUME NEW s, Typed(s), s.eState > PAGER_WRITER_LOCKED,
           s.memDb => s.eState # PAGER_WRITER_DBMOD, InTx(s),
           NEW m, NEW R, NEW r, Played(s, m, R, r), NEW x \in 1..r.s.dbSize,
           NEW c, NEW safe, Replayed(R, x, c, safe),
           x \notin DOMAIN s.cache => safe /\ s.eState # PAGER_WRITER_CACHEMOD
    PROVE  Holding(r.s, r.m, x) = c
<1>1. /\ r.s.memDb = s.memDb /\ DOMAIN r.s.cache = DOMAIN s.cache
      /\ \A n \in DOMAIN s.cache :
            r.s.cache[n].c = IF n \in Back(R, r) THEN First(R, n).c
                                                 ELSE s.cache[n].c
      /\ \A n \in 1..MaxPage :
            Read(r.m, n) = IF n \in Out(s, R, r) THEN First(R, n).c
                                                 ELSE Read(m, n)
      /\ r.s.dbSize \in Nat /\ r.s.dbSize <= MaxPage
  BY Sizes DEF Played
<1>2. /\ x \in Back(R, r) /\ First(R, x).c = c /\ First(R, x).safe = safe
      /\ x \in 1..MaxPage
  BY <1>1, PagerAssumption DEF Back, Replayed
<1>3. CASE x \in DOMAIN s.cache
  BY <1>1, <1>2, <1>3 DEF Holding
<1>4. CASE x \notin DOMAIN s.cache
  <2>1. s.eState = PAGER_WRITER_DBMOD
    BY <1>4 DEF InTx
  <2>2. OnFile(s)
    BY <2>1 DEF OnFile
  <2>3. x \in Out(s, R, r)
    BY <1>2, <1>4, <2>2 DEF Out
  <2> QED
    BY <1>1, <1>2, <1>4, <2>2, <2>3 DEF Holding, OnFile
<1> QED
  BY <1>3, <1>4

\* What is not recorded stays.
LEMMA NotPlayed ==
    ASSUME NEW s, NEW m, NEW R, NEW r, Played(s, m, R, r), NEW x \in 1..r.s.dbSize,
           x \notin PagesIn(R)
    PROVE  Holding(r.s, r.m, x) = Holding(s, m, x)
<1>1. /\ r.s.memDb = s.memDb /\ DOMAIN r.s.cache = DOMAIN s.cache
      /\ \A n \in DOMAIN s.cache :
            r.s.cache[n].c = IF n \in Back(R, r) THEN First(R, n).c
                                                 ELSE s.cache[n].c
      /\ \A n \in 1..MaxPage :
            Read(r.m, n) = IF n \in Out(s, R, r) THEN First(R, n).c
                                                 ELSE Read(m, n)
      /\ r.s.dbSize \in Nat /\ r.s.dbSize <= MaxPage
  BY Sizes DEF Played
<1>2. x \notin Back(R, r) /\ x \notin Out(s, R, r) /\ x \in 1..MaxPage
  BY <1>1, PagerAssumption DEF Back, Out
<1> QED
  BY <1>1, <1>2 DEF Holding

\* After a playback to the savepoint sp, every page is what it saved.
LEMMA PlayedHolds ==
    ASSUME NEW s, Typed(s), JournalOK(s), UnsyncedOK(s), SubOK(s), InTx(s),
           s.eState > PAGER_WRITER_LOCKED,
           s.memDb => s.eState # PAGER_WRITER_DBMOD,
           NEW m, NEW sp, NEW R, IsReplay(s, sp.iOffset, sp.iSubRec, R),
           NEW r, Played(s, m, R, r), NEW x \in 1..r.s.dbSize,
           NEW c, Saved(s, m, sp, x, c)
    PROVE  Holding(r.s, r.m, x) = c
<1>1. CASE \E i \in DOMAIN s.journal :
          i > sp.iOffset /\ s.journal[i].pgno = x /\ s.journal[i].c = c
  <2>1. PICK i \in DOMAIN s.journal :
          i > sp.iOffset /\ s.journal[i].pgno = x /\ s.journal[i].c = c
    BY <1>1
  <2>2. Replayed(R, x, c, i <= s.journalHdr)
    BY <2>1, ReplayedJournal
  <2>3. i \in Nat /\ i > 0 /\ s.journalHdr \in Nat
    <3>1. /\ Len(s.journal) \in Nat /\ DOMAIN s.journal = 1..Len(s.journal)
          /\ s.journalHdr \in 0..Len(s.journal)
      BY JournalDomains DEF Typed
    <3> QED
      BY <3>1
  <2>4. x \notin DOMAIN s.cache => ~(i > s.journalHdr)
    BY <2>1 DEF UnsyncedOK
  <2>5. s.eState = PAGER_WRITER_CACHEMOD => s.journalHdr = 0
    BY DEF UnsyncedOK
  <2>6. x \notin DOMAIN s.cache
        => (i <= s.journalHdr) /\ s.eState # PAGER_WRITER_CACHEMOD
    BY ONLY <2>3, <2>4, <2>5
  <2> QED
    BY <2>2, <2>6, PlayedRecord
<1>2. ASSUME ~InTail(s, sp, x), NEW i \in DOMAIN s.sub,
             i > sp.iSubRec, s.sub[i].pgno = x, s.sub[i].c = c,
             \A l \in DOMAIN s.sub :
                   l > sp.iSubRec /\ s.sub[l].pgno = x => i <= l
      PROVE  Holding(r.s, r.m, x) = c
  <2>1. x \in PagesIn(R)
    BY <1>2, SubInReplay
  <2>2. \A l \in DOMAIN s.journal : l > sp.iOffset => s.journal[l].pgno # x
    BY <1>2 DEF InTail
  <2>3. PICK l \in DOMAIN s.sub :
              /\ l > sp.iSubRec /\ s.sub[l].pgno = x
              /\ Replayed(R, x, s.sub[l].c, SubSafe(s, x))
              /\ \A y \in DOMAIN s.sub : y > sp.iSubRec /\ s.sub[y].pgno = x => l <= y
    BY <2>1, <2>2, ReplayedSub
  <2>4. l = i
    <3>1. l <= i /\ i <= l
      BY <1>2, <2>3
    <3>2. l \in Int /\ i \in Int
      BY JournalDomains
    <3> QED
      BY ONLY <3>1, <3>2
  <2>5. Replayed(R, x, c, SubSafe(s, x))
    BY <1>2, <2>3, <2>4
  <2>6. x \notin DOMAIN s.cache
        => SubSafe(s, x) /\ s.eState # PAGER_WRITER_CACHEMOD
    BY <1>2 DEF SubSafe, SubOK
  <2> QED
    BY <2>5, <2>6, PlayedRecord
<1>3. CASE ~Recorded(s, sp, x, Len(s.sub)) /\ Holding(s, m, x) = c
  <2>1. x \notin PagesIn(R)
    <3> SUFFICES ASSUME x \in PagesIn(R) PROVE FALSE
      OBVIOUS
    <3>2. CASE \E i \in DOMAIN s.journal : i > sp.iOffset /\ s.journal[i].pgno = x
      BY <1>3, <3>2 DEF Recorded, InTail
    <3>3. CASE \E i \in DOMAIN s.sub : i > sp.iSubRec /\ s.sub[i].pgno = x
      <4>1. \A i \in DOMAIN s.sub : i <= Len(s.sub)
        BY JournalDomains
      <4> QED
        BY <1>3, <3>3, <4>1 DEF Recorded, InSubTail
    <3> QED
      BY <3>2, <3>3, ReplayPages
  <2> QED
    BY <1>3, <2>1, NotPlayed
<1> QED
  BY <1>1, <1>2, <1>3 DEF Saved

\* The place of the beginning: before every record of the journal, and after
\* those of the sub-journal.
Beginning(s) == [iOffset |-> 0, iSubRec |-> Len(s.sub)]

\* It saves the database the transaction began with.
LEMMA BeginningSaves ==
    ASSUME NEW s, Typed(s), NEW m, NEW B, Base(s, m, B), NEW x \in 1..s.dbOrigSize
    PROVE  Saved(s, m, Beginning(s), x, B[x])
<1>1. /\ Len(s.journal) \in Nat /\ DOMAIN s.journal = 1..Len(s.journal)
      /\ Len(s.sub) \in Nat /\ DOMAIN s.sub = 1..Len(s.sub)
  BY JournalDomains
<1>2. PICK sp : sp = Beginning(s)
  OBVIOUS
<1>3. sp.iOffset = 0 /\ sp.iSubRec = Len(s.sub)
  BY <1>2 DEF Beginning
<1>4. /\ \A i \in DOMAIN s.journal : i > sp.iOffset
      /\ \A i \in DOMAIN s.sub : ~(i > sp.iSubRec)
  BY ONLY <1>1, <1>3
<1>5. CASE x \in InJournal(s)
  <2>1. PICK i \in DOMAIN s.journal : s.journal[i].pgno = x
    BY <1>5 DEF InJournal, PagesIn
  <2>2. i > sp.iOffset /\ s.journal[i].c = B[x]
    BY <1>4, <2>1 DEF Base
  <2> QED
    BY <1>2, <2>1, <2>2 DEF Saved
<1>6. CASE x \notin InJournal(s)
  <2>1. ~Recorded(s, sp, x, Len(s.sub))
    BY <1>4, <1>6 DEF Recorded, InTail, InSubTail, InJournal, PagesIn
  <2>2. Holding(s, m, x) = B[x]
    BY <1>6 DEF Base, Holding
  <2> QED
    BY <1>2, <2>1, <2>2 DEF Saved
<1> QED
  BY <1>5, <1>6

\* The image of a database that is as large as it was at the beginning.
LEMMA BaseImage ==
    ASSUME NEW m, NEW B, NEW k \in Nat, NEW t,
           k > 0, B[1].vers.nPage = k, t.dbSize = k,
           \A x \in 1..k : Holding(t, m, x) = B[x]
    PROVE  ImageIn(t, m) = Img(B) /\ Img(B) # <<>>
<1>1. ImageIn(t, m) = [x \in 1..k |-> B[x].val]
  BY DEF ImageIn
<1>2. Img(B) = [x \in 1..k |-> B[x].val]
  BY DEF Img
<1>3. Img(B) # <<>>
  <2>1. DOMAIN Img(B) = 1..k
    BY <1>2
  <2>2. 1 \in DOMAIN Img(B)
    BY <2>1
  <2>3. 1 \notin DOMAIN <<>>
    OBVIOUS
  <2> QED
    BY ONLY <2>2, <2>3
<1> QED
  BY <1>1, <1>2, <1>3

\* An empty database has an empty image.
LEMMA EmptyImage ==
    ASSUME NEW s, NEW m, NEW B, Base(s, m, B), s.dbOrigSize = 0
    PROVE  Img(B) = <<>>
<1>1. 1 \in 1..MaxPage /\ 1 > s.dbOrigSize
  BY PagerAssumption
<1>2. B[1] = Zero
  BY <1>1 DEF Base
<1>3. B[1].vers.nPage = 0
  BY <1>2, ZeroContent
<1>4. DOMAIN Img(B) = 1..0
  BY <1>3 DEF Img
<1> QED
  BY <1>3 DEF Img

\* newDatabase() gives an empty image its first page.
LEMMA FirstImage ==
    ASSUME NEW s, Sound(s), NEW m, StoreTyped(m), s.dbSize = 0,
           s.aSavepoint = <<>>, NEW k, NEW t, t = NewDatabase(s, m)
    PROVE  ImageIn(t, k) = <<Zero.val>> /\ t.aSavepoint = <<>> /\ Sound(t)
<1> DEFINE w == FirstPage(s, m)
           c == [val |-> 0, vers |-> [counter |-> 0, nPage |-> 1]]
           u == [w EXCEPT !.cache[1].c = c]
<1>1. t = u
  BY DEF NewDatabase, FirstPage
<1>2. /\ Sound(w) /\ DOMAIN w.cache = DOMAIN s.cache \cup {1}
      /\ w.aSavepoint = <<>>
  BY FirstPageSound
<1>3. c.val = Zero.val
  BY ZeroContent
<1> HIDE DEF w, c
<1>4. Typed(w) /\ 1 \in DOMAIN w.cache /\ IsCache(w.cache)
  BY <1>2 DEF Sound, Typed
<1>5. Edits(w, u, 1, c)
  BY <1>4, EditFacts
<1> HIDE DEF u
<1>6. w.cache[1] \in PageType
  BY <1>4 DEF IsCache
<1>7. /\ u.cache[1].c = c /\ u.aSavepoint = <<>> /\ DOMAIN u.cache = DOMAIN w.cache
  BY <1>2, <1>5, <1>6 DEF Edits, PageType, SameJournals, SameOthers
<1>8. t.dbSize = 1 /\ Sound(t)
  BY NewDatabaseSound
<1>9. Holding(t, k, 1).val = Zero.val
  BY <1>1, <1>3, <1>4, <1>7 DEF Holding
<1>10. ImageIn(t, k) = [n \in 1..1 |-> Holding(t, k, n).val]
  BY <1>8 DEF ImageIn
<1>11. ImageIn(t, k) = <<Zero.val>>
  <2>1. \A n \in 1..1 : n = 1
    OBVIOUS
  <2>2. [n \in 1..1 |-> Holding(t, k, n).val] = [n \in 1..1 |-> Zero.val]
    BY ONLY <1>9, <2>1
  <2>3. <<Zero.val>> = [n \in 1..1 |-> Zero.val]
    OBVIOUS
  <2> QED
    BY ONLY <1>10, <2>2, <2>3
<1> QED
  BY <1>1, <1>7, <1>8, <1>11

\* The image after a replay that goes back to a savepoint, or to the
\* beginning.
LEMMA WentBackImage ==
    ASSUME NEW s, Sound(s), NEW m, StoreTyped(m), NEW B, Tx(s, m, B),
           s.eState # PAGER_WRITER_LOCKED, s.memDb => s.eState # PAGER_WRITER_DBMOD,
           NEW n \in 0..Len(s.aSavepoint), NEW t, NEW k, WentBack(s, m, B, n, t, k)
    PROVE  /\ n \in 0..Len(MarksIn(s, m))
           /\ MarksIn(t, k) = SubSeq(MarksIn(s, m), 1, n)
           /\ ImageIn(t, k) = IF n = 0 THEN IF Img(B) = <<>> THEN <<Zero.val>>
                                            ELSE Img(B)
                              ELSE MarksIn(s, m)[n]
<1>1. PICK r : Replays(s, m, B, n, r) /\ t = NewDatabase(r.s, r.m) /\ k = r.m
  BY DEF WentBack
<1>2. /\ Sound(r.s) /\ Played(s, m, SavepointRecords(s, n), r)
      /\ Fewer(s, r.s, n) /\ Carries(s, m, r.s, r.m)
      /\ r.s.dbSize = SavepointSize(s, n)
      /\ r.s.dbSize = 0 => r.s.aSavepoint = <<>>
  BY <1>1 DEF Replays
<1>3. /\ Typed(r.s) /\ StoreTyped(r.m) /\ Len(r.s.aSavepoint) = n
      /\ r.s.dbSize \in Nat
  BY <1>2, Sizes DEF Played, Fewer
<1>4. /\ Typed(s) /\ JournalOK(s) /\ InTx(s) /\ s.eState > PAGER_WRITER_LOCKED
      /\ UnsyncedOK(s) /\ Base(s, m, B) /\ Tracked(s) /\ Grown(s) /\ SubOK(s)
      /\ s.dbOrigSize > 0 => B[1].vers.nPage = s.dbOrigSize
  BY DEF Sound, Tx, Logged, Headed, InTx, Tracked
<1>5. /\ Rewinds(s, n, SavepointRecords(s, n), SavepointSize(s, n))
      /\ SavepointSize(s, n) = 0 => n = 0
  BY <1>4, RollbackRewinds
<1>6. /\ n \in 0..Len(MarksIn(s, m))
      /\ MarksIn(r.s, r.m) = SubSeq(MarksIn(s, m), 1, n)
      /\ n > 0 => MarksIn(s, m)[n] = MarkIn(s, m, s.aSavepoint[n])
  BY <1>2, <1>3, FewerImages
<1>7. PICK R : R = SavepointRecords(s, n)
  OBVIOUS
<1>8. Played(s, m, R, r)
  BY <1>2, <1>7
<1>9. CASE n > 0
  <2>1. /\ n \in DOMAIN s.aSavepoint /\ r.s.dbSize = s.aSavepoint[n].nOrig
        /\ IsReplay(s, s.aSavepoint[n].iOffset, s.aSavepoint[n].iSubRec, R)
    BY <1>2, <1>5, <1>7, <1>9 DEF Rewinds
  <2>2. r.s.dbSize > 0
    BY <1>2, <1>3, <1>5, <1>9
  <2>3. t = r.s
    BY <1>1, <2>2 DEF NewDatabase
  <2>4. PICK sp : sp = s.aSavepoint[n]
    OBVIOUS
  <2>5. /\ sp \in MarkType /\ sp.iOffset <= Len(s.journal)
        /\ sp.iSubRec <= Len(s.sub) /\ r.s.dbSize = sp.nOrig
        /\ IsReplay(s, sp.iOffset, sp.iSubRec, R)
    BY <1>4, <2>1, <2>4, JournalDomains DEF Sound, MarksInside
  <2>6. ASSUME NEW x \in 1..sp.nOrig
        PROVE  Holding(r.s, r.m, x).val = MarkIn(s, m, sp)[x]
    <3>1. PICK c \in Content : Saved(s, m, sp, x, c) /\ MarkIn(s, m, sp)[x] = c.val
      BY <1>4, <2>5, MarkIs
    <3>2. Holding(r.s, r.m, x) = c
      <4>1. x \in 1..r.s.dbSize
        BY <2>5
      <4> QED
        BY <1>4, <1>8, <2>5, <3>1, <4>1, PlayedHolds
    <3> QED
      BY <3>1, <3>2
  <2>7. MarkIn(s, m, sp) = [x \in 1..sp.nOrig |-> MarkIn(s, m, sp)[x]]
    BY DEF MarkIn
  <2>8. ImageIn(r.s, r.m) = [x \in 1..sp.nOrig |-> Holding(r.s, r.m, x).val]
    BY <2>5 DEF ImageIn
  <2>9. [x \in 1..sp.nOrig |-> Holding(r.s, r.m, x).val]
        = [x \in 1..sp.nOrig |-> MarkIn(s, m, sp)[x]]
    BY ONLY <2>6
  <2>10. ImageIn(t, k) = MarkIn(s, m, s.aSavepoint[n])
    BY ONLY <1>1, <2>3, <2>4, <2>7, <2>8, <2>9
  <2> QED
    BY <1>1, <1>6, <1>9, <2>3, <2>10
<1>10. CASE ~(n > 0)
  <2>1. n = 0
    BY <1>10, <1>4, JournalDomains
  <2>2. r.s.dbSize = s.dbOrigSize /\ IsReplay(s, 0, Len(s.sub), R)
    BY <1>2, <1>5, <1>7, <2>1 DEF Rewinds
  <2>3. CASE r.s.dbSize > 0
    <3>1. t = r.s
      BY <1>1, <2>3 DEF NewDatabase
    <3>2. PICK sp : sp = Beginning(s)
      OBVIOUS
    <3>3. IsReplay(s, sp.iOffset, sp.iSubRec, R)
      BY <2>2, <3>2 DEF Beginning
    <3>4. ASSUME NEW x \in 1..r.s.dbSize
          PROVE  Holding(r.s, r.m, x) = B[x]
      <4>1. Saved(s, m, sp, x, B[x])
        BY <1>4, <2>2, <3>2, BeginningSaves
      <4> QED
        BY <1>4, <1>8, <3>3, <4>1, PlayedHolds
    <3>5. B[1].vers.nPage = r.s.dbSize
      BY <1>4, <2>2, <2>3
    <3>6. ImageIn(r.s, r.m) = Img(B) /\ Img(B) # <<>>
      BY <1>3, <2>3, <3>4, <3>5, BaseImage
    <3> QED
      BY <1>1, <1>6, <2>1, <3>1, <3>6
  <2>4. CASE ~(r.s.dbSize > 0)
    <3>1. r.s.dbSize = 0 /\ r.s.aSavepoint = <<>> /\ s.dbOrigSize = 0
      BY <1>2, <1>3, <2>2, <2>4
    <3>2. Img(B) = <<>>
      BY <1>4, <3>1, EmptyImage
    <3>3. ImageIn(t, k) = <<Zero.val>> /\ t.aSavepoint = <<>> /\ Sound(t)
      BY <1>1, <1>2, <1>3, <3>1, FirstImage
    <3>4. Carries(s, m, t, k) /\ Len(t.aSavepoint) = n
      <4>1. Len(t.aSavepoint) = 0 /\ Len(s.aSavepoint) \in Nat
        BY <1>4, <3>3, EmptySeq, JournalDomains
      <4> QED
        BY <2>1, <4>1 DEF Carries
    <3>5. MarksIn(t, k) = SubSeq(MarksIn(s, m), 1, n)
      <4>1. StoreTyped(k) /\ Sound(t)
        BY <1>1, <1>3, <3>3
      <4> QED
        BY ONLY Sound(s), StoreTyped(m), <3>4, <4>1, FewerImages
    <3> QED
      BY <1>6, <2>1, <3>2, <3>3, <3>5
  <2> QED
    BY <2>3, <2>4
<1> QED
  BY <1>9, <1>10

\* Such a replay is a step back for the mapping.
LEMMA WentBackRefines ==
    ASSUME Seen, Seen', NEW B, CommittedIs(B), CommittedIs(B)', NEW p \in Pagers,
           InTx(pager[p]), pager[p].eState # PAGER_WRITER_LOCKED,
           NEW n \in 0..Len(pager[p].aSavepoint),
           WentBack(pager[p], store, B, n, pager'[p], store')
    PROVE  Refines
<1>1. DataInv
  BY DEF Seen, StoreInv
<1>2. /\ Sound(pager[p]) /\ StoreTyped(store) /\ Owning(pager[p])
      /\ Tx(pager[p], store, B)
      /\ pager[p].memDb => pager[p].eState # PAGER_WRITER_DBMOD
  BY <1>1, OwnTx
<1>3. InTx(pager'[p])
  <2>1. PICK r : /\ Replays(pager[p], store, B, n, r)
                 /\ pager'[p] = NewDatabase(r.s, r.m)
    BY DEF WentBack
  <2> QED
    BY <2>1, ReplaysTx
<1>4. Owning(pager'[p])
  BY <1>3 DEF InTx, Owning
<1>5. /\ TheOwner = p /\ Committed = Img(B)
      /\ Marks = MarksIn(pager[p], store) /\ TheOwner # None
  BY <1>2, SeenOf
<1>6. /\ TheOwner' = p /\ Committed' = Img(B)
      /\ Working' = ImageIn(pager'[p], store')
      /\ Marks' = MarksIn(pager'[p], store')
  BY <1>4, SeenNext
<1>7. PICK s, m, t, k :
         s = pager[p] /\ m = store /\ t = pager'[p] /\ k = store'
  OBVIOUS
<1>8. /\ Sound(s) /\ StoreTyped(m) /\ Tx(s, m, B)
      /\ s.eState # PAGER_WRITER_LOCKED
      /\ s.memDb => s.eState # PAGER_WRITER_DBMOD
      /\ n \in 0..Len(s.aSavepoint) /\ WentBack(s, m, B, n, t, k)
  BY <1>2, <1>7
<1>9. /\ n \in 0..Len(MarksIn(s, m))
      /\ MarksIn(t, k) = SubSeq(MarksIn(s, m), 1, n)
      /\ ImageIn(t, k) = IF n = 0 THEN IF Img(B) = <<>> THEN <<Zero.val>>
                                       ELSE Img(B)
                         ELSE MarksIn(s, m)[n]
  BY ONLY <1>8, WentBackImage
<1>10. n \in 0..Len(Marks) /\ Marks' = SubSeq(Marks, 1, n)
  BY ONLY <1>5, <1>6, <1>7, <1>9
<1>11. Working' = IF n = 0 THEN TheStore!First ELSE Marks[n]
  BY ONLY <1>5, <1>6, <1>7, <1>9 DEF TheStore!First
<1>12. TheStore!BackTo(n)
  BY ONLY <1>5, <1>6, <1>10, <1>11 DEF TheStore!BackTo
<1> QED
  BY ONLY <1>5, <1>10, <1>12 DEF Refines, TheStore!Next, TheStore!Working

\* sqlite3PagerSavepoint, SAVEPOINT_ROLLBACK
LEMMA RollbackToSavepointRefines ==
    ASSUME Seen, Seen', NEW p \in Pagers, NEW n \in 0..MaxSavepoints,
           RollbackToSavepoint(p, n)
    PROVE  Refines
<1>1. PICK B : CommittedIs(B)
  BY DEF Seen, StoreInv, StoreOK
<1>2. /\ DataInv /\ DataInv' /\ InTx(pager[p])
      /\ n <= Len(pager[p].aSavepoint)
  BY DEF Seen, StoreInv, RollbackToSavepoint, Writing, InTx
<1>3. /\ pager[p].eState = PAGER_WRITER_LOCKED =>
            /\ CommittedIs(B)' /\ store' = store
            /\ Released(pager[p], pager'[p], n)
      /\ pager[p].eState # PAGER_WRITER_LOCKED =>
            \/ CommittedIs(B)'
               /\ WentBack(pager[p], store, B, n, pager'[p], store')
            \/ StoreOK' /\ Settled(pager'[p], store', B)
  BY <1>1, <1>2, RollbackToSavepointKeepsStore
<1>4. Sound(pager[p]) /\ Owning(pager[p])
  BY <1>1, <1>2, OwnTx
<1>5. n \in 0..Len(pager[p].aSavepoint)
  BY <1>2, <1>4, JournalDomains, PagerAssumption DEF Sound
<1>6. CASE pager[p].eState = PAGER_WRITER_LOCKED
  BY <1>1, <1>2, <1>3, <1>6, ReleasedRefines
<1>7. CASE /\ pager[p].eState # PAGER_WRITER_LOCKED
           /\ CommittedIs(B)'
           /\ WentBack(pager[p], store, B, n, pager'[p], store')
  BY <1>1, <1>2, <1>5, <1>7, WentBackRefines
<1>8. CASE Settled(pager'[p], store', B)
  BY <1>1, <1>4, <1>8, UndoneRefines
<1> QED
  BY <1>3, <1>6, <1>7, <1>8
-----------------------------------------------------------------------------
(* Beginning a transaction, and every step.                                *)

\* The image a pager of an in-memory database begins with.
LEMMA CacheImageIn ==
    ASSUME NEW s, NEW k, Reading(s, k), s.memDb,
           1 \in DOMAIN s.cache => s.cache[1].c.vers.nPage = s.dbSize, NEW m
    PROVE  ImageIn(s, m) = Img(CacheImage(s))
<1>1. Typed(s) /\ (s.dbSize > 0 => 1 \in DOMAIN s.cache)
  BY DEF Reading, Idle
<1>2. /\ s.dbSize \in Nat /\ s.dbSize <= MaxPage /\ MaxPage \in Nat
      /\ 1 \in 1..MaxPage
  BY <1>1, Sizes, PagerAssumption
<1>3. PICK C : C = CacheImage(s)
  OBVIOUS
<1>4. \A n \in 1..MaxPage :
         C[n] = IF n \in DOMAIN s.cache /\ n <= s.dbSize THEN s.cache[n].c ELSE Zero
  BY <1>3 DEF CacheImage
<1>5. C[1].vers.nPage = s.dbSize
  <2>1. CASE s.dbSize > 0
    <3>1. 1 \in DOMAIN s.cache /\ 1 <= s.dbSize
      BY <1>1, <1>2, <2>1
    <3> QED
      BY <1>2, <1>4, <3>1
  <2>2. CASE ~(s.dbSize > 0)
    <3>1. s.dbSize = 0 /\ ~(1 <= s.dbSize)
      BY <1>2, <2>2
    <3>2. C[1] = Zero
      BY <1>2, <1>4, <3>1
    <3> QED
      BY <3>1, <3>2, ZeroContent
  <2> QED
    BY <2>1, <2>2
<1>6. ASSUME NEW n \in 1..s.dbSize PROVE Holding(s, m, n).val = C[n].val
  <2>1. n \in 1..MaxPage /\ n <= s.dbSize
    BY <1>2
  <2>2. C[n] = IF n \in DOMAIN s.cache THEN s.cache[n].c ELSE Zero
    BY <1>4, <2>1
  <2> QED
    BY <2>2 DEF Holding
<1>7. [n \in 1..s.dbSize |-> Holding(s, m, n).val] = [n \in 1..s.dbSize |-> C[n].val]
  BY ONLY <1>6
<1>8. Img(C) = [n \in 1..s.dbSize |-> C[n].val]
  BY <1>5 DEF Img
<1> QED
  BY <1>3, <1>7, <1>8 DEF ImageIn

\* Before it begins, a pager sees the database it begins with.
LEMMA ReaderSees ==
    ASSUME Seen, NEW B, CommittedIs(B), NEW p \in Pagers,
           pager[p].eState = PAGER_READER,
           NEW C, C = IF pager[p].memDb THEN CacheImage(pager[p]) ELSE B
    PROVE  /\ TheOwner = None /\ Working = <<>> /\ Marks = <<>>
           /\ Committed = Img(C)
<1>1. DataInv /\ SeenIdle
  BY DEF Seen, StoreInv
<1>2. \A q \in Pagers : ~Owning(pager[q])
  BY <1>1, ReaderAlone
<1>3. TheOwner = None /\ Working = <<>> /\ Marks = <<>>
  BY <1>1, <1>2 DEF SeenIdle
<1>4. CASE pager[p].memDb
  <2>1. Committed = ImageIn(pager[p], store)
    BY <1>1, <1>2, <1>4 DEF SeenIdle
  <2>2. LocalOK(pager[p], store.szMax) /\ HoldsOK(pager[p], store, B)
    BY <1>1, PagersTyped DEF CommittedIs
  <2>3. Reading(pager[p], store.szMax)
    BY <2>2, LocalCases
  <2>4. 1 \in DOMAIN pager[p].cache
        => pager[p].cache[1].c.vers.nPage = pager[p].dbSize
    BY <1>4, <2>2 DEF HoldsOK
  <2>5. ImageIn(pager[p], store) = Img(CacheImage(pager[p]))
    BY <1>4, <2>3, <2>4, CacheImageIn
  <2> QED
    BY <1>3, <1>4, <2>1, <2>5
<1>5. CASE ~pager[p].memDb
  <2>1. \A q \in Pagers : ~pager[q].memDb
    BY <1>1, <1>5, OpenOnes
  <2>2. Committed = Img(B)
    BY <1>1, <1>2, <2>1 DEF SeenIdle
  <2> QED
    BY <1>3, <1>5, <2>2
<1> QED
  BY <1>4, <1>5

\* The image when a transaction has begun: the committed one, or a first
\* page.
LEMMA BegunImage ==
    ASSUME NEW s, NEW lock, NEW w, Starts(s, lock, w), NEW m, StoreTyped(m),
           NEW t, t = NewDatabase(w, m), NEW k, NEW C, Tx(t, k, C),
           w.dbSize > 0 => 1 \in DOMAIN w.cache
    PROVE  /\ MarksIn(t, k) = <<>> /\ InTx(t)
           /\ ImageIn(t, k) = IF Img(C) = <<>> THEN <<Zero.val>> ELSE Img(C)
<1>1. /\ Typed(w) /\ Sound(w) /\ Blank(w) /\ w.aSavepoint = <<>>
      /\ w.dbOrigSize = w.dbSize
  BY DEF Starts
<1>2. w.dbSize \in Nat
  BY <1>1, Sizes
<1>3. SameFile(w, t)
  BY <1>1, NewDatabaseSound
<1>4. /\ Base(t, k, C) /\ t.dbOrigSize = w.dbSize
      /\ t.dbOrigSize > 0 => C[1].vers.nPage = t.dbOrigSize
  BY <1>1, <1>3 DEF Tx, Logged, Headed, SameFile
<1>5. CASE w.dbSize > 0
  <2>1. t = w
    BY <1>5 DEF NewDatabase
  <2>2. InJournal(t) = {}
    <3>1. DOMAIN t.journal = {}
      BY <1>1, <2>1 DEF Blank
    <3> QED
      BY <3>1 DEF InJournal, PagesIn
  <2>3. ASSUME NEW x \in 1..w.dbSize PROVE Holding(t, k, x) = C[x]
    <3>1. x \in 1..t.dbOrigSize /\ x \notin InJournal(t)
      BY <1>4, <2>2
    <3> QED
      BY <1>4, <3>1 DEF Base, Holding
  <2>4. t.dbSize = w.dbSize /\ C[1].vers.nPage = w.dbSize
    BY <1>4, <1>5, <2>1
  <2>5. ImageIn(t, k) = Img(C) /\ Img(C) # <<>>
    BY ONLY <1>2, <1>5, <2>3, <2>4, BaseImage
  <2>6. t.aSavepoint = <<>> /\ Sound(t)
    BY <1>1, <2>1
  <2> QED
    BY <2>5, <2>6 DEF MarksIn, Sound
<1>6. CASE ~(w.dbSize > 0)
  <2>1. w.dbSize = 0 /\ t.dbOrigSize = 0
    BY <1>2, <1>4, <1>6
  <2>2. Img(C) = <<>>
    BY <1>4, <2>1, EmptyImage
  <2>3. ImageIn(t, k) = <<Zero.val>> /\ t.aSavepoint = <<>> /\ Sound(t)
    BY <1>1, <2>1, FirstImage
  <2> QED
    BY <2>2, <2>3 DEF MarksIn, Sound
<1> QED
  BY <1>5, <1>6

\* sqlite3BtreeBeginTrans, while nobody else reads
LEMMA BeginWriteRefines ==
    ASSUME Seen, Seen', NEW p \in Pagers, NEW exFlag \in BOOLEAN,
           BeginWrite(p, exFlag), Turns
    PROVE  Refines
<1>1. PICK B : CommittedIs(B)
  BY DEF Seen, StoreInv, StoreOK
<1>2. DataInv /\ DataInv' /\ pager[p].eState = PAGER_READER
  BY DEF Seen, StoreInv, BeginWrite
<1>3. PICK C : /\ CommittedIs(C)'
               /\ C = IF pager[p].memDb THEN CacheImage(pager[p]) ELSE B
  BY <1>1, <1>2, BeginWriteKeepsStore
<1>4. PICK lock, w : /\ Starts(pager[p], lock, w)
                     /\ pager'[p] = NewDatabase(w, store)
  BY <1>1, <1>2, BeginWriteKeepsStore
<1>5. /\ TheOwner = None /\ Working = <<>> /\ Marks = <<>>
      /\ Committed = Img(C)
  BY <1>1, <1>2, <1>3, ReaderSees
<1>6. /\ StoreTyped(store) /\ HoldsOK(pager'[p], store', C)
      /\ LocalOK(pager[p], store.szMax)
  BY <1>2, <1>3, PagersTyped DEF CommittedIs
<1>7. w.dbSize > 0 => 1 \in DOMAIN w.cache
  BY <1>2, <1>4, <1>6, LocalCases DEF Starts, Reading
<1>8. InTx(pager'[p])
  <2>1. Sound(w) /\ w.aSavepoint = <<>>
    BY <1>4 DEF Starts
  <2>2. Sound(NewDatabase(w, store))
    BY <1>6, <1>7, <2>1, NewDatabaseSound
  <2> QED
    BY <1>4, <2>2 DEF Sound
<1>9. Tx(pager'[p], store', C)
  BY <1>6, <1>8 DEF HoldsOK
<1>10. /\ MarksIn(pager'[p], store') = <<>>
       /\ ImageIn(pager'[p], store')
             = IF Img(C) = <<>> THEN <<Zero.val>> ELSE Img(C)
  BY ONLY <1>4, <1>6, <1>7, <1>9, BegunImage
<1>11. Owning(pager'[p])
  BY <1>8 DEF InTx, Owning
<1>12. /\ TheOwner' = p /\ Committed' = Img(C)
       /\ Working' = ImageIn(pager'[p], store')
       /\ Marks' = MarksIn(pager'[p], store')
  BY <1>3, <1>11, SeenNext
<1>13. TheStore!Begin
  BY ONLY p \in Pagers, <1>5, <1>10, <1>12 DEF TheStore!Begin, TheStore!First
<1> QED
  BY ONLY <1>13 DEF Refines, TheStore!Next

\* The marks, for the owner if there is one.
LEMMA MarksSeen ==
    Marks = IF TheOwner = None THEN <<>> ELSE MarksIn(pager[TheOwner], store)
<1>1. PICK owner : owner = TheOwner
  OBVIOUS
<1>2. \A sp : SavedImage(pager[owner], sp) = MarkIn(pager[owner], store, sp)
  BY SavedImageIn
<1> QED
  BY <1>1, <1>2 DEF Marks, MarksIn

\* What stays the same looks the same.
LEMMA StutterRefines == UNCHANGED vars => UNCHANGED TheStore!storeVars
<1>1. Marks = IF TheOwner = None THEN <<>> ELSE MarksIn(pager[TheOwner], store)
  BY MarksSeen
<1>2. (Marks = IF TheOwner = None THEN <<>>
                ELSE MarksIn(pager[TheOwner], store))'
  BY <1>1, PTL
<1> SUFFICES ASSUME pager' = pager, store' = store
             PROVE  UNCHANGED TheStore!storeVars
  BY DEF vars
<1>3. TheOwner' = TheOwner
  BY DEF TheOwner, HasTransaction
<1>4. Committed' = Committed
  BY <1>3 DEF Committed, OriginalImage, ImageOf, Sees
<1>5. Working' = Working
  BY <1>3 DEF Working, ImageOf, Sees
<1>6. Marks' = Marks
  BY <1>1, <1>2, <1>3
<1> QED
  BY <1>3, <1>4, <1>5, <1>6 DEF TheStore!storeVars

\* Every step is one of the abstract store, or none.
LEMMA StepRefines ==
    ASSUME Turns, ~FirstUndone, ~LateFull, Seen, Seen', [Next]_vars
    PROVE  [TheStore!Next]_(TheStore!storeVars)
<1>1. CASE UNCHANGED vars
  BY <1>1, StutterRefines
<1>2. ASSUME NEW p \in Pagers, NEW memDb \in BOOLEAN, Open(p, memDb) PROVE Refines
  BY ONLY Seen, Seen', <1>2, OpenRefines
<1>3. ASSUME NEW p \in Pagers, Close(p) \/ BeginRead(p) \/ EndRead(p) PROVE Refines
  BY ONLY Seen, Seen', <1>3, CloseRefines, BeginReadRefines, EndReadRefines
<1>4. ASSUME NEW p \in Pagers, NEW exFlag \in BOOLEAN, BeginWrite(p, exFlag)
      PROVE  Refines
  BY ONLY Turns, Seen, Seen', <1>4, BeginWriteRefines
<1>5. ASSUME NEW p \in Pagers, NEW n \in 1..MaxPage,
             Get(p, n) \/ Evict(p, n) \/ Spill(p, n)
      PROVE  Refines
  BY ONLY ~LateFull, Seen, Seen', <1>5, GetRefines, EvictRefines, SpillRefines
<1>6. ASSUME NEW p \in Pagers, NEW n \in 1..MaxPage, NEW v \in Vals, Write(p, n, v)
      PROVE  Refines
  BY ONLY Seen, Seen', <1>6, WriteRefines
<1>7. ASSUME NEW p \in Pagers, NEW v \in Vals, Allocate(p, v) PROVE Refines
  BY ONLY Seen, Seen', <1>7, AllocateRefines
<1>8. ASSUME NEW p \in Pagers, NEW n \in 1..MaxSavepoints, OpenSavepoint(p, n)
      PROVE  Refines
  BY ONLY Seen, Seen', <1>8, OpenSavepointRefines
<1>9. ASSUME NEW p \in Pagers, NEW n \in 0..MaxSavepoints,
             ReleaseSavepoint(p, n) \/ RollbackToSavepoint(p, n)
      PROVE  Refines
  BY ONLY Seen, Seen', <1>9, ReleaseSavepointRefines, RollbackToSavepointRefines
<1>10. ASSUME NEW p \in Pagers, NEW size \in 1..MaxPage, CommitPhaseOne(p, size)
       PROVE  Refines
  BY ONLY Seen, Seen', <1>10, CommitPhaseOneRefines
<1>11. ASSUME NEW p \in Pagers, CommitPhaseTwo(p) \/ Rollback(p) PROVE Refines
  BY ONLY ~FirstUndone, Seen, Seen', <1>11, CommitPhaseTwoRefines, RollbackRefines
<1>12. CASE Next
  <2>1. Refines
    BY <1>12, <1>2, <1>3, <1>4, <1>5, <1>6, <1>7, <1>8, <1>9, <1>10, <1>11 DEF Next
  <2> QED
    BY <2>1 DEF Refines
<1> QED
  BY <1>1, <1>12

\* The invariant tells what the mapping sees.
LEMMA StoreSeen == StoreInv => Seen
BY StoreSeenOwned, StoreSeenIdle DEF Seen

\* The pager implements the abstract store: the other connections see the
\* committed image until the commit, and then all of it; a rollback, a
\* rollback to a savepoint, and a recovery restore the images they should.
THEOREM PagerImplementsStore ==
    ASSUME Turns, ~FirstUndone, ~LateFull PROVE Spec => ImplementsStore
<1>1. StoreInv => Seen
  BY StoreSeen
<1>2. Seen /\ Seen' /\ [Next]_vars => [TheStore!Next]_(TheStore!storeVars)
  BY StepRefines
<1>3. Init => TheStore!Init
  BY InitRefines
<1>4. Spec => []StoreInv
  BY StoreInvHolds
<1> QED
  BY <1>1, <1>2, <1>3, <1>4, PTL DEF Spec, ImplementsStore, TheStore!Spec
=============================================================================
