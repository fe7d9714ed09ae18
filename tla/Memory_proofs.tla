--------------------------- MODULE Memory_proofs ---------------------------
(***************************************************************************)
(* Proofs about Memory, for any connections, statements and memory sizes.  *)
(*                                                                         *)
(* The invariant HeapInv is the three invariants of the module and one more *)
(* fact: what lies above the size of the memory is free, so a block that   *)
(* malloc gets by growing the memory is nobody's.  The argument has three  *)
(* parts: what malloc and Give return (MallocFacts, GiveFacts), how the    *)
(* names of the blocks may change (NamesOK says of any handles and owners  *)
(* what HandlesOwned says of the variables; the four lemmas after it are   *)
(* the four ways a method changes a name), and one lemma per method, which *)
(* puts the two together.                                                  *)
(***************************************************************************)
EXTENDS Memory, WellFoundedInduction, NaturalsInduction, TLAPS

Owner == {"free", "library", "binding", "nobody"}

\* A memory in which what lies above the size is free.
HeapOK(m) == /\ m \in MemType
             /\ \A b \in Blocks : b > m.size => m.owner[b] = "free"

HeapInv == /\ TypeOK /\ HandlesOwned /\ NothingHeld /\ HeapOK(mem)
-----------------------------------------------------------------------------
\* The lowest free block exists whenever there is a free block.
LEMMA LowestBlock ==
    ASSUME NEW S \in SUBSET Nat, S # {}
    PROVE  \E b \in S : \A c \in S : b <= c
<1>1. PICK b \in S : \A c \in S : ~(<<c, b>> \in OpToRel(<, Nat))
  BY NatLessThanWellFounded, WFMin
<1>2. \A c \in S : ~(c < b)
  BY <1>1 DEF OpToRel
<1> QED  BY <1>2

\* malloc returns a block that was free and now belongs to who, or 0 and
\* then nothing changed.
LEMMA MallocFacts ==
    ASSUME NEW m, HeapOK(m), NEW who \in Owner, NEW fits \in BOOLEAN
    PROVE  /\ HeapOK(malloc(m, who, fits).mem)
           /\ malloc(m, who, fits).mem.damaged = m.damaged
           /\ malloc(m, who, fits).mem.size >= m.size
           /\ malloc(m, who, fits).ptr \in Blocks \cup {0}
           /\ malloc(m, who, fits).ptr = 0 => malloc(m, who, fits).mem = m
           /\ malloc(m, who, fits).ptr # 0 =>
                /\ m.owner[malloc(m, who, fits).ptr] = "free"
                /\ malloc(m, who, fits).ptr <= malloc(m, who, fits).mem.size
                /\ malloc(m, who, fits).mem.owner
                     = [m.owner EXCEPT ![malloc(m, who, fits).ptr] = who]
<1> USE MemoryAssumption
<1>1. m \in MemType /\ Free(m) \in SUBSET Nat
  BY DEF HeapOK, Free, MemType
<1>2. CASE fits /\ Free(m) # {}
  <2> DEFINE b == CHOOSE b \in Free(m) : \A c \in Free(m) : b <= c
  <2>1. b \in Free(m)
    BY <1>1, <1>2, LowestBlock
  <2>2. malloc(m, who, fits) = [mem |-> [m EXCEPT !.owner[b] = who], ptr |-> b]
    BY <1>2 DEF malloc
  <2> HIDE DEF b
  <2>3. b \in 1..m.size /\ m.owner[b] = "free" /\ b \in Blocks /\ b # 0
    BY <1>1, <2>1 DEF Free, MemType, Blocks
  <2> DEFINE n == [m EXCEPT !.owner[b] = who]
  <2>4. /\ n \in MemType /\ n.size = m.size /\ n.damaged = m.damaged
        /\ n.owner = [m.owner EXCEPT ![b] = who]
    BY <1>1, <2>3 DEF MemType, Owner
  <2> HIDE DEF n
  <2>5. malloc(m, who, fits).mem = n /\ malloc(m, who, fits).ptr = b
    BY <2>2 DEF n
  <2>6. HeapOK(n)
    BY <1>1, <2>3, <2>4 DEF HeapOK, MemType, Blocks
  <2>7. n.size \in Int /\ b <= n.size /\ n.size >= m.size
    BY <1>1, <2>3, <2>4 DEF MemType
  <2> QED  BY <2>3, <2>4, <2>5, <2>6, <2>7
<1>3. CASE fits /\ Free(m) = {} /\ CanGrow(m)
  <2>1. malloc(m, who, fits)
          = [mem |-> [m EXCEPT !.size = @ + 1, !.owner[m.size + 1] = who],
             ptr |-> m.size + 1]
    BY <1>3 DEF malloc
  <2>2. /\ m.size + 1 \in Blocks /\ m.size \in InitialSize..MaxSize
        /\ m.size + 1 \in InitialSize..MaxSize
        /\ m.owner[m.size + 1] = "free"
    BY <1>1, <1>3 DEF HeapOK, MemType, CanGrow, Blocks
  <2> DEFINE k == m.size + 1
             n == [m EXCEPT !.size = @ + 1, !.owner[m.size + 1] = who]
  <2>3. /\ n \in MemType /\ n.size = k /\ n.damaged = m.damaged
        /\ n.owner = [m.owner EXCEPT ![k] = who]
    BY <1>1, <2>2 DEF MemType, Owner
  <2>4. k # 0 /\ k <= k /\ k >= m.size
    BY <2>2 DEF Blocks
  <2>5. malloc(m, who, fits).mem = n /\ malloc(m, who, fits).ptr = k
    BY <2>1
  <2>6. k \in Blocks /\ m.owner[k] = "free"
    BY <2>2
  <2> HIDE DEF n
  <2>7. HeapOK(n)
    BY <1>1, <2>2, <2>3 DEF HeapOK, MemType, Blocks
  <2> HIDE DEF k
  <2> QED  BY <2>3, <2>4, <2>5, <2>6, <2>7
<1>4. CASE ~fits \/ (Free(m) = {} /\ ~CanGrow(m))
  <2>1. malloc(m, who, fits) = [mem |-> m, ptr |-> 0]
    BY <1>4 DEF malloc
  <2>2. m.size \in Int
    BY <1>1 DEF MemType
  <2> QED  BY <2>1, <2>2
<1> QED  BY <1>2, <1>3, <1>4

\* Handing a block over changes its owner and nothing else.
LEMMA GiveFacts ==
    ASSUME NEW m, HeapOK(m), NEW who \in Owner, NEW p \in Blocks \cup {0},
           who = "free" \/ p <= m.size
    PROVE  /\ HeapOK(Give(m, p, who))
           /\ Give(m, p, who).damaged = m.damaged
           /\ Give(m, p, who).size = m.size
           /\ p = 0 => Give(m, p, who) = m
           /\ p # 0 => Give(m, p, who).owner = [m.owner EXCEPT ![p] = who]
<1> USE MemoryAssumption
<1>1. CASE p = 0
  BY <1>1 DEF Give, Blocks
<1>2. CASE p \in Blocks
  <2> DEFINE n == [m EXCEPT !.owner[p] = who]
  <2>1. m \in MemType /\ Give(m, p, who) = n /\ p # 0
    BY <1>2 DEF HeapOK, Give, Blocks
  <2>2. /\ n \in MemType /\ n.size = m.size /\ n.damaged = m.damaged
        /\ n.owner = [m.owner EXCEPT ![p] = who]
    BY <1>2, <2>1 DEF MemType, Owner
  <2> HIDE DEF n
  <2>3. HeapOK(n)
    BY <1>2, <2>2, <2>1 DEF HeapOK, MemType, Blocks
  <2> QED  BY <2>1, <2>2, <2>3
<1> QED  BY <1>1, <1>2
-----------------------------------------------------------------------------
(* Handles.                                                                *)

NamesOK(cs, ss, ow) ==
    /\ \A c \in Conns : \A d \in Conns \ {c} : cs[c] \in Blocks => cs[c] # cs[d]
    /\ \A c \in Conns, s \in Stmts :
          cs[c] \in Blocks => cs[c] # ss[s].handle /\ cs[c] # ss[s].blob
    /\ \A s \in Stmts : \A t \in Stmts \ {s} :
          /\ ss[s].handle \in Blocks => ss[s].handle # ss[t].handle
          /\ ss[s].blob # 0 => ss[s].blob # ss[t].blob
    /\ \A s, t \in Stmts : ss[s].handle \in Blocks => ss[s].handle # ss[t].blob
    /\ \A c \in Conns : cs[c] \in Blocks => ow[cs[c]] = "library"
    /\ \A s \in Stmts : /\ ss[s].handle \in Blocks => ow[ss[s].handle] = "library"
                        /\ ss[s].blob \in Blocks => ow[ss[s].blob] = "library"

LEMMA NamesNow == HandlesOwned <=> NamesOK(conns, stmts, mem.owner)
BY DEF HandlesOwned, NamesOK, Named, Live

LEMMA NamesNext == HandlesOwned' <=> NamesOK(conns', stmts', mem'.owner)
BY DEF HandlesOwned, NamesOK, Named, Live

ConnsType == [Conns -> Handle]
StmtsType == [Stmts -> [handle : Handle, blob : Blocks \cup {0}]]

\* The library keeps the blocks outside S.
Keeps(ow, ow2, S) == \A b \in Blocks \ S : ow[b] = "library" => ow2[b] = "library"

LEMMA NamesKept ==
    ASSUME NEW cs, NEW ss, NEW ow, NEW ow2, NamesOK(cs, ss, ow),
           Keeps(ow, ow2, {})
    PROVE  NamesOK(cs, ss, ow2)
BY DEF NamesOK, Keeps

\* A connection names a block the library has just taken.
LEMMA ConnNamed ==
    ASSUME NEW cs \in ConnsType, NEW ss, NEW ow, NEW ow2, NamesOK(cs, ss, ow),
           Keeps(ow, ow2, {}), NEW c \in Conns, NEW h \in Handle,
           h \in Blocks => ow[h] # "library" /\ ow2[h] = "library"
    PROVE  NamesOK([cs EXCEPT ![c] = h], ss, ow2)
<1> DEFINE ds == [cs EXCEPT ![c] = h]
<1>1. ds[c] = h /\ \A d \in Conns \ {c} : ds[d] = cs[d]
  BY DEF ConnsType
<1> HIDE DEF ds
<1>2. NamesOK(ds, ss, ow2)
  <2>1. \A b \in Conns : \A d \in Conns \ {b} : ds[b] \in Blocks => ds[b] # ds[d]
    BY <1>1 DEF NamesOK
  <2>2. \A b \in Conns, s \in Stmts :
          ds[b] \in Blocks => ds[b] # ss[s].handle /\ ds[b] # ss[s].blob
    BY <1>1 DEF NamesOK
  <2>3. \A b \in Conns : ds[b] \in Blocks => ow2[ds[b]] = "library"
    BY <1>1 DEF NamesOK, Keeps
  <2> QED  BY <2>1, <2>2, <2>3 DEF NamesOK, Keeps
<1> QED  BY <1>2 DEF ds

\* A statement names a block the library has just taken.
LEMMA StmtNamed ==
    ASSUME NEW cs, NEW ss \in StmtsType, NEW ow, NEW ow2, NamesOK(cs, ss, ow),
           Keeps(ow, ow2, {}), NEW s \in Stmts, NEW h \in Handle,
           h \in Blocks => ow[h] # "library" /\ ow2[h] = "library"
    PROVE  NamesOK(cs, [ss EXCEPT ![s].handle = h], ow2)
<1> DEFINE ts == [ss EXCEPT ![s].handle = h]
<1>1. /\ ts[s].handle = h /\ ts[s].blob = ss[s].blob
      /\ \A t \in Stmts \ {s} : ts[t] = ss[t]
  BY DEF StmtsType
<1> HIDE DEF ts
<1>2. NamesOK(cs, ts, ow2)
  <2>1. \A c \in Conns, t \in Stmts :
          cs[c] \in Blocks => cs[c] # ts[t].handle /\ cs[c] # ts[t].blob
    BY <1>1 DEF NamesOK
  <2>2. \A t \in Stmts : \A u \in Stmts \ {t} :
          /\ ts[t].handle \in Blocks => ts[t].handle # ts[u].handle
          /\ ts[t].blob # 0 => ts[t].blob # ts[u].blob
    BY <1>1 DEF NamesOK
  <2>3. \A t, u \in Stmts : ts[t].handle \in Blocks => ts[t].handle # ts[u].blob
    <3> SUFFICES ASSUME NEW t \in Stmts, NEW u \in Stmts, ts[t].handle \in Blocks
                 PROVE  ts[t].handle # ts[u].blob
      OBVIOUS
    <3>1. ts[u].blob = ss[u].blob
      BY <1>1
    <3> QED  BY <1>1, <3>1 DEF NamesOK
  <2>4. \A t \in Stmts : /\ ts[t].handle \in Blocks => ow2[ts[t].handle] = "library"
                         /\ ts[t].blob \in Blocks => ow2[ts[t].blob] = "library"
    BY <1>1 DEF NamesOK, Keeps
  <2> QED  BY <2>1, <2>2, <2>3, <2>4 DEF NamesOK, Keeps
<1> QED  BY <1>2 DEF ts

\* A statement's copy of a BLOB is replaced: the new block was not the
\* library's, unless it is the very block that was given up.
LEMMA BlobNamed ==
    ASSUME NEW cs, NEW ss \in StmtsType, NEW ow, NEW ow2, NamesOK(cs, ss, ow),
           NEW s \in Stmts, NEW p \in Blocks \cup {0},
           Keeps(ow, ow2, {ss[s].blob}),
           p # 0 => /\ ow[p] # "library" \/ p = ss[s].blob
                    /\ ow2[p] = "library"
    PROVE  NamesOK(cs, [ss EXCEPT ![s].blob = p], ow2)
<1> DEFINE ts == [ss EXCEPT ![s].blob = p]
<1>1. /\ ts[s].handle = ss[s].handle /\ ts[s].blob = p
      /\ \A t \in Stmts \ {s} : ts[t] = ss[t]
  BY DEF StmtsType
<1>2. ss[s].blob \in Blocks \cup {0} /\ 0 \notin Blocks
  BY DEF StmtsType, Blocks
<1> HIDE DEF ts
<1>3. NamesOK(cs, ts, ow2)
  <2>1. \A c \in Conns, t \in Stmts :
          cs[c] \in Blocks => cs[c] # ts[t].handle /\ cs[c] # ts[t].blob
    BY <1>1, <1>2 DEF NamesOK
  <2>2. \A t \in Stmts : \A u \in Stmts \ {t} :
          /\ ts[t].handle \in Blocks => ts[t].handle # ts[u].handle
          /\ ts[t].blob # 0 => ts[t].blob # ts[u].blob
    <3>1. \A t \in Stmts : ss[t].blob \in Blocks \cup {0}
      BY DEF StmtsType
    <3>2. \A t \in Stmts \ {s} : ss[t].blob # 0 => ss[t].blob # p
      BY <1>2, <3>1 DEF NamesOK
    <3> QED  BY <1>1, <3>2 DEF NamesOK
  <2>3. \A t, u \in Stmts : ts[t].handle \in Blocks => ts[t].handle # ts[u].blob
    <3> SUFFICES ASSUME NEW t \in Stmts, NEW u \in Stmts, ts[t].handle \in Blocks
                 PROVE  ts[t].handle # ts[u].blob
      OBVIOUS
    <3>1. ts[t].handle = ss[t].handle
      BY <1>1
    <3>2. ss[t].handle # p
      BY <3>1, <1>2 DEF NamesOK
    <3> QED  BY <1>1, <3>1, <3>2 DEF NamesOK
  <2>4. \A t \in Stmts : /\ ts[t].handle \in Blocks => ow2[ts[t].handle] = "library"
                         /\ ts[t].blob \in Blocks => ow2[ts[t].blob] = "library"
    <3> SUFFICES ASSUME NEW t \in Stmts
                 PROVE  /\ ts[t].handle \in Blocks => ow2[ts[t].handle] = "library"
                        /\ ts[t].blob \in Blocks => ow2[ts[t].blob] = "library"
      OBVIOUS
    <3>1. ts[t].handle = ss[t].handle
      BY <1>1
    <3>2. ss[t].handle \in Blocks => ss[t].handle # ss[s].blob
      BY DEF NamesOK
    <3>3. ts[t].handle \in Blocks => ow2[ts[t].handle] = "library"
      BY <3>1, <3>2 DEF NamesOK, Keeps
    <3>4. CASE t = s
      BY <1>1, <1>2, <3>3, <3>4
    <3>5. CASE t # s
      BY <1>1, <1>2, <3>3, <3>5 DEF NamesOK, Keeps
    <3> QED  BY <3>4, <3>5
  <2>5. \A c \in Conns : cs[c] \in Blocks => ow2[cs[c]] = "library"
    BY DEF NamesOK, Keeps
  <2> QED  BY <2>1, <2>2, <2>3, <2>4, <2>5 DEF NamesOK
<1> QED  BY <1>3 DEF ts

\* A statement gives up both blocks it names.
LEMMA StmtUnnamed ==
    ASSUME NEW cs, NEW ss \in StmtsType, NEW ow, NEW ow2, NamesOK(cs, ss, ow),
           NEW s \in Stmts, Keeps(ow, ow2, {ss[s].blob, ss[s].handle})
    PROVE  NamesOK(cs, [ss EXCEPT ![s] = Finalized(@)], ow2)
<1> DEFINE ts == [ss EXCEPT ![s] = Finalized(@)]
<1>1. /\ ts[s].handle = 0 /\ ts[s].blob = 0
      /\ \A t \in Stmts \ {s} : ts[t] = ss[t]
  BY DEF StmtsType, Finalized
<1>2. 0 \notin Blocks
  BY DEF Blocks
<1> HIDE DEF ts
<1>3. NamesOK(cs, ts, ow2)
  <2>1. \A c \in Conns, t \in Stmts :
          cs[c] \in Blocks => cs[c] # ts[t].handle /\ cs[c] # ts[t].blob
    BY <1>1, <1>2 DEF NamesOK
  <2>2. \A t \in Stmts : \A u \in Stmts \ {t} :
          /\ ts[t].handle \in Blocks => ts[t].handle # ts[u].handle
          /\ ts[t].blob # 0 => ts[t].blob # ts[u].blob
    BY <1>1, <1>2 DEF NamesOK
  <2>3. \A t, u \in Stmts : ts[t].handle \in Blocks => ts[t].handle # ts[u].blob
    BY <1>1, <1>2 DEF NamesOK
  <2>4. \A t \in Stmts : /\ ts[t].handle \in Blocks => ow2[ts[t].handle] = "library"
                         /\ ts[t].blob \in Blocks => ow2[ts[t].blob] = "library"
    <3> SUFFICES ASSUME NEW t \in Stmts \ {s}
                 PROVE  /\ ss[t].handle \in Blocks => ow2[ss[t].handle] = "library"
                        /\ ss[t].blob \in Blocks => ow2[ss[t].blob] = "library"
      BY <1>1, <1>2
    <3>1. /\ ss[t].handle \in Blocks => ss[t].handle \notin {ss[s].blob, ss[s].handle}
          /\ ss[t].blob \in Blocks => ss[t].blob \notin {ss[s].blob, ss[s].handle}
      BY <1>2 DEF NamesOK
    <3> QED  BY <3>1 DEF NamesOK, Keeps
  <2>5. \A c \in Conns : cs[c] \in Blocks => ow2[cs[c]] = "library"
    BY DEF NamesOK, Keeps
  <2> QED  BY <2>1, <2>2, <2>3, <2>4, <2>5 DEF NamesOK
<1> QED  BY <1>3 DEF ts
-----------------------------------------------------------------------------
(* The methods.                                                            *)

\* The calls that read nothing back.
LEMMA QuietFacts == Quiet \in CallType /\ Thrown \in CallType
BY DEF Quiet, Thrown, CallType

\* A new connection names a block the library took, or the view of the Pointer
\* was detached, or it threw and names nothing.
Connected(m, n) ==
    /\ HeapOK(n.mem)
    /\ n.call \in CallType
    /\ Keeps(m.owner, n.mem.owner, {})
    /\ n.mem.owner \in [Blocks -> Owner]
    /\ (\A b \in Blocks : m.owner[b] # "binding") =>
         \A b \in Blocks : n.mem.owner[b] # "binding"
    /\ n.call.threw => n.handle = 0
    /\ ~n.call.threw =>
         \E p \in Blocks : /\ m.owner[p] = "free"
                           /\ n.mem.owner[p] = "library"
                           /\ n.handle \in {p, Undefined}

LEMMA NewConnectionFacts ==
    ASSUME NEW m, HeapOK(m), NEW fits \in BOOLEAN, NEW ok \in BOOLEAN
    PROVE  Connected(m, newConnection(m, fits, ok))
<1> DEFINE o == malloc(m, "library", fits)
           w == get(View(m), o.mem, o.ptr)
           r == Read(View(m), o.mem)
           opened == ok /\ o.ptr # 0
           n == newConnection(m, fits, ok)
<1>1. /\ HeapOK(o.mem) /\ o.mem.damaged = m.damaged
      /\ o.ptr \in Blocks \cup {0}
      /\ o.ptr = 0 => o.mem = m
      /\ o.ptr # 0 => /\ m.owner[o.ptr] = "free"
                      /\ o.mem.owner = [m.owner EXCEPT ![o.ptr] = "library"]
  BY MallocFacts DEF Owner
<1>2. w \in {o.ptr, Undefined} /\ r \in {"right", "stale"}
  BY DEF get, Read
<1>3. m.owner \in [Blocks -> Owner] /\ o.mem.owner \in [Blocks -> Owner]
  BY <1>1 DEF HeapOK, MemType, Owner
<1>4. /\ n.mem = o.mem
      /\ n.handle = IF opened THEN w ELSE 0
      /\ n.call = IF opened THEN [Quiet EXCEPT !.read = r] ELSE Thrown
  BY DEF newConnection
<1> HIDE DEF o, w, r, n
<1>5. /\ Keeps(m.owner, n.mem.owner, {})
      /\ (\A b \in Blocks : m.owner[b] # "binding") =>
           \A b \in Blocks : n.mem.owner[b] # "binding"
      /\ o.ptr # 0 => n.mem.owner[o.ptr] = "library"
  BY <1>1, <1>3, <1>4 DEF Keeps
<1>6. CASE ~opened
  <2>1. n.call = Thrown /\ n.handle = 0 /\ Thrown.threw
    BY <1>4, <1>6 DEF Thrown, Quiet
  <2> QED  BY <1>1, <1>3, <1>4, <1>5, <2>1, QuietFacts DEF n, Connected
<1>7. CASE opened
  <2>1. n.call \in CallType /\ ~n.call.threw /\ n.handle = w
    BY <1>2, <1>4, <1>7 DEF Quiet, CallType
  <2>2. o.ptr \in Blocks
    BY <1>1, <1>7
  <2>3. \E p \in Blocks : /\ m.owner[p] = "free" /\ n.mem.owner[p] = "library"
                          /\ n.handle \in {p, Undefined}
    BY <1>1, <1>2, <1>5, <1>7, <2>1, <2>2
  <2> QED  BY <1>1, <1>3, <1>4, <1>5, <2>1, <2>3 DEF n, Connected
<1> QED  BY <1>6, <1>7

\* The initial heap is free and nothing is named.
LEMMA InitHeap == Init => HeapInv
<1> SUFFICES ASSUME Init PROVE HeapInv
  OBVIOUS
<1> USE MemoryAssumption
<1>1. mem \in MemType /\ HeapOK(mem)
  BY DEF Init, MemType, HeapOK
<1>2. conns \in [Conns -> Handle] /\ stmts \in [Stmts -> [handle : Handle, blob : Blocks \cup {0}]]
  BY DEF Init, Handle
<1>3. call \in CallType
  BY QuietFacts DEF Init
<1>4. HandlesOwned
  <2>1. 0 \notin Blocks
    BY DEF Blocks
  <2>2. NamesOK(conns, stmts, mem.owner)
    BY <2>1 DEF Init, NamesOK
  <2> QED  BY <2>2, NamesNow
<1>5. NothingHeld
  BY DEF Init, NothingHeld
<1> QED  BY <1>1, <1>2, <1>3, <1>4, <1>5 DEF HeapInv, TypeOK

\* What a step has to show: the new memory, handles and call.
LEMMA Assemble ==
    ASSUME HeapOK(mem'), conns' \in ConnsType, stmts' \in StmtsType,
           call' \in CallType, NamesOK(conns', stmts', mem'.owner),
           \A b \in Blocks : mem'.owner[b] # "binding"
    PROVE  HeapInv'
<1>1. TypeOK'
  BY DEF TypeOK, ConnsType, StmtsType, HeapOK
<1>2. HandlesOwned'
  BY NamesNext
<1>3. NothingHeld'
  BY DEF NothingHeld
<1>4. HeapOK(mem)'
  BY DEF HeapOK
<1> QED  BY <1>1, <1>2, <1>3, <1>4 DEF HeapInv

\* What a step may use.
LEMMA Unfold ==
    ASSUME HeapInv, Sound
    PROVE  /\ HeapOK(mem) /\ conns \in ConnsType /\ stmts \in StmtsType
           /\ call \in CallType /\ NamesOK(conns, stmts, mem.owner)
           /\ ~mem.damaged
           /\ \A b \in Blocks : mem.owner[b] # "binding"
           /\ mem.owner \in [Blocks -> Owner]
<1>1. mem \in MemType
  BY DEF HeapInv, TypeOK
<1>2. mem.owner \in [Blocks -> Owner]
  BY <1>1 DEF MemType, Owner
<1> QED  BY <1>2, NamesNow DEF HeapInv, TypeOK, ConnsType, StmtsType, NothingHeld, Sound

\* One block changing from one owner to the library, or from nobody's use.
LEMMA TakenKeeps ==
    ASSUME NEW ow \in [Blocks -> Owner], NEW p \in Blocks, NEW who,
           ow[p] # "library" \/ who = "library"
    PROVE  Keeps(ow, [ow EXCEPT ![p] = who], {})
BY DEF Keeps

\* open() names the block of the new connection, if the view is current.
LEMMA OpenStep ==
    ASSUME HeapInv, NEW c \in Conns, open(c) PROVE HeapInv'
<1>0. PICK fits \in BOOLEAN, ok \in BOOLEAN :
          LET n == newConnection(mem, fits, ok)
          IN  /\ Sound /\ mem' = n.mem /\ conns' = [conns EXCEPT ![c] = n.handle]
              /\ call' = n.call /\ stmts' = stmts
  BY DEF open
<1> DEFINE n == newConnection(mem, fits, ok)
<1>1. /\ Sound /\ mem' = n.mem /\ conns' = [conns EXCEPT ![c] = n.handle]
      /\ call' = n.call /\ stmts' = stmts
  BY <1>0
<1>2. /\ HeapOK(mem) /\ conns \in ConnsType /\ stmts \in StmtsType
      /\ NamesOK(conns, stmts, mem.owner)
      /\ \A b \in Blocks : mem.owner[b] # "binding"
  BY <1>1, Unfold
<1>3. /\ HeapOK(n.mem) /\ n.call \in CallType
      /\ Keeps(mem.owner, n.mem.owner, {})
      /\ \A b \in Blocks : n.mem.owner[b] # "binding"
      /\ n.call.threw => n.handle = 0
      /\ ~n.call.threw =>
           \E p \in Blocks :
              /\ mem.owner[p] = "free"
              /\ n.mem.owner[p] = "library"
              /\ n.handle \in {p, Undefined}
  <2>1. Connected(mem, n)
    BY <1>2, NewConnectionFacts
  <2> HIDE DEF n
  <2> QED  BY <1>2, <2>1 DEF Connected
<1> HIDE DEF n
<1>4. 0 \notin Blocks /\ Undefined \notin Blocks
  BY MemoryAssumption DEF Blocks
<1>5. /\ n.handle \in Handle
      /\ n.handle \in Blocks =>
           mem.owner[n.handle] # "library" /\ n.mem.owner[n.handle] = "library"
  BY <1>3, <1>4 DEF Handle
<1>6. NamesOK([conns EXCEPT ![c] = n.handle], stmts, n.mem.owner)
  BY <1>2, <1>3, <1>5, ConnNamed
<1>7. [conns EXCEPT ![c] = n.handle] \in ConnsType
  BY <1>2, <1>5 DEF ConnsType
<1> QED  BY <1>1, <1>2, <1>3, <1>6, <1>7, Assemble

\* The block for the database is handed over with the connection, or freed, or
\* there is none.
LEMMA OpenWithStep ==
    ASSUME HeapInv, NEW c \in Conns, openWith(c) PROVE HeapInv'
<1>0. PICK fits \in BOOLEAN, ok \in BOOLEAN, room \in BOOLEAN :
          LET n == newConnection(mem, fits, ok)
              a == malloc(n.mem, "binding", room)
          IN  /\ Sound /\ stmts' = stmts
              /\ \/ mem' = n.mem /\ call' = n.call /\ conns' = conns
                 \/ /\ a.ptr = 0
                    /\ mem' = [a.mem EXCEPT !.damaged = TRUE]
                    /\ call' = n.call /\ conns' = conns
                 \/ /\ ~n.call.threw /\ n.handle # Undefined
                    /\ mem' = Give(a.mem, a.ptr, "library")
                    /\ conns' = [conns EXCEPT ![c] = n.handle]
                    /\ call' = n.call
                 \/ /\ mem' = Give(a.mem, a.ptr, "free")
                    /\ call' = [n.call EXCEPT !.threw = TRUE]
                    /\ conns' = conns
  BY DEF openWith, Refused, free
<1> DEFINE n == newConnection(mem, fits, ok)
           a == malloc(n.mem, "binding", room)
<1>1. /\ Sound /\ stmts' = stmts
      /\ \/ mem' = n.mem /\ call' = n.call /\ conns' = conns
         \/ /\ a.ptr = 0
            /\ mem' = [a.mem EXCEPT !.damaged = TRUE]
            /\ call' = n.call /\ conns' = conns
         \/ /\ ~n.call.threw /\ n.handle # Undefined
            /\ mem' = Give(a.mem, a.ptr, "library")
            /\ conns' = [conns EXCEPT ![c] = n.handle]
            /\ call' = n.call
         \/ /\ mem' = Give(a.mem, a.ptr, "free")
            /\ call' = [n.call EXCEPT !.threw = TRUE]
            /\ conns' = conns
  BY <1>0
<1>2. /\ HeapOK(mem) /\ conns \in ConnsType /\ stmts \in StmtsType
      /\ NamesOK(conns, stmts, mem.owner)
      /\ \A b \in Blocks : mem.owner[b] # "binding"
  BY <1>1, Unfold
<1>3. /\ HeapOK(n.mem) /\ n.call \in CallType
      /\ Keeps(mem.owner, n.mem.owner, {})
      /\ n.mem.owner \in [Blocks -> Owner]
      /\ \A b \in Blocks : n.mem.owner[b] # "binding"
      /\ ~n.call.threw =>
           \E p \in Blocks :
              /\ mem.owner[p] = "free"
              /\ n.mem.owner[p] = "library"
              /\ n.handle \in {p, Undefined}
  <2>1. Connected(mem, n)
    BY <1>2, NewConnectionFacts
  <2> HIDE DEF n
  <2> QED  BY <1>2, <2>1 DEF Connected
<1>4. /\ HeapOK(a.mem)
      /\ a.ptr \in Blocks \cup {0}
      /\ a.ptr = 0 => a.mem = n.mem
      /\ a.ptr # 0 => /\ n.mem.owner[a.ptr] = "free" /\ a.ptr <= a.mem.size
                      /\ a.mem.owner = [n.mem.owner EXCEPT ![a.ptr] = "binding"]
  BY <1>3, MallocFacts DEF Owner
<1>5. 0 \notin Blocks /\ Undefined \notin Blocks
  BY MemoryAssumption DEF Blocks
<1> HIDE DEF n, a
<1>6. NamesOK(conns, stmts, n.mem.owner)
  BY <1>2, <1>3, NamesKept
<1>7. CASE mem' = n.mem /\ call' = n.call /\ conns' = conns
  BY <1>1, <1>2, <1>3, <1>6, <1>7, Assemble
<1>8. CASE /\ a.ptr = 0
           /\ mem' = [a.mem EXCEPT !.damaged = TRUE]
           /\ call' = n.call /\ conns' = conns
  <2>1. n.mem \in MemType
    BY <1>3 DEF HeapOK
  <2>2. mem' \in MemType /\ mem'.owner = n.mem.owner /\ mem'.size = n.mem.size
    BY <1>4, <1>8, <2>1 DEF MemType
  <2>3. HeapOK(mem')
    BY <1>3, <2>2 DEF HeapOK
  <2> QED  BY <1>1, <1>2, <1>3, <1>6, <1>8, <2>2, <2>3, Assemble
<1>9. ASSUME NEW who \in {"library", "free"}
      PROVE  LET g == Give(a.mem, a.ptr, who)
             IN  /\ HeapOK(g)
                 /\ Keeps(n.mem.owner, g.owner, {})
                 /\ \A b \in Blocks : g.owner[b] # "binding"
  <2> DEFINE g == Give(a.mem, a.ptr, who)
  <2>1. who \in Owner
    BY DEF Owner
  <2>2. CASE a.ptr = 0
    <3>1. g = n.mem
      BY <1>4, <1>5, <2>2 DEF Give
    <3> QED  BY <1>3, <3>1 DEF Keeps
  <2>3. CASE a.ptr # 0
    <3>1. /\ a.ptr \in Blocks /\ a.ptr <= a.mem.size
          /\ n.mem.owner[a.ptr] = "free"
          /\ a.mem.owner = [n.mem.owner EXCEPT ![a.ptr] = "binding"]
      BY <1>4, <2>3
    <3>2. HeapOK(g) /\ g.owner = [a.mem.owner EXCEPT ![a.ptr] = who]
      BY <1>4, <2>1, <2>3, <3>1, GiveFacts, SMTT(20)
    <3> HIDE DEF g
    <3>3. \A b \in Blocks : g.owner[b] = IF b = a.ptr THEN who ELSE n.mem.owner[b]
      BY <1>3, <3>1, <3>2
    <3>4. Keeps(n.mem.owner, g.owner, {}) /\ \A b \in Blocks : g.owner[b] # "binding"
      BY <1>3, <3>1, <3>3 DEF Keeps
    <3> QED  BY <3>2, <3>4 DEF g
  <2> QED  BY <2>2, <2>3
<1>10. CASE /\ ~n.call.threw /\ n.handle # Undefined
            /\ mem' = Give(a.mem, a.ptr, "library")
            /\ conns' = [conns EXCEPT ![c] = n.handle]
            /\ call' = n.call
  <2>1. /\ HeapOK(mem') /\ Keeps(n.mem.owner, mem'.owner, {})
        /\ \A b \in Blocks : mem'.owner[b] # "binding"
    BY <1>9, <1>10
  <2>2. PICK p \in Blocks : /\ mem.owner[p] = "free"
                            /\ n.mem.owner[p] = "library"
                            /\ n.handle = p
    BY <1>3, <1>10
  <2>3. Keeps(mem.owner, mem'.owner, {}) /\ mem'.owner[p] = "library"
    BY <1>3, <2>1, <2>2 DEF Keeps
  <2>4. n.handle \in Handle
    BY <2>2 DEF Handle
  <2>5. NamesOK(conns', stmts, mem'.owner)
    BY <1>2, <1>10, <2>2, <2>3, <2>4, ConnNamed
  <2>6. conns' \in ConnsType
    BY <1>2, <1>10, <2>4 DEF ConnsType
  <2> QED  BY <1>1, <1>2, <1>3, <1>10, <2>1, <2>5, <2>6, Assemble
<1>11. CASE /\ mem' = Give(a.mem, a.ptr, "free")
            /\ call' = [n.call EXCEPT !.threw = TRUE]
            /\ conns' = conns
  <2>1. /\ HeapOK(mem') /\ Keeps(n.mem.owner, mem'.owner, {})
        /\ \A b \in Blocks : mem'.owner[b] # "binding"
    BY <1>9, <1>11
  <2>2. NamesOK(conns, stmts, mem'.owner)
    BY <1>6, <2>1, NamesKept
  <2>3. call' \in CallType
    BY <1>3, <1>11 DEF CallType
  <2> QED  BY <1>1, <1>2, <1>11, <2>1, <2>2, <2>3, Assemble
<1> QED  BY <1>1, <1>7, <1>8, <1>10, <1>11

\* A block the library takes for a statement, or for itself.
LEMMA PrepareStep ==
    ASSUME HeapInv, NEW c \in Conns, NEW s \in Stmts, prepare(c, s)
    PROVE  HeapInv'
<1> DEFINE o == malloc(mem, "library", TRUE)
           h == get(View(mem), o.mem, o.ptr)
           r == Read(View(mem), o.mem)
<1>1. /\ Sound /\ conns' = conns
      /\ \/ call' \in {Quiet, Thrown} /\ mem' = mem /\ stmts' = stmts
         \/ /\ o.ptr # 0 /\ mem' = o.mem
            /\ stmts' = [stmts EXCEPT ![s].handle = h]
            /\ call' = [Quiet EXCEPT !.read = r]
  BY DEF prepare
<1>2. /\ HeapOK(mem) /\ conns \in ConnsType /\ stmts \in StmtsType
      /\ NamesOK(conns, stmts, mem.owner)
      /\ \A b \in Blocks : mem.owner[b] # "binding"
      /\ mem.owner \in [Blocks -> Owner]
  BY <1>1, Unfold
<1>3. /\ HeapOK(o.mem) /\ o.mem.damaged = mem.damaged
      /\ o.ptr \in Blocks \cup {0}
      /\ o.ptr # 0 => /\ mem.owner[o.ptr] = "free"
                      /\ o.mem.owner = [mem.owner EXCEPT ![o.ptr] = "library"]
  BY <1>2, MallocFacts DEF Owner
<1>4. h \in {o.ptr, Undefined} /\ r \in {"right", "stale"}
  BY DEF get, Read
<1>5. 0 \notin Blocks /\ Undefined \notin Blocks
  BY MemoryAssumption DEF Blocks
<1> HIDE DEF o, h, r
<1>6. CASE call' \in {Quiet, Thrown} /\ mem' = mem /\ stmts' = stmts
  BY <1>1, <1>2, <1>6, QuietFacts, Assemble
<1>7. CASE /\ o.ptr # 0 /\ mem' = o.mem
           /\ stmts' = [stmts EXCEPT ![s].handle = h]
           /\ call' = [Quiet EXCEPT !.read = r]
  <2>1. o.ptr \in Blocks /\ h \in Handle
    BY <1>3, <1>4, <1>7 DEF Handle
  <2>2. /\ Keeps(mem.owner, mem'.owner, {})
        /\ \A b \in Blocks : mem'.owner[b] # "binding"
        /\ mem'.owner[o.ptr] = "library"
    <3>1. mem.owner[o.ptr] = "free" /\ mem'.owner = [mem.owner EXCEPT ![o.ptr] = "library"]
      BY <1>3, <1>7
    <3>2. Keeps(mem.owner, [mem.owner EXCEPT ![o.ptr] = "library"], {})
      BY <1>2, <2>1, TakenKeeps
    <3>3. \A b \in Blocks : mem'.owner[b] # "binding"
      BY <1>2, <2>1, <3>1
    <3>4. mem'.owner[o.ptr] = "library"
      BY <1>2, <2>1, <3>1
    <3> QED  BY <3>1, <3>2, <3>3, <3>4
  <2>3. h \in Blocks => mem.owner[h] # "library" /\ mem'.owner[h] = "library"
    BY <1>3, <1>4, <1>5, <1>7, <2>2
  <2>4. NamesOK(conns, stmts', mem'.owner)
    BY <1>2, <1>7, <2>1, <2>2, <2>3, StmtNamed
  <2>5. stmts' \in StmtsType
    BY <1>2, <1>7, <2>1 DEF StmtsType
  <2>6. call' \in CallType
    BY <1>4, <1>7 DEF Quiet, CallType
  <2> QED  BY <1>1, <1>2, <1>3, <1>7, <2>2, <2>4, <2>5, <2>6, Assemble
<1> QED  BY <1>1, <1>6, <1>7

\* A block the library or nobody takes, with no handle to it.
LEMMA TakenStep ==
    ASSUME HeapInv, Sound, NEW who \in {"library", "nobody"}, NEW fits \in BOOLEAN,
           mem' = malloc(mem, who, fits).mem, conns' = conns, stmts' = stmts,
           call' \in CallType
    PROVE  HeapInv'
<1> DEFINE o == malloc(mem, who, fits)
<1>1. /\ HeapOK(mem) /\ conns \in ConnsType /\ stmts \in StmtsType
      /\ NamesOK(conns, stmts, mem.owner)
      /\ \A b \in Blocks : mem.owner[b] # "binding"
      /\ mem.owner \in [Blocks -> Owner]
  BY Unfold
<1>2. /\ HeapOK(o.mem) 
      /\ o.ptr \in Blocks \cup {0}
      /\ o.ptr = 0 => o.mem = mem
      /\ o.ptr # 0 => /\ mem.owner[o.ptr] = "free"
                      /\ o.mem.owner = [mem.owner EXCEPT ![o.ptr] = who]
  <2>1. who \in Owner
    BY DEF Owner
  <2> QED  BY <1>1, <2>1, MallocFacts
<1>3. mem' = o.mem
  OBVIOUS
<1> HIDE DEF o
<1>4. /\ Keeps(mem.owner, mem'.owner, {})
      /\ \A b \in Blocks : mem'.owner[b] # "binding"
  <2>1. CASE o.ptr = 0
    BY <1>1, <1>2, <1>3, <2>1 DEF Keeps
  <2>2. CASE o.ptr # 0
    <3>1. o.ptr \in Blocks /\ mem.owner[o.ptr] # "library"
      BY <1>2, <2>2
    <3>2. mem'.owner = [mem.owner EXCEPT ![o.ptr] = who]
      BY <1>2, <1>3, <2>2
    <3>3. who # "binding"
      OBVIOUS
    <3>4. Keeps(mem.owner, [mem.owner EXCEPT ![o.ptr] = who], {})
      BY <1>1, <3>1, TakenKeeps
    <3> QED  BY <1>1, <3>1, <3>2, <3>3, <3>4
  <2> QED  BY <2>1, <2>2
<1>5. NamesOK(conns, stmts, mem'.owner)
  BY <1>1, <1>4, NamesKept
<1> QED  BY <1>1, <1>2, <1>3, <1>4, <1>5, Assemble

LEMMA SerializeStep ==
    ASSUME HeapInv, NEW c \in Conns, serialize(c) PROVE HeapInv'
<1> DEFINE o == malloc(mem, "nobody", TRUE)
           r == Read(View(mem), o.mem)
<1>1. /\ Sound /\ conns' = conns /\ stmts' = stmts
      /\ \/ call' = Thrown /\ mem' = mem
         \/ /\ mem' = o.mem
            /\ call' = [Quiet EXCEPT !.read = r, !.threw = (r = "stale")]
  BY DEF serialize
<1>2. r \in {"right", "stale"}
  BY DEF Read
<1> HIDE DEF r
<1>3. CASE call' = Thrown /\ mem' = mem
  BY <1>1, <1>3, Unfold, QuietFacts, Assemble
<1>4. CASE /\ mem' = o.mem
           /\ call' = [Quiet EXCEPT !.read = r, !.threw = (r = "stale")]
  <2>1. call' \in CallType
    BY <1>2, <1>4 DEF Quiet, CallType
  <2> QED  BY <1>1, <1>4, <2>1, TakenStep
<1> QED  BY <1>1, <1>3, <1>4

LEMMA StepStep ==
    ASSUME HeapInv, NEW s \in Stmts, step(s) PROVE HeapInv'
<1>1. PICK fits \in BOOLEAN :
          /\ Sound /\ conns' = conns /\ stmts' = stmts
          /\ mem' = IF Live(s) THEN malloc(mem, "library", fits).mem ELSE mem
          /\ call' \in {Quiet, Thrown}
  BY DEF step
<1>2. call' \in CallType
  BY <1>1, QuietFacts
<1>3. CASE Live(s)
  BY <1>1, <1>2, <1>3, TakenStep
<1>4. CASE ~Live(s)
  <2>1. mem' = mem
    BY <1>1, <1>4
  <2> QED  BY <1>1, <1>2, <2>1, Unfold, Assemble
<1> QED  BY <1>3, <1>4

LEMMA GetTextStep ==
    ASSUME HeapInv, NEW s \in Stmts, getText(s) PROVE HeapInv'
<1>1. PICK fits \in BOOLEAN :
          LET o == malloc(mem, "library", fits)
          IN  /\ Sound /\ conns' = conns /\ stmts' = stmts /\ mem' = o.mem
              /\ call' = [Quiet EXCEPT !.read = Read(View(mem), o.mem)]
  BY DEF getText
<1>2. call' \in CallType
  BY <1>1 DEF Read, Quiet, CallType
<1> QED  BY <1>1, <1>2, TakenStep

LEMMA GetBlobStep ==
    ASSUME HeapInv, NEW s \in Stmts, getBlob(s) PROVE HeapInv'
BY Unfold, QuietFacts, Assemble DEF getBlob

\* finalize gives up both blocks the statement names.
LEMMA FinalizeStep ==
    ASSUME HeapInv, NEW s \in Stmts, finalize(s) PROVE HeapInv'
<1> DEFINE p == stmts[s].blob
           q == stmts[s].handle
           m == Give(mem, p, "free")
<1>1. /\ Sound /\ conns' = conns
      /\ mem' = Give(m, q, "free")
      /\ stmts' = [stmts EXCEPT ![s] = Finalized(@)]
      /\ call' \in {Quiet, Thrown}
  BY DEF finalize, free
<1>2. /\ HeapOK(mem) /\ conns \in ConnsType /\ stmts \in StmtsType
      /\ NamesOK(conns, stmts, mem.owner) /\ ~mem.damaged
      /\ \A b \in Blocks : mem.owner[b] # "binding"
      /\ mem.owner \in [Blocks -> Owner]
  BY <1>1, Unfold
<1>3. p \in Blocks \cup {0} /\ q \in Handle /\ 0 \notin Blocks /\ "free" \in Owner
  BY <1>2 DEF StmtsType, Blocks, Owner
<1>4. /\ HeapOK(m) /\ ~m.damaged
      /\ p = 0 => m = mem
      /\ p # 0 => m.owner = [mem.owner EXCEPT ![p] = "free"]
  BY <1>2, <1>3, GiveFacts
<1> HIDE DEF p, q, m
<1>5. /\ m.owner \in [Blocks -> Owner]
      /\ Keeps(mem.owner, m.owner, {p})
      /\ \A b \in Blocks : m.owner[b] # "binding"
  <2>1. CASE p = 0
    BY <1>2, <1>4, <2>1 DEF Keeps
  <2>2. CASE p # 0
    BY <1>2, <1>3, <1>4, <2>2 DEF Keeps
  <2> QED  BY <2>1, <2>2
<1>6. /\ HeapOK(mem') /\ ~mem'.damaged
      /\ Keeps(mem.owner, mem'.owner, {p, q})
      /\ \A b \in Blocks : mem'.owner[b] # "binding"
  <2>1. CASE q \notin Blocks
    <3>1. mem' = m
      BY <1>1, <2>1 DEF Give
    <3> QED  BY <1>4, <1>5, <3>1 DEF Keeps
  <2>2. CASE q \in Blocks
    <3>1. /\ HeapOK(Give(m, q, "free"))
          /\ Give(m, q, "free").damaged = m.damaged
          /\ Give(m, q, "free").owner = [m.owner EXCEPT ![q] = "free"]
      BY <1>3, <1>4, <2>2, GiveFacts
    <3>2. /\ HeapOK(mem') /\ ~mem'.damaged
          /\ mem'.owner = [m.owner EXCEPT ![q] = "free"]
      BY <1>1, <1>4, <3>1
    <3> QED  BY <1>5, <2>2, <3>2 DEF Keeps
  <2> QED  BY <2>1, <2>2
<1>7. NamesOK(conns, stmts', mem'.owner)
  BY <1>1, <1>2, <1>6, StmtUnnamed DEF p, q
<1>8. stmts' \in StmtsType
  BY <1>1, <1>2 DEF StmtsType, Finalized, Handle
<1>9. call' \in CallType
  BY <1>1, QuietFacts
<1> QED  BY <1>1, <1>2, <1>6, <1>7, <1>8, <1>9, Assemble

\* bind: the block of the binding is freed whichever way it ends, and the
\* library may take the block of its old copy again, or another one.
LEMMA BindBlobStep ==
    ASSUME HeapInv, NEW s \in Stmts, bindBlob(s) PROVE HeapInv'
<1>0. PICK fits \in BOOLEAN, room \in BOOLEAN :
          LET a == malloc(mem, "binding", fits)
              m == Give(a.mem, stmts[s].blob, "free")
              b == malloc(m, "library", room)
          IN  /\ Sound /\ conns' = conns
              /\ \/ /\ mem' = Give(a.mem, a.ptr, "free")
                    /\ call' = Thrown /\ stmts' = stmts
                 \/ /\ a.ptr = 0
                    /\ mem' = Give(m, 0, "free")
                    /\ call' = Quiet
                    /\ stmts' = [stmts EXCEPT ![s].blob = 0]
                 \/ /\ a.ptr # 0
                    /\ mem' = Give(b.mem, a.ptr, "free")
                    /\ call' = [Quiet EXCEPT !.threw = (b.ptr = 0)]
                    /\ stmts' = [stmts EXCEPT ![s].blob = b.ptr]
  BY DEF bindBlob, Released, free, HeapView
<1> DEFINE a == malloc(mem, "binding", fits)
           old == stmts[s].blob
           m == Give(a.mem, old, "free")
           b == malloc(m, "library", room)
           z == b.ptr = 0
<1>1. /\ Sound /\ conns' = conns
      /\ \/ /\ mem' = Give(a.mem, a.ptr, "free")
            /\ call' = Thrown /\ stmts' = stmts
         \/ /\ a.ptr = 0
            /\ mem' = Give(m, 0, "free")
            /\ call' = Quiet
            /\ stmts' = [stmts EXCEPT ![s].blob = 0]
         \/ /\ a.ptr # 0
            /\ mem' = Give(b.mem, a.ptr, "free")
            /\ call' = [Quiet EXCEPT !.threw = z]
            /\ stmts' = [stmts EXCEPT ![s].blob = b.ptr]
  BY <1>0
<1>2. /\ HeapOK(mem) /\ conns \in ConnsType /\ stmts \in StmtsType
      /\ NamesOK(conns, stmts, mem.owner)
      /\ \A k \in Blocks : mem.owner[k] # "binding"
      /\ mem.owner \in [Blocks -> Owner]
  BY <1>1, Unfold
<1>3. /\ HeapOK(a.mem)
      /\ a.ptr \in Blocks \cup {0}
      /\ a.ptr = 0 => a.mem = mem
      /\ a.ptr # 0 => /\ mem.owner[a.ptr] = "free" /\ a.ptr <= a.mem.size
                      /\ a.mem.owner = [mem.owner EXCEPT ![a.ptr] = "binding"]
  BY <1>2, MallocFacts DEF Owner
<1>4. 0 \notin Blocks /\ "free" \in Owner /\ "library" \in Owner
  BY DEF Blocks, Owner
<1>5. old \in Blocks \cup {0} /\ (old \in Blocks => mem.owner[old] = "library")
  BY <1>2 DEF StmtsType, NamesOK
<1>6. z \in BOOLEAN
  OBVIOUS
<1> HIDE DEF a, old, z
<1>7. /\ a.mem.owner \in [Blocks -> Owner]
      /\ Keeps(mem.owner, a.mem.owner, {})
      /\ a.ptr # old \/ a.ptr = 0
      /\ \A k \in Blocks \ {a.ptr} : a.mem.owner[k] = mem.owner[k]
  <2>1. CASE a.ptr = 0
    BY <1>2, <1>3, <2>1 DEF Keeps
  <2>2. CASE a.ptr # 0
    <3>1. a.ptr \in Blocks /\ mem.owner[a.ptr] = "free" /\ "binding" \in Owner
      BY <1>3, <2>2 DEF Owner
    <3> QED  BY <1>2, <1>3, <1>5, <2>2, <3>1 DEF Keeps
  <2> QED  BY <2>1, <2>2
<1>8. /\ HeapOK(m)
      /\ m.owner \in [Blocks -> Owner]
      /\ \A k \in Blocks : m.owner[k] = IF k = old THEN "free" ELSE a.mem.owner[k]
  <2>1. /\ HeapOK(m)
        /\ old = 0 => m = a.mem
        /\ old # 0 => m.owner = [a.mem.owner EXCEPT ![old] = "free"]
    BY <1>3, <1>4, <1>5, GiveFacts
  <2> HIDE DEF m
  <2>2. CASE old = 0
    BY <1>4, <1>7, <2>1, <2>2
  <2>3. CASE old # 0
    <3>1. old \in Blocks /\ m.owner = [a.mem.owner EXCEPT ![old] = "free"]
      BY <1>5, <2>1, <2>3
    <3> QED  BY <1>4, <1>7, <2>1, <3>1
  <2> QED  BY <2>2, <2>3
<1>9. b.ptr \in Blocks \cup {0} /\ HeapOK(b.mem)
      /\ (b.ptr = 0 => b.mem = m)
      /\ (b.ptr # 0 => /\ m.owner[b.ptr] = "free"
                       /\ b.mem.owner = [m.owner EXCEPT ![b.ptr] = "library"])
  BY <1>4, <1>8, MallocFacts
<1> HIDE DEF m, b
<1>10. CASE /\ mem' = Give(a.mem, a.ptr, "free")
            /\ call' = Thrown /\ stmts' = stmts
  <2>1. /\ HeapOK(mem')
        /\ a.ptr = 0 => mem' = mem
        /\ a.ptr # 0 => mem'.owner = [a.mem.owner EXCEPT ![a.ptr] = "free"]
    <3>1. /\ HeapOK(Give(a.mem, a.ptr, "free"))
          /\ a.ptr = 0 => Give(a.mem, a.ptr, "free") = a.mem
          /\ a.ptr # 0 => Give(a.mem, a.ptr, "free").owner
                            = [a.mem.owner EXCEPT ![a.ptr] = "free"]
      BY <1>3, <1>4, GiveFacts
    <3> QED  BY <1>3, <1>10, <3>1
  <2>2. /\ Keeps(mem.owner, mem'.owner, {})
        /\ \A k \in Blocks : mem'.owner[k] # "binding"
    <3>1. CASE a.ptr = 0
      BY <1>2, <2>1, <3>1 DEF Keeps
    <3>2. CASE a.ptr # 0
      <4>1. a.ptr \in Blocks /\ mem.owner[a.ptr] = "free"
        BY <1>3, <3>2
      <4>2. \A k \in Blocks : mem'.owner[k] = IF k = a.ptr THEN "free" ELSE mem.owner[k]
        BY <1>7, <2>1, <3>2, <4>1
      <4> QED  BY <1>2, <4>1, <4>2 DEF Keeps
    <3> QED  BY <3>1, <3>2
  <2>3. NamesOK(conns, stmts, mem'.owner)
    BY <1>2, <2>2, NamesKept
  <2> QED  BY <1>1, <1>2, <1>10, <2>1, <2>2, <2>3, QuietFacts, Assemble
<1>11. CASE /\ a.ptr = 0
            /\ mem' = Give(m, 0, "free")
            /\ call' = Quiet
            /\ stmts' = [stmts EXCEPT ![s].blob = 0]
  <2>1. mem' = m
    BY <1>4, <1>11 DEF Give
  <2>2. /\ Keeps(mem.owner, mem'.owner, {old})
        /\ \A k \in Blocks : mem'.owner[k] # "binding"
    BY <1>2, <1>3, <1>8, <1>11, <2>1 DEF Keeps
  <2>3. NamesOK(conns, stmts', mem'.owner)
    BY <1>2, <1>11, <2>2, BlobNamed DEF old
  <2>4. stmts' \in StmtsType
    BY <1>2, <1>11 DEF StmtsType
  <2> QED  BY <1>1, <1>2, <1>8, <1>11, <2>1, <2>2, <2>3, <2>4, QuietFacts, Assemble
<1>12. CASE /\ a.ptr # 0
            /\ mem' = Give(b.mem, a.ptr, "free")
            /\ call' = [Quiet EXCEPT !.threw = z]
            /\ stmts' = [stmts EXCEPT ![s].blob = b.ptr]
  <2>1. /\ a.ptr \in Blocks /\ mem.owner[a.ptr] = "free" /\ a.ptr # old
        /\ a.mem.owner[a.ptr] = "binding" /\ m.owner[a.ptr] = "binding"
    <3>1. a.ptr \in Blocks /\ mem.owner[a.ptr] = "free" /\ a.ptr # old
      BY <1>3, <1>7, <1>12
    <3>2. a.mem.owner[a.ptr] = "binding"
      BY <1>2, <1>3, <1>12, <3>1
    <3> QED  BY <1>8, <3>1, <3>2
  <2>2. /\ HeapOK(Give(b.mem, a.ptr, "free"))
        /\ Give(b.mem, a.ptr, "free").owner = [b.mem.owner EXCEPT ![a.ptr] = "free"]
    BY <1>4, <1>9, <1>12, <2>1, GiveFacts, SMTT(20)
  <2>3. HeapOK(mem') /\ mem'.owner = [b.mem.owner EXCEPT ![a.ptr] = "free"]
    BY <1>12, <2>2
  <2>4. /\ b.mem.owner \in [Blocks -> Owner]
        /\ b.ptr # a.ptr
        /\ \A k \in Blocks : b.mem.owner[k] = IF k = b.ptr THEN "library" ELSE m.owner[k]
    <3>1. CASE b.ptr = 0
      BY <1>4, <1>8, <1>9, <2>1, <3>1
    <3>2. CASE b.ptr # 0
      <4>1. b.ptr \in Blocks /\ m.owner[b.ptr] = "free"
            /\ b.mem.owner = [m.owner EXCEPT ![b.ptr] = "library"]
        BY <1>9, <3>2
      <4> QED  BY <1>4, <1>8, <2>1, <4>1
    <3> QED  BY <3>1, <3>2
  <2>5. \A k \in Blocks : mem'.owner[k] = IF k = a.ptr THEN "free"
                                          ELSE IF k = b.ptr THEN "library"
                                          ELSE IF k = old THEN "free"
                                          ELSE mem.owner[k]
    BY <1>7, <1>8, <2>1, <2>3, <2>4
  <2>6. /\ Keeps(mem.owner, mem'.owner, {old})
        /\ \A k \in Blocks : mem'.owner[k] # "binding"
    BY <1>2, <2>1, <2>5 DEF Keeps
  <2>7. b.ptr # 0 => /\ mem.owner[b.ptr] # "library" \/ b.ptr = old
                     /\ mem'.owner[b.ptr] = "library"
    <3> SUFFICES ASSUME b.ptr # 0
                 PROVE  /\ mem.owner[b.ptr] # "library" \/ b.ptr = old
                        /\ mem'.owner[b.ptr] = "library"
      OBVIOUS
    <3>1. b.ptr \in Blocks /\ m.owner[b.ptr] = "free"
      BY <1>9
    <3> QED  BY <1>7, <1>8, <2>4, <2>5, <3>1
  <2>8. NamesOK(conns, stmts', mem'.owner)
    BY <1>2, <1>9, <1>12, <2>6, <2>7, BlobNamed DEF old
  <2>9. stmts' \in StmtsType
    BY <1>2, <1>9, <1>12 DEF StmtsType
  <2>10. call' \in CallType
    BY <1>6, <1>12 DEF Quiet, CallType
  <2> QED  BY <1>1, <1>2, <1>12, <2>3, <2>6, <2>8, <2>9, <2>10, Assemble
<1> QED  BY <1>1, <1>10, <1>11, <1>12

\* Every step keeps the invariant.
LEMMA HeapNext == HeapInv /\ [Next]_vars => HeapInv'
<1> SUFFICES ASSUME HeapInv, [Next]_vars PROVE HeapInv'
  OBVIOUS
<1>1. CASE UNCHANGED vars
  BY <1>1 DEF vars, HeapInv, TypeOK, HandlesOwned, Named, Live, NothingHeld, HeapOK
<1>2. ASSUME NEW c \in Conns, open(c) \/ openWith(c) \/ serialize(c) PROVE HeapInv'
  BY <1>2, OpenStep, OpenWithStep, SerializeStep
<1>3. ASSUME NEW c \in Conns, NEW s \in Stmts, prepare(c, s) PROVE HeapInv'
  BY <1>3, PrepareStep
<1>4. ASSUME NEW s \in Stmts, step(s) \/ bindBlob(s) \/ getBlob(s) \/ getText(s) \/ finalize(s)
      PROVE HeapInv'
  BY <1>4, StepStep, BindBlobStep, GetBlobStep, GetTextStep, FinalizeStep
<1> QED  BY <1>1, <1>2, <1>3, <1>4 DEF Next

\* The invariant holds of every behaviour.
LEMMA HeapAlways == Spec => []HeapInv
BY InitHeap, HeapNext, PTL DEF Spec

\* Every handle names a block, is null or is undefined, and the memory stays
\* within its limits.
THEOREM MemoryTypeCorrect == Spec => []TypeOK
<1>1. HeapInv => TypeOK
  BY DEF HeapInv
<1> QED  BY <1>1, HeapAlways, PTL

\* After any sequence of calls, failing or not, no handle dangles and no two
\* objects name the same block.
THEOREM HandlesNeverDangle == Spec => []HandlesOwned
<1>1. HeapInv => HandlesOwned
  BY DEF HeapInv
<1> QED  BY <1>1, HeapAlways, PTL

\* No path through open(buffer) or bind() keeps the block it allocated.
THEOREM BlocksAreReturned == Spec => []NothingHeld
<1>1. HeapInv => NothingHeld
  BY DEF HeapInv
<1> QED  BY <1>1, HeapAlways, PTL

=============================================================================
