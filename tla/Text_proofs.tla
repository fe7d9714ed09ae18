---------------------------- MODULE Text_proofs -----------------------------
(***************************************************************************)
(* What holds of module Text for every string: names come back, nothing    *)
(* is dropped for lack of room, sqlite3_bind_text reads what was written,  *)
(* and what bind() cuts off is at the end.                                 *)
(*                                                                         *)
(* The argument is by induction over the characters of a string.  The      *)
(* induction theorems of the library take an operator as a parameter, which*)
(* the provers cannot instantiate; but a nonempty set of numbers has a     *)
(* least element (WFMin), so a set that contains each element when it      *)
(* contains all the smaller ones is everything (BySize).  In the same way a*)
(* function that is defined by recursion on something that gets smaller    *)
(* exists (RecursiveExists), so that Points, Fitting, ByHand and Strict are*)
(* what their definitions say.                                             *)
(*                                                                         *)
(*   - One code point.  Its bytes are decoded to it again, whatever        *)
(*     follows them (FirstOfBytes), and a pair of surrogates comes back    *)
(*     from its code point (PairComesBack).                                *)
(*   - One string.  With room for four bytes a unit Fitting never stops    *)
(*     (RoomEnough), so that what is written, Coded, goes character by     *)
(*     character (CodedStep).  A well-formed string followed by anything   *)
(*     is decoded to itself and what that is decoded to (DecodesCoded).    *)
(*   - A cut.  The bytes of a text begin with those of each well-formed    *)
(*     start (CodedConcat), and if these are stored whole the start comes  *)
(*     back (StartComesBack).  A character that was cut gives no more      *)
(*     units than it had (CutLength).                                      *)
(*                                                                         *)
(* What the variables hold is then a small invariant, IInv: the library    *)
(* keeps what the call wrote of the text, and the program has read what is *)
(* kept.                                                                   *)
(***************************************************************************)
EXTENDS Text, SequenceTheorems, WellFoundedInduction, NaturalsInduction, TLAPS

-----------------------------------------------------------------------------
(* Induction and recursion over data.                                      *)

\* A nonempty set of naturals has a least element.
LEMMA LeastNumber ==
    ASSUME NEW S \in SUBSET Nat, S # {}
    PROVE  \E b \in S : \A c \in S : b <= c
<1>1. PICK b \in S : \A c \in S : ~(<<c, b>> \in OpToRel(<, Nat))
  BY NatLessThanWellFounded, WFMin
<1>2. \A c \in S : ~(c < b)
  BY <1>1 DEF OpToRel
<1> QED  BY <1>2

\* Induction over the size of the elements of S: T is the set of those for
\* which a fact holds.
LEMMA BySize ==
    ASSUME NEW S, NEW size, \A x \in S : size[x] \in Nat, NEW T,
           \A x \in S : (\A y \in S : size[y] < size[x] => y \in T) => x \in T
    PROVE  S \subseteq T
<1> SUFFICES ASSUME S \ T # {} PROVE FALSE
  OBVIOUS
<1> DEFINE N == {size[x] : x \in S \ T}
<1>1. N \in SUBSET Nat /\ N # {}
  OBVIOUS
<1> HIDE DEF N
<1>2. PICK b \in N : \A c \in N : b <= c
  BY <1>1, LeastNumber
<1>3. PICK x \in S \ T : b = size[x]
  BY <1>2 DEF N
<1>4. PICK y \in S : size[y] < size[x] /\ y \notin T
  BY <1>3
<1>5. size[y] \in N /\ size[y] \in Nat /\ size[x] \in Nat
  BY <1>4 DEF N
<1>6. size[x] <= size[y]
  BY <1>2, <1>3, <1>5
<1> QED
  BY <1>4, <1>5, <1>6

\* What a function on S that is defined by recursion, with a sequence at each
\* step in front of what is left, is on a part of S.
Recursive(f, S, Stop, head, rest) ==
    f = [x \in S |-> IF x \in Stop THEN head[x] ELSE head[x] \o f[rest[x]]]

\* The argument gets smaller at each step.
Descends(S, size, Stop, rest) ==
    /\ \A x \in S : size[x] \in Nat
    /\ \A x \in S \ Stop : rest[x] \in S /\ size[rest[x]] < size[x]

Smaller(S, size, n) == {x \in S : size[x] < n}

\* Two such functions agree where both are defined.
LEMMA RecursiveAgree ==
    ASSUME NEW S, NEW size, NEW Stop, NEW head, NEW rest,
           Descends(S, size, Stop, rest),
           NEW m \in Nat, NEW n \in Nat, NEW f, NEW g,
           Recursive(f, Smaller(S, size, m), Stop, head, rest),
           Recursive(g, Smaller(S, size, n), Stop, head, rest)
    PROVE  \A x \in S : size[x] < m /\ size[x] < n => f[x] = g[x]
<1>0. /\ \A x \in S : size[x] \in Nat
      /\ \A x \in S \ Stop : rest[x] \in S /\ size[rest[x]] < size[x]
  BY DEF Descends
<1> DEFINE T == {x \in S : size[x] < m /\ size[x] < n => f[x] = g[x]}
<1>1. ASSUME NEW x \in S, \A y \in S : size[y] < size[x] => y \in T,
             size[x] < m, size[x] < n
      PROVE  f[x] = g[x]
  <2>1. /\ f[x] = IF x \in Stop THEN head[x] ELSE head[x] \o f[rest[x]]
        /\ g[x] = IF x \in Stop THEN head[x] ELSE head[x] \o g[rest[x]]
    BY ONLY <1>1, x \in S,
            Recursive(f, Smaller(S, size, m), Stop, head, rest),
            Recursive(g, Smaller(S, size, n), Stop, head, rest)
       DEF Recursive, Smaller
  <2>2. CASE x \in Stop
    BY <2>1, <2>2
  <2>3. CASE x \notin Stop
    <3>1. rest[x] \in S /\ size[rest[x]] < size[x]
      BY <1>0, <2>3
    <3>2. size[rest[x]] \in Nat /\ size[x] \in Nat
      BY <1>0, <3>1
    <3>3. f[rest[x]] = g[rest[x]]
      BY <1>1, <3>1, <3>2
    <3> QED
      BY <2>1, <2>3, <3>3
  <2> QED
    BY <2>2, <2>3
<1>2. \A x \in S : (\A y \in S : size[y] < size[x] => y \in T) => x \in T
  BY <1>1
<1> HIDE DEF T
<1>3. S \subseteq T
  BY ONLY <1>0, <1>2, BySize
<1> QED
  BY <1>3 DEF T

\* There is one on the elements of any size.
LEMMA RecursiveBelow ==
    ASSUME NEW S, NEW size, NEW Stop, NEW head, NEW rest,
           Descends(S, size, Stop, rest)
    PROVE  \A n \in Nat :
              \E f : Recursive(f, Smaller(S, size, n), Stop, head, rest)
<1> DEFINE Below(n) == Smaller(S, size, n)
           T == {n \in Nat : \E f : Recursive(f, Below(n), Stop, head, rest)}
           same == [n \in Nat |-> n]
<1>1. ASSUME NEW n \in Nat, \A k \in Nat : same[k] < same[n] => k \in T
      PROVE  n \in T
  <2>1. CASE n = 0
    <3>1. Below(n) = {}
      BY <2>1 DEF Smaller, Descends
    <3> DEFINE f == [x \in {} |-> x]
    <3>2. Recursive(f, Below(n), Stop, head, rest)
      BY <3>1 DEF Recursive
    <3> HIDE DEF f
    <3>3. \E h : Recursive(h, Below(n), Stop, head, rest)
      BY ONLY <3>2, Zenon
    <3> QED
      BY ONLY <3>3, n \in Nat
  <2>2. CASE n # 0
    <3>1. n - 1 \in Nat /\ same[n - 1] < same[n]
      BY <2>2
    <3>2. PICK f : Recursive(f, Below(n - 1), Stop, head, rest)
      BY <1>1, <3>1
    <3> DEFINE g == [x \in Below(n) |-> IF x \in Stop THEN head[x]
                                        ELSE head[x] \o f[rest[x]]]
    <3>3. \A y \in Below(n - 1) : g[y] = f[y]
      <4> SUFFICES ASSUME NEW y \in Below(n - 1) PROVE g[y] = f[y]
        OBVIOUS
      <4>1. y \in S /\ size[y] < n - 1 /\ size[y] \in Nat
        BY DEF Smaller, Descends
      <4>2. y \in Below(n)
        BY <3>1, <4>1 DEF Smaller
      <4>3. f[y] = IF y \in Stop THEN head[y] ELSE head[y] \o f[rest[y]]
        BY ONLY <3>2, y \in Below(n - 1) DEF Recursive
      <4> QED
        BY <4>2, <4>3
    <3>4. ASSUME NEW x \in Below(n), x \notin Stop PROVE rest[x] \in Below(n - 1)
      <4>1. rest[x] \in S /\ size[rest[x]] < size[x] /\ size[x] < n
        BY <3>4 DEF Smaller, Descends
      <4>2. size[rest[x]] \in Nat /\ size[x] \in Nat
        BY <3>4, <4>1 DEF Smaller, Descends
      <4> QED
        BY <4>1, <4>2 DEF Smaller
    <3>5. \A x \in Below(n) :
             g[x] = IF x \in Stop THEN head[x] ELSE head[x] \o g[rest[x]]
      <4> SUFFICES ASSUME NEW x \in Below(n)
                   PROVE  g[x] = IF x \in Stop THEN head[x]
                                 ELSE head[x] \o g[rest[x]]
        OBVIOUS
      <4>1. g[x] = IF x \in Stop THEN head[x] ELSE head[x] \o f[rest[x]]
        OBVIOUS
      <4>2. x \notin Stop => g[rest[x]] = f[rest[x]]
        BY <3>3, <3>4
      <4> QED
        BY ONLY <4>1, <4>2
    <3>6. g = [x \in Below(n) |-> g[x]]
      OBVIOUS
    <3> HIDE DEF g
    <3>7. g = [x \in Below(n) |-> IF x \in Stop THEN head[x]
                                  ELSE head[x] \o g[rest[x]]]
      BY ONLY <3>5, <3>6
    <3>8. \E h : Recursive(h, Below(n), Stop, head, rest)
      BY ONLY <3>7, Zenon DEF Recursive
    <3> QED
      BY ONLY <3>8, n \in Nat
  <2> QED
    BY <2>1, <2>2
<1> DEFINE All == Nat
<1>2. \A n \in All : (\A k \in All : same[k] < same[n] => k \in T) => n \in T
  BY <1>1
<1>3. \A n \in All : same[n] \in Nat
  OBVIOUS
<1> HIDE DEF T, same, All
<1>4. All \subseteq T
  BY ONLY <1>2, <1>3, BySize
<1> QED
  BY <1>4 DEF T, All

\* There is one on all of S.
LEMMA RecursiveExists ==
    ASSUME NEW S, NEW size, NEW Stop, NEW head, NEW rest,
           Descends(S, size, Stop, rest)
    PROVE  \E f : Recursive(f, S, Stop, head, rest)
<1> DEFINE Below(n) == Smaller(S, size, n)
           part(n) == CHOOSE f : Recursive(f, Below(n), Stop, head, rest)
           f == [x \in S |-> part(size[x] + 1)[x]]
<1>0. /\ \A x \in S : size[x] \in Nat
      /\ \A x \in S \ Stop : rest[x] \in S /\ size[rest[x]] < size[x]
  BY DEF Descends
<1>1. \A n \in Nat : Recursive(part(n), Below(n), Stop, head, rest)
  BY RecursiveBelow
<1> HIDE DEF part
<1>2. ASSUME NEW x \in S
      PROVE  f[x] = IF x \in Stop THEN head[x] ELSE head[x] \o f[rest[x]]
  <2> DEFINE n == size[x] + 1
  <2>1. n \in Nat /\ size[x] < n /\ x \in Below(n)
    BY DEF Smaller, Descends
  <2>2. Recursive(part(n), Below(n), Stop, head, rest)
    BY <1>1, <2>1
  <2>3. f[x] = part(n)[x]
    OBVIOUS
  <2>4. part(n)[x] = IF x \in Stop THEN head[x] ELSE head[x] \o part(n)[rest[x]]
    BY ONLY <2>1, <2>2 DEF Recursive
  <2>5. CASE x \in Stop
    BY <2>3, <2>4, <2>5
  <2>6. CASE x \notin Stop
    <3> DEFINE y == rest[x]
               k == size[y] + 1
    <3>1. y \in S /\ size[y] < size[x] /\ size[y] \in Nat
      BY <1>0, <2>6
    <3>2. k \in Nat /\ size[y] < k /\ size[y] < n
      BY <1>0, <2>1, <3>1
    <3>3. Recursive(part(k), Below(k), Stop, head, rest)
      BY <1>1, <3>2
    <3> HIDE DEF n, k
    <3> DEFINE a == part(n)
               b == part(k)
    <3>4. Recursive(a, Smaller(S, size, n), Stop, head, rest)
      BY <2>2
    <3>5. Recursive(b, Smaller(S, size, k), Stop, head, rest)
      BY <3>3
    <3>6. n \in Nat /\ k \in Nat
      BY <2>1, <3>2
    <3> HIDE DEF a, b
    <3>7. \A z \in S : size[z] < n /\ size[z] < k => a[z] = b[z]
      BY <3>4, <3>5, <3>6, RecursiveAgree
    <3>8. a[y] = b[y]
      BY ONLY <3>1, <3>2, <3>7
    <3>9. f[y] = b[y]
      BY <3>1 DEF b, k
    <3> QED
      BY <2>3, <2>4, <2>6, <3>8, <3>9 DEF a
  <2> QED
    BY <2>5, <2>6
<1>3. f = [x \in S |-> f[x]]
  OBVIOUS
<1> HIDE DEF f
<1>4. f = [x \in S |-> IF x \in Stop THEN head[x] ELSE head[x] \o f[rest[x]]]
  BY ONLY <1>2, <1>3
<1> QED
  BY <1>4 DEF Recursive
-----------------------------------------------------------------------------
(* The functions of Text are the ones their definitions describe.          *)

\* How many units the first character of a string takes.
Taken(s) == IF ~IsSurrogate(s[1]) \/ Len(s) = 1 THEN 1 ELSE 2

\* Its code point, as stringToUTF8 computes it.
HeadPoint(s) == IF ~IsSurrogate(s[1]) THEN s[1]
                ELSE Paired(s[1], IF Len(s) = 1 THEN 0 ELSE s[2])

\* The string after it.
After(s) == SubSeq(s, Taken(s) + 1, Len(s))

\* The end of a sequence is a sequence, and shorter.
LEMMA EndOf ==
    ASSUME NEW S, NEW s \in Seq(S), NEW k \in Nat, k > 0, s # <<>>
    PROVE  /\ SubSeq(s, k + 1, Len(s)) \in Seq(S)
           /\ Len(SubSeq(s, k + 1, Len(s)))
                 = IF k <= Len(s) THEN Len(s) - k ELSE 0
           /\ \A i \in 1..(Len(s) - k) : SubSeq(s, k + 1, Len(s))[i] = s[i + k]
           /\ Len(SubSeq(s, k + 1, Len(s))) < Len(s)
           /\ Len(s) \in Nat /\ Len(s) > 0
<1>1. Len(s) \in Nat /\ Len(s) > 0
  BY EmptySeq
<1>2. \A i \in (k + 1)..Len(s) : s[i] \in S
  BY <1>1, ElementOfSeq
<1>3. k + 1 \in Int /\ Len(s) \in Int
  BY <1>1
<1>4. /\ SubSeq(s, k + 1, Len(s)) \in Seq(S)
      /\ Len(SubSeq(s, k + 1, Len(s)))
            = IF k + 1 <= Len(s) THEN Len(s) - (k + 1) + 1 ELSE 0
      /\ \A i \in 1..(Len(s) - (k + 1) + 1) :
            SubSeq(s, k + 1, Len(s))[i] = s[(k + 1) + i - 1]
  BY ONLY <1>2, <1>3, SubSeqProperties
<1>5. Len(s) - (k + 1) + 1 = Len(s) - k
  BY <1>1
<1>6. \A i \in 1..(Len(s) - k) : (k + 1) + i - 1 = i + k
  BY <1>1
<1> QED
  BY <1>1, <1>4, <1>5, <1>6

\* stringToUTF8 goes on after it.
LEMMA AfterCases ==
    ASSUME NEW s \in Seq(Nat), s # <<>>
    PROVE  /\ ~IsSurrogate(s[1]) => After(s) = Tail(s)
           /\ IsSurrogate(s[1]) => After(s) = SubSeq(s, 3, Len(s))
<1>1. Len(s) \in Nat /\ Len(s) > 0
  BY EmptySeq
<1>2. Tail(s) = SubSeq(s, 2, Len(s))
  BY TailIsSubSeq
<1>3. CASE ~IsSurrogate(s[1])
  BY <1>2, <1>3 DEF After, Taken
<1>4. CASE IsSurrogate(s[1]) /\ Len(s) = 1
  <2>1. After(s) = SubSeq(s, 2, 1)
    BY <1>4 DEF After, Taken
  <2>2. SubSeq(s, 2, 1) = <<>> /\ SubSeq(s, 3, 1) = <<>>
    BY SubSeqEmpty
  <2> QED
    BY <1>4, <2>1, <2>2
<1>5. CASE IsSurrogate(s[1]) /\ Len(s) # 1
  BY <1>5 DEF After, Taken
<1> QED
  BY <1>3, <1>4, <1>5

\* Points, unfolded.
LEMMA PointsUnfolds ==
    Points = [s \in Seq(Nat) |->
                 IF s = <<>> THEN <<>> ELSE <<HeadPoint(s)>> \o Points[After(s)]]
<1> DEFINE S == Seq(Nat)
           Stop == {<<>>}
           size == [s \in S |-> Len(s)]
           head == [s \in S |-> IF s = <<>> THEN <<>> ELSE <<HeadPoint(s)>>]
           rest == [s \in S |-> After(s)]
<1>1. \A s \in S : size[s] \in Nat
  BY LenProperties
<1>2. ASSUME NEW s \in S \ Stop
      PROVE  rest[s] \in S /\ size[rest[s]] < size[s]
  <2>1. Taken(s) \in Nat /\ Taken(s) > 0 /\ s # <<>>
    BY DEF Taken
  <2>2. After(s) \in S /\ Len(After(s)) < Len(s)
    BY ONLY <2>1, s \in Seq(Nat), EndOf DEF After
  <2> QED
    BY <2>2
<1>3. Descends(S, size, Stop, rest)
  BY <1>1, <1>2 DEF Descends
<1> HIDE DEF S, Stop, size, head, rest
<1>4. PICK f : Recursive(f, S, Stop, head, rest)
  BY <1>3, RecursiveExists
<1>5. f = [s \in S |-> IF s \in Stop THEN head[s] ELSE head[s] \o f[rest[s]]]
  BY <1>4 DEF Recursive
<1> DEFINE Body(g) == [s \in Seq(Nat) |->
               IF s = <<>> THEN <<>>
               ELSE IF ~IsSurrogate(s[1]) THEN <<s[1]>> \o g[Tail(s)]
               ELSE <<Paired(s[1], IF Len(s) = 1 THEN 0 ELSE s[2])>>
                       \o g[SubSeq(s, 3, Len(s))]]
<1>6. ASSUME NEW g, NEW s \in Seq(Nat)
      PROVE  (IF s = <<>> THEN <<>> ELSE <<HeadPoint(s)>> \o g[After(s)])
             = Body(g)[s]
  <2>1. CASE s = <<>>
    BY <2>1
  <2>2. CASE s # <<>> /\ ~IsSurrogate(s[1])
    BY <2>2, AfterCases DEF HeadPoint
  <2>3. CASE s # <<>> /\ IsSurrogate(s[1])
    BY <2>3, AfterCases DEF HeadPoint
  <2> QED
    BY <2>1, <2>2, <2>3
<1>7. ASSUME NEW s \in Seq(Nat)
      PROVE  (IF s \in Stop THEN head[s] ELSE head[s] \o f[rest[s]])
             = IF s = <<>> THEN <<>> ELSE <<HeadPoint(s)>> \o f[After(s)]
  BY DEF S, Stop, head, rest
<1>8. \A g : Body(g) = [s \in Seq(Nat) |-> Body(g)[s]]
  OBVIOUS
<1> HIDE DEF Body
<1>9. f = Body(f)
  <2>1. \A s \in S : (IF s \in Stop THEN head[s] ELSE head[s] \o f[rest[s]])
                      = Body(f)[s]
    <3> SUFFICES ASSUME NEW s \in Seq(Nat)
                 PROVE  (IF s \in Stop THEN head[s] ELSE head[s] \o f[rest[s]])
                        = Body(f)[s]
      BY DEF S
    <3>1. (IF s \in Stop THEN head[s] ELSE head[s] \o f[rest[s]])
          = IF s = <<>> THEN <<>> ELSE <<HeadPoint(s)>> \o f[After(s)]
      BY ONLY <1>7, s \in Seq(Nat)
    <3>2. (IF s = <<>> THEN <<>> ELSE <<HeadPoint(s)>> \o f[After(s)])
          = Body(f)[s]
      BY ONLY <1>6, s \in Seq(Nat)
    <3> QED
      BY ONLY <3>1, <3>2
  <2>2. [s \in S |-> IF s \in Stop THEN head[s] ELSE head[s] \o f[rest[s]]]
        = [s \in S |-> Body(f)[s]]
    BY ONLY <2>1, Zenon
  <2> QED
    BY ONLY <1>5, <1>8, <2>2 DEF S
<1>10. Points = Body(Points)
  BY <1>9, Zenon DEF Points, Body
<1> QED
  BY <1>6, <1>8, <1>10

\* A code point has one to four bytes.
LEMMA BytesLen ==
    ASSUME NEW u \in Nat
    PROVE  Len(Bytes(u)) \in 1..4
BY DEF Bytes

\* Fitting, unfolded.
LEMMA FittingUnfolds ==
    Fitting = [a \in Seq(Nat) \X Nat |->
                  IF a[1] = <<>> THEN <<>>
                  ELSE LET b == Bytes(Head(a[1]))
                       IN  IF Len(b) > a[2] THEN <<>>
                           ELSE b \o Fitting[<<Tail(a[1]), a[2] - Len(b)>>]]
<1> DEFINE S == Seq(Nat) \X Nat
           b(a) == Bytes(Head(a[1]))
           Stop == {a \in S : a[1] = <<>> \/ Len(b(a)) > a[2]}
           size == [a \in S |-> Len(a[1])]
           head == [a \in S |-> IF a \in Stop THEN <<>> ELSE b(a)]
           rest == [a \in S |-> <<Tail(a[1]), a[2] - Len(b(a))>>]
<1>1. \A a \in S : size[a] \in Nat
  <2> SUFFICES ASSUME NEW a \in S PROVE size[a] \in Nat
    OBVIOUS
  <2>1. a[1] \in Seq(Nat)
    OBVIOUS
  <2> QED
    BY <2>1, LenProperties
<1>2. ASSUME NEW a \in S \ Stop
      PROVE  rest[a] \in S /\ size[rest[a]] < size[a]
  <2>1. a[1] \in Seq(Nat) /\ a[2] \in Nat /\ a[1] # <<>> /\ ~(Len(b(a)) > a[2])
    OBVIOUS
  <2>2. Head(a[1]) \in Nat /\ Tail(a[1]) \in Seq(Nat)
    BY <2>1, HeadTailProperties
  <2>3. Len(b(a)) \in 1..4
    BY <2>2, BytesLen
  <2>4. Tail(a[1]) = SubSeq(a[1], 2, Len(a[1]))
    BY <2>1, TailIsSubSeq
  <2>5. Len(SubSeq(a[1], 1 + 1, Len(a[1]))) < Len(a[1])
    BY ONLY <2>1, EndOf
  <2>6. a[2] - Len(b(a)) \in Nat
    BY <2>1, <2>3
  <2>7. rest[a] = <<Tail(a[1]), a[2] - Len(b(a))>> /\ size[a] = Len(a[1])
    OBVIOUS
  <2>8. rest[a] \in S
    BY ONLY <2>2, <2>6, <2>7
  <2>9. size[rest[a]] = Len(Tail(a[1]))
    BY <2>7, <2>8
  <2> QED
    BY ONLY <2>4, <2>5, <2>7, <2>8, <2>9
<1>3. Descends(S, size, Stop, rest)
  BY <1>1, <1>2 DEF Descends
<1> DEFINE Body(g) == [a \in Seq(Nat) \X Nat |->
                  IF a[1] = <<>> THEN <<>>
                  ELSE LET bb == Bytes(Head(a[1]))
                       IN  IF Len(bb) > a[2] THEN <<>>
                           ELSE bb \o g[<<Tail(a[1]), a[2] - Len(bb)>>]]
<1>4. ASSUME NEW g, NEW a \in S
      PROVE  (IF a \in Stop THEN head[a] ELSE head[a] \o g[rest[a]]) = Body(g)[a]
  <2>1. CASE a \in Stop
    BY <2>1
  <2>2. CASE a \notin Stop
    <3>1. a[1] # <<>> /\ ~(Len(Bytes(Head(a[1]))) > a[2])
      BY <2>2
    <3>2. head[a] = Bytes(Head(a[1]))
          /\ rest[a] = <<Tail(a[1]), a[2] - Len(Bytes(Head(a[1])))>>
      BY <2>2
    <3> QED
      BY <2>2, <3>1, <3>2
  <2> QED
    BY <2>1, <2>2
<1>5. \A g : Body(g) = [a \in S |-> Body(g)[a]]
  OBVIOUS
<1> HIDE DEF S, Stop, size, head, rest, Body
<1>6. PICK f : Recursive(f, S, Stop, head, rest)
  BY <1>3, RecursiveExists
<1>7. f = [a \in S |-> IF a \in Stop THEN head[a] ELSE head[a] \o f[rest[a]]]
  BY <1>6 DEF Recursive
<1>8. \A a \in S : (IF a \in Stop THEN head[a] ELSE head[a] \o f[rest[a]])
                   = Body(f)[a]
  BY <1>4
<1>9. [a \in S |-> IF a \in Stop THEN head[a] ELSE head[a] \o f[rest[a]]]
      = [a \in S |-> Body(f)[a]]
  BY ONLY <1>8, Zenon
<1>10. f = Body(f)
  BY ONLY <1>5, <1>7, <1>9
<1>11. Fitting = Body(Fitting)
  BY <1>10, Zenon DEF Fitting, Body
<1> QED
  BY <1>11 DEF Body

\* A character has a width, whatever its first byte.
LEMMA WidthRange == \A x : Width(x) \in 1..4
BY DEF Width

\* ByHand, unfolded.
LEMMA ByHandUnfolds ==
    ByHand = [b \in Seq(Nat) |->
                 IF b = <<>> THEN <<>>
                 ELSE UnitsOf(FirstPoint(b)) \o ByHand[Rest(b)]]
<1> DEFINE S == Seq(Nat)
           Stop == {<<>>}
           size == [b \in S |-> Len(b)]
           head == [b \in S |-> IF b = <<>> THEN <<>> ELSE UnitsOf(FirstPoint(b))]
           rest == [b \in S |-> Rest(b)]
<1>1. \A b \in S : size[b] \in Nat
  BY LenProperties
<1>2. ASSUME NEW b \in S \ Stop
      PROVE  rest[b] \in S /\ size[rest[b]] < size[b]
  <2>1. Width(b[1]) \in Nat /\ Width(b[1]) > 0 /\ b # <<>>
    BY WidthRange
  <2>2. Rest(b) \in S /\ Len(Rest(b)) < Len(b)
    BY ONLY <2>1, b \in Seq(Nat), EndOf DEF Rest
  <2> QED
    BY <2>2
<1>3. Descends(S, size, Stop, rest)
  BY <1>1, <1>2 DEF Descends
<1> DEFINE Body(g) == [b \in Seq(Nat) |->
                 IF b = <<>> THEN <<>>
                 ELSE UnitsOf(FirstPoint(b)) \o g[Rest(b)]]
<1>4. ASSUME NEW g, NEW b \in S
      PROVE  (IF b \in Stop THEN head[b] ELSE head[b] \o g[rest[b]]) = Body(g)[b]
  <2>1. CASE b \in Stop
    BY <2>1
  <2>2. CASE b \notin Stop
    BY <2>2
  <2> QED
    BY <2>1, <2>2
<1>5. \A g : Body(g) = [b \in S |-> Body(g)[b]]
  OBVIOUS
<1> HIDE DEF S, Stop, size, head, rest, Body
<1>6. PICK f : Recursive(f, S, Stop, head, rest)
  BY <1>3, RecursiveExists
<1>7. f = [b \in S |-> IF b \in Stop THEN head[b] ELSE head[b] \o f[rest[b]]]
  BY <1>6 DEF Recursive
<1>8. \A b \in S : (IF b \in Stop THEN head[b] ELSE head[b] \o f[rest[b]])
                   = Body(f)[b]
  BY <1>4
<1>9. [b \in S |-> IF b \in Stop THEN head[b] ELSE head[b] \o f[rest[b]]]
      = [b \in S |-> Body(f)[b]]
  BY ONLY <1>8, Zenon
<1>10. f = Body(f)
  BY ONLY <1>5, <1>7, <1>9
<1>11. ByHand = Body(ByHand)
  BY <1>10, Zenon DEF ByHand, Body
<1> QED
  BY <1>11 DEF Body

\* Strict, unfolded.
LEMMA StrictUnfolds ==
    Strict = [b \in Seq(Nat) |->
                 IF b = <<>> THEN <<>>
                 ELSE IF Width(b[1]) > Len(b) THEN <<Replacement>>
                 ELSE UnitsOf(FirstPoint(b)) \o Strict[Rest(b)]]
<1> DEFINE S == Seq(Nat)
           Stop == {b \in S : b = <<>> \/ Width(b[1]) > Len(b)}
           size == [b \in S |-> Len(b)]
           head == [b \in S |-> IF b = <<>> THEN <<>>
                                ELSE IF Width(b[1]) > Len(b) THEN <<Replacement>>
                                ELSE UnitsOf(FirstPoint(b))]
           rest == [b \in S |-> Rest(b)]
<1>1. \A b \in S : size[b] \in Nat
  BY LenProperties
<1>2. ASSUME NEW b \in S \ Stop
      PROVE  rest[b] \in S /\ size[rest[b]] < size[b]
  <2>1. Width(b[1]) \in Nat /\ Width(b[1]) > 0 /\ b # <<>>
    BY WidthRange
  <2>2. Rest(b) \in S /\ Len(Rest(b)) < Len(b)
    BY ONLY <2>1, b \in Seq(Nat), EndOf DEF Rest
  <2> QED
    BY <2>2
<1>3. Descends(S, size, Stop, rest)
  BY <1>1, <1>2 DEF Descends
<1> DEFINE Body(g) == [b \in Seq(Nat) |->
                 IF b = <<>> THEN <<>>
                 ELSE IF Width(b[1]) > Len(b) THEN <<Replacement>>
                 ELSE UnitsOf(FirstPoint(b)) \o g[Rest(b)]]
<1>4. ASSUME NEW g, NEW b \in S
      PROVE  (IF b \in Stop THEN head[b] ELSE head[b] \o g[rest[b]]) = Body(g)[b]
  <2>1. CASE b = <<>>
    BY <2>1
  <2>2. CASE b # <<>> /\ Width(b[1]) > Len(b)
    BY <2>2
  <2>3. CASE b # <<>> /\ ~(Width(b[1]) > Len(b))
    BY <2>3
  <2> QED
    BY <2>1, <2>2, <2>3
<1>5. \A g : Body(g) = [b \in S |-> Body(g)[b]]
  OBVIOUS
<1> HIDE DEF S, Stop, size, head, rest, Body
<1>6. PICK f : Recursive(f, S, Stop, head, rest)
  BY <1>3, RecursiveExists
<1>7. f = [b \in S |-> IF b \in Stop THEN head[b] ELSE head[b] \o f[rest[b]]]
  BY <1>6 DEF Recursive
<1>8. \A b \in S : (IF b \in Stop THEN head[b] ELSE head[b] \o f[rest[b]])
                   = Body(f)[b]
  BY <1>4
<1>9. [b \in S |-> IF b \in Stop THEN head[b] ELSE head[b] \o f[rest[b]]]
      = [b \in S |-> Body(f)[b]]
  BY ONLY <1>8, Zenon
<1>10. f = Body(f)
  BY ONLY <1>5, <1>7, <1>9
<1>11. Strict = Body(Strict)
  BY <1>10, Zenon DEF Strict, Body
<1> QED
  BY <1>11 DEF Body
-----------------------------------------------------------------------------
(* One code point.                                                         *)

Point == {u \in Nat : u <= 1114111}
Six == {x \in Nat : x <= 63}

\* Sequences of two elements.
LEMMA Two ==
    ASSUME NEW S, NEW x \in S, NEW y \in S, NEW t, t = <<x, y>>
    PROVE  t \in Seq(S) /\ Len(t) = 2 /\ t[1] = x /\ t[2] = y
BY SMT

\* Of three elements.
LEMMA Three ==
    ASSUME NEW S, NEW x \in S, NEW y \in S, NEW z \in S, NEW t, t = <<x, y, z>>
    PROVE  t \in Seq(S) /\ Len(t) = 3 /\ t[1] = x /\ t[2] = y /\ t[3] = z
BY SMT

\* Of four elements.
LEMMA Four ==
    ASSUME NEW S, NEW w \in S, NEW x \in S, NEW y \in S, NEW z \in S,
           NEW t, t = <<w, x, y, z>>
    PROVE  /\ t \in Seq(S) /\ Len(t) = 4
           /\ t[1] = w /\ t[2] = x /\ t[3] = y /\ t[4] = z
BY SMT

\* A byte has eight bits.
LEMMA ByteRange == \A x : x \in Byte <=> x \in Nat /\ x <= 255
BY DEF Byte

\* A unit has 16 bits.
LEMMA UnitRange == \A x : x \in Unit <=> x \in Nat /\ x <= 65535
<1>1. LastUnit \in Int
  BY SMT DEF LastUnit
<1>2. \A x : x \in Unit <=> x \in Nat /\ x <= LastUnit
  BY ONLY <1>1, SMT DEF Unit
<1>3. LastUnit = 65535
  BY DEF LastUnit
<1> QED
  BY ONLY <1>2, <1>3, SMT

\* A continuation byte carries six bits.
LEMMA SixRange == \A x : x \in Six <=> x \in Nat /\ x <= 63
BY DEF Six

\* A code point of seven bits is its own byte.
LEMMA OneByteOf ==
    ASSUME NEW u \in Point, u < 128
    PROVE  Bytes(u) = <<u>> /\ u \in Nat /\ u <= 127
BY DEF Bytes, OneByte, Point

\* Eleven bits are five and six.
LEMMA TwoBytesOf ==
    ASSUME NEW u \in Point, u >= 128, u < 2048
    PROVE  \E a \in Nat, b \in Six :
              /\ Bytes(u) = <<192 + a, 128 + b>>
              /\ 2 <= a /\ a <= 31
              /\ u = a * 64 + b
<1> DEFINE a == u \div 64
           b == u % 64
<1>1. u \in Nat /\ ~(u <= 127) /\ u <= 2047
  BY DEF Point
<1>2. u \div 1 = u
  BY <1>1
<1>3. OneByte(u) = FALSE /\ Continuation(u, 1) = 128 + b
  BY <1>1, <1>2 DEF OneByte, Continuation
<1>4. Bytes(u) = <<192 + a, 128 + b>>
  BY <1>1, <1>3 DEF Bytes
<1>5. a \in Nat /\ 2 <= a /\ a <= 31 /\ b \in Six
  BY <1>1, SixRange
<1>6. u = a * 64 + b
  BY <1>1
<1> HIDE DEF a, b
<1> QED
  BY <1>4, <1>5, <1>6

\* Sixteen bits are four, six and six.
LEMMA ThreeBytesOf ==
    ASSUME NEW u \in Point, u >= 2048, u < 65536
    PROVE  \E a \in Nat, b \in Six, c \in Six :
              /\ Bytes(u) = <<224 + a, 128 + b, 128 + c>>
              /\ a <= 15
              /\ u = a * 4096 + b * 64 + c
<1> DEFINE a == u \div 4096
           b == (u \div 64) % 64
           c == u % 64
<1>1. u \in Nat /\ ~(u <= 127) /\ ~(u <= 2047) /\ u <= 65535
  BY DEF Point
<1>2. u \div 1 = u
  BY <1>1
<1>3. /\ OneByte(u) = FALSE /\ Continuation(u, 1) = 128 + c
      /\ Continuation(u, 64) = 128 + b
  BY <1>1, <1>2 DEF OneByte, Continuation
<1>4. Bytes(u) = <<224 + a, 128 + b, 128 + c>>
  BY <1>1, <1>3 DEF Bytes
<1>5. a \in Nat /\ a <= 15 /\ b \in Six /\ c \in Six
  BY <1>1, SixRange
<1>6. u = a * 4096 + b * 64 + c
  BY <1>1
<1> HIDE DEF a, b, c
<1> QED
  BY <1>4, <1>5, <1>6

\* 21 bits are three, six, six and six.
LEMMA FourBytesOf ==
    ASSUME NEW u \in Point, u >= 65536
    PROVE  \E a \in Nat, b \in Six, c \in Six, d \in Six :
              /\ Bytes(u) = <<240 + a, 128 + b, 128 + c, 128 + d>>
              /\ a <= 7
              /\ u = a * 262144 + b * 4096 + c * 64 + d
<1> DEFINE a == u \div 262144
           b == (u \div 4096) % 64
           c == (u \div 64) % 64
           d == u % 64
<1>1. u \in Nat /\ ~(u <= 127) /\ ~(u <= 2047) /\ ~(u <= 65535) /\ u <= 1114111
  BY DEF Point
<1>2. u \div 1 = u
  BY <1>1
<1>3. /\ OneByte(u) = FALSE /\ Continuation(u, 1) = 128 + d
      /\ Continuation(u, 64) = 128 + c /\ Continuation(u, 4096) = 128 + b
  BY <1>1, <1>2 DEF OneByte, Continuation
<1>4. Bytes(u) = <<240 + a, 128 + b, 128 + c, 128 + d>>
  BY <1>1, <1>3 DEF Bytes
<1>5. a \in Nat /\ a <= 7 /\ b \in Six /\ c \in Six /\ d \in Six
  BY <1>1, SixRange
<1>6. u = a * 262144 + b * 4096 + c * 64 + d
  BY <1>1
<1> HIDE DEF a, b, c, d
<1> QED
  BY <1>4, <1>5, <1>6

\* A first byte tells how many there are.
LEMMA WidthCases ==
    /\ \A x \in Nat : x <= 127 => Width(x) = 1
    /\ \A a \in Nat : 2 <= a /\ a <= 31 => Width(192 + a) = 2
    /\ \A a \in Nat : a <= 15 => Width(224 + a) = 3
    /\ \A a \in Nat : a <= 7 => Width(240 + a) = 4
<1>1. \A x \in Nat : x <= 127 => Width(x) = 1
  BY DEF Width
<1>2. \A a \in Nat : 2 <= a /\ a <= 31 => Width(192 + a) = 2
  BY DEF Width
<1>3. \A a \in Nat : a <= 15 => Width(224 + a) = 3
  BY DEF Width
<1>4. \A a \in Nat : a <= 7 => Width(240 + a) = 4
  BY DEF Width
<1> QED
  BY <1>1, <1>2, <1>3, <1>4

\* What a continuation byte is, and what is taken of it.
LEMMA SixBits ==
    ASSUME NEW b \in Six
    PROVE  /\ 128 + b \in Byte /\ 128 + b # 0 /\ (128 + b) % 64 = b
           /\ b \in Nat /\ b <= 63
<1>1. b \in Nat /\ b <= 63
  BY SixRange
<1>2. 128 + b \in Nat /\ 128 + b <= 255 /\ 128 + b # 0 /\ (128 + b) % 64 = b
  BY <1>1
<1> QED
  BY <1>1, <1>2, ByteRange

\* What the masks take of a first byte.
LEMMA Masks ==
    /\ \A a \in Nat : a <= 31 => (192 + a) % 32 = a
    /\ \A a \in Nat : a <= 15 => (224 + a) % 16 = a
    /\ \A a \in Nat : a <= 7 => (240 + a) % 8 = a
BY SMT

\* The first code point by the width of the character.
LEMMA FirstPointCases ==
    ASSUME NEW b, NEW w, w = Width(b[1])
    PROVE  /\ w = 1 => FirstPoint(b) = b[1]
           /\ w = 2 /\ 2 <= Len(b) =>
                FirstPoint(b) = (b[1] % 32) * 64 + (b[2] % 64)
           /\ w = 3 /\ 2 <= Len(b) /\ 3 <= Len(b) =>
                FirstPoint(b) = (b[1] % 16) * 4096 + (b[2] % 64) * 64 + (b[3] % 64)
           /\ w = 4 /\ 2 <= Len(b) /\ 3 <= Len(b) /\ 4 <= Len(b) =>
                FirstPoint(b) = (b[1] % 8) * 262144 + (b[2] % 64) * 4096
                                + (b[3] % 64) * 64 + (b[4] % 64)
BY SMT DEF FirstPoint

\* What is written for one character is bytes, as many as its first byte says,
\* four of them outside the first plane, and no terminator among them.
LEMMA BytesFacts ==
    ASSUME NEW u \in Point
    PROVE  /\ Bytes(u) \in Seq(Byte)
           /\ Len(Bytes(u)) \in {1, 2, 3, 4}
           /\ Width(Bytes(u)[1]) = Len(Bytes(u))
           /\ u < 65536 => Len(Bytes(u)) <= 3
           /\ u >= 65536 => Len(Bytes(u)) = 4
           /\ u # 0 => \A i \in 1..Len(Bytes(u)) : Bytes(u)[i] # Nul
<1>1. u \in Nat
  BY DEF Point
<1>2. CASE u < 128
  <2>1. Bytes(u) = <<u>> /\ u \in Nat /\ u <= 127
    BY <1>2, OneByteOf
  <2>2. u \in Byte /\ Width(u) = 1
    BY <2>1, ByteRange, WidthCases
  <2> QED
    BY <1>2, <2>1, <2>2 DEF Nul
<1>3. CASE u >= 128 /\ u < 2048
  <2>1. PICK a \in Nat, b \in Six : Bytes(u) = <<192 + a, 128 + b>>
                                    /\ 2 <= a /\ a <= 31
    BY <1>3, TwoBytesOf
  <2> DEFINE w == 192 + a
             x == 128 + b
  <2>2. w \in Byte /\ w # 0 /\ Width(w) = 2 /\ x \in Byte /\ x # 0
    BY <2>1, ByteRange, SixBits, WidthCases
  <2>3. Bytes(u) = <<w, x>>
    BY <2>1
  <2> HIDE DEF w, x
  <2>4. /\ Bytes(u) \in Seq(Byte) /\ Len(Bytes(u)) = 2
        /\ Bytes(u)[1] = w /\ Bytes(u)[2] = x
    BY ONLY <2>2, <2>3, Two
  <2>5. \A i \in 1..Len(Bytes(u)) : Bytes(u)[i] # 0
    BY ONLY <2>2, <2>4
  <2>6. Width(Bytes(u)[1]) = Len(Bytes(u))
    BY ONLY <2>2, <2>4
  <2> QED
    BY ONLY <1>1, <1>3, <2>4, <2>5, <2>6, SMT DEF Nul
<1>4. CASE u >= 2048 /\ u < 65536
  <2>1. PICK a \in Nat, b \in Six, c \in Six :
           Bytes(u) = <<224 + a, 128 + b, 128 + c>> /\ a <= 15
    BY <1>4, ThreeBytesOf
  <2> DEFINE w == 224 + a
             x == 128 + b
             y == 128 + c
  <2>2. /\ w \in Byte /\ w # 0 /\ Width(w) = 3
        /\ x \in Byte /\ x # 0 /\ y \in Byte /\ y # 0
    BY <2>1, ByteRange, SixBits, WidthCases
  <2>3. Bytes(u) = <<w, x, y>>
    BY <2>1
  <2> HIDE DEF w, x, y
  <2>4. /\ Bytes(u) \in Seq(Byte) /\ Len(Bytes(u)) = 3
        /\ Bytes(u)[1] = w /\ Bytes(u)[2] = x /\ Bytes(u)[3] = y
    BY ONLY <2>2, <2>3, Three
  <2>5. \A i \in 1..Len(Bytes(u)) : Bytes(u)[i] # 0
    BY ONLY <2>2, <2>4
  <2>6. Width(Bytes(u)[1]) = Len(Bytes(u))
    BY ONLY <2>2, <2>4
  <2> QED
    BY ONLY <1>1, <1>4, <2>4, <2>5, <2>6, SMT DEF Nul
<1>5. CASE u >= 65536
  <2>1. PICK a \in Nat, b \in Six, c \in Six, d \in Six :
           Bytes(u) = <<240 + a, 128 + b, 128 + c, 128 + d>> /\ a <= 7
    BY <1>5, FourBytesOf
  <2> DEFINE w == 240 + a
             x == 128 + b
             y == 128 + c
             z == 128 + d
  <2>2. /\ w \in Byte /\ w # 0 /\ Width(w) = 4
        /\ x \in Byte /\ x # 0 /\ y \in Byte /\ y # 0 /\ z \in Byte /\ z # 0
    BY <2>1, ByteRange, SixBits, WidthCases
  <2>3. Bytes(u) = <<w, x, y, z>>
    BY <2>1
  <2> HIDE DEF w, x, y, z
  <2>4. /\ Bytes(u) \in Seq(Byte) /\ Len(Bytes(u)) = 4
        /\ Bytes(u)[1] = w /\ Bytes(u)[2] = x /\ Bytes(u)[3] = y /\ Bytes(u)[4] = z
    BY ONLY <2>2, <2>3, Four
  <2>5. \A i \in 1..Len(Bytes(u)) : Bytes(u)[i] # 0
    BY ONLY <2>2, <2>4
  <2>6. Width(Bytes(u)[1]) = Len(Bytes(u))
    BY ONLY <2>2, <2>4
  <2> QED
    BY ONLY <1>1, <1>5, <2>4, <2>5, <2>6, SMT DEF Nul
<1> QED
  BY <1>1, <1>2, <1>3, <1>4, <1>5

\* The loop of UTF8ArrayToString computes the code point that was written.
LEMMA Decodes ==
    ASSUME NEW u \in Point, NEW b \in Seq(Nat), Len(Bytes(u)) <= Len(b),
           \A i \in 1..Len(Bytes(u)) : b[i] = Bytes(u)[i]
    PROVE  FirstPoint(b) = u
<1>1. u \in Nat /\ Len(b) \in Nat
  BY LenProperties DEF Point
<1>2. CASE u < 128
  <2>1. Bytes(u) = <<u>> /\ u \in Nat /\ u <= 127
    BY <1>2, OneByteOf
  <2>2. b[1] = u
    BY <2>1
  <2>3. Width(u) = 1
    BY <2>1, WidthCases
  <2> QED
    BY <2>2, <2>3 DEF FirstPoint
<1>3. CASE u >= 128 /\ u < 2048
  <2>1. PICK a \in Nat, c \in Six :
           /\ Bytes(u) = <<192 + a, 128 + c>> /\ 2 <= a /\ a <= 31
           /\ u = a * 64 + c
    BY <1>3, TwoBytesOf
  <2>2. b[1] = 192 + a /\ b[2] = 128 + c /\ 2 <= Len(b)
    BY <2>1
  <2>3. Width(192 + a) = 2
    BY <2>1, WidthCases
  <2>4. (192 + a) % 32 = a /\ (128 + c) % 64 = c
    BY ONLY <2>1, Masks, SixBits, SMT
  <2>5. Width(b[1]) = 2
    BY <2>2, <2>3
  <2>6. FirstPoint(b) = (b[1] % 32) * 64 + (b[2] % 64)
    BY ONLY <2>2, <2>5, FirstPointCases, SMT
  <2>7. b[1] % 32 = a /\ b[2] % 64 = c
    BY ONLY <2>2, <2>4, SMT
  <2> QED
    BY ONLY <2>1, <2>6, <2>7, SMT
<1>4. CASE u >= 2048 /\ u < 65536
  <2>1. PICK a \in Nat, c \in Six, d \in Six :
           /\ Bytes(u) = <<224 + a, 128 + c, 128 + d>> /\ a <= 15
           /\ u = a * 4096 + c * 64 + d
    BY <1>4, ThreeBytesOf
  <2>2. b[1] = 224 + a /\ b[2] = 128 + c /\ b[3] = 128 + d /\ 3 <= Len(b)
    BY <2>1
  <2>3. Width(224 + a) = 3
    BY <2>1, WidthCases
  <2>4. (224 + a) % 16 = a /\ (128 + c) % 64 = c /\ (128 + d) % 64 = d
    <3>1. a <= 15 => (224 + a) % 16 = a
      BY Masks
    <3>2. (128 + c) % 64 = c /\ (128 + d) % 64 = d
      BY SixBits
    <3> QED
      BY <2>1, <3>1, <3>2
  <2>5. Width(b[1]) = 3
    BY <2>2, <2>3
  <2>8. 2 <= Len(b)
    BY ONLY <1>1, <2>2, SMT
  <2>6. FirstPoint(b) = (b[1] % 16) * 4096 + (b[2] % 64) * 64 + (b[3] % 64)
    BY ONLY <2>2, <2>5, <2>8, FirstPointCases, SMT
  <2>7. b[1] % 16 = a /\ b[2] % 64 = c /\ b[3] % 64 = d
    BY ONLY <2>2, <2>4, SMT
  <2> QED
    BY ONLY <2>1, <2>6, <2>7, SMT
<1>5. CASE u >= 65536
  <2>1. PICK a \in Nat, c \in Six, d \in Six, e \in Six :
           /\ Bytes(u) = <<240 + a, 128 + c, 128 + d, 128 + e>> /\ a <= 7
           /\ u = a * 262144 + c * 4096 + d * 64 + e
    BY <1>5, FourBytesOf
  <2>2. /\ b[1] = 240 + a /\ b[2] = 128 + c /\ b[3] = 128 + d /\ b[4] = 128 + e
        /\ 4 <= Len(b)
    BY <2>1
  <2>3. Width(240 + a) = 4
    BY <2>1, WidthCases
  <2>4. /\ (240 + a) % 8 = a /\ (128 + c) % 64 = c
        /\ (128 + d) % 64 = d /\ (128 + e) % 64 = e
    <3>1. a <= 7 => (240 + a) % 8 = a
      BY Masks
    <3>2. (128 + c) % 64 = c /\ (128 + d) % 64 = d /\ (128 + e) % 64 = e
      BY SixBits
    <3> QED
      BY <2>1, <3>1, <3>2
  <2>5. Width(b[1]) = 4
    BY <2>2, <2>3
  <2>8. 2 <= Len(b) /\ 3 <= Len(b)
    BY ONLY <1>1, <2>2, SMT
  <2>6. FirstPoint(b) = (b[1] % 8) * 262144 + (b[2] % 64) * 4096
                         + (b[3] % 64) * 64 + (b[4] % 64)
    BY ONLY <2>2, <2>5, <2>8, FirstPointCases, SMT
  <2>7. b[1] % 8 = a /\ b[2] % 64 = c /\ b[3] % 64 = d /\ b[4] % 64 = e
    BY ONLY <2>2, <2>4, SMT
  <2> QED
    BY ONLY <2>1, <2>6, <2>7, SMT
<1> QED
  BY ONLY <1>1, <1>2, <1>3, <1>4, <1>5, SMT

\* Whatever the bytes are, the loop gives a number of 21 bits, and of 16 bits
\* for a character of at most three bytes.
LEMMA FirstPointRange ==
    ASSUME NEW b \in Seq(Nat), b # <<>>, b[1] \in Byte
    PROVE  /\ FirstPoint(b) \in Nat /\ FirstPoint(b) <= 2097151
           /\ Width(b[1]) <= 3 => FirstPoint(b) <= 65535
<1> DEFINE low(i) == IF i <= Len(b) THEN b[i] % 64 ELSE Nul
<1>1. \A i \in {2, 3, 4} : low(i) \in Six
  <2> SUFFICES ASSUME NEW i \in {2, 3, 4} PROVE low(i) \in Six
    OBVIOUS
  <2>1. CASE i <= Len(b)
    <3>1. b[i] \in Nat
      BY <2>1, ElementOfSeq, LenProperties
    <3>2. b[i] % 64 \in Nat /\ b[i] % 64 <= 63
      BY <3>1
    <3> QED
      BY <2>1, <3>2, SixRange
  <2>2. CASE ~(i <= Len(b))
    BY <2>2, SixRange DEF Nul
  <2> QED
    BY <2>1, <2>2
<1> DEFINE c == low(2)
           d == low(3)
           e == low(4)
           x == b[1]
<1>2. c \in Six /\ d \in Six /\ e \in Six
  BY <1>1
<1>3. x \in Nat /\ x <= 255
  BY ByteRange
<1>4. FirstPoint(b) = IF Width(x) = 1 THEN x
                      ELSE IF Width(x) = 2 THEN (x % 32) * 64 + c
                      ELSE IF Width(x) = 3 THEN (x % 16) * 4096 + c * 64 + d
                      ELSE (x % 8) * 262144 + c * 4096 + d * 64 + e
  BY DEF FirstPoint
<1> HIDE DEF c, d, e
<1>5. /\ c \in Nat /\ c <= 63 /\ d \in Nat /\ d <= 63 /\ e \in Nat /\ e <= 63
  BY <1>2, SixRange
<1> HIDE DEF x
<1> DEFINE k == x % 32
           m == x % 16
           n == x % 8
           p == FirstPoint(b)
           w == Width(x)
<1>6. k \in Nat /\ k <= 31 /\ m \in Nat /\ m <= 15 /\ n \in Nat /\ n <= 7
  BY ONLY <1>3, SMT
<1>7. p = IF w = 1 THEN x
          ELSE IF w = 2 THEN k * 64 + c
          ELSE IF w = 3 THEN m * 4096 + c * 64 + d
          ELSE n * 262144 + c * 4096 + d * 64 + e
  BY <1>4
<1>8. w = 1 \/ w = 2 \/ w = 3 \/ w = 4
  BY ONLY SMT DEF Width
<1> HIDE DEF k, m, n, p, w
<1>9. p \in Nat /\ p <= 2097151 /\ (w <= 3 => p <= 65535)
  BY ONLY <1>3, <1>5, <1>6, <1>7, <1>8, SMT
<1> QED
  BY ONLY <1>9 DEF p, w, x

\* A number of 21 bits becomes one unit or two.
LEMMA UnitsOfFacts ==
    ASSUME NEW p \in Nat, p <= 2097151
    PROVE  /\ UnitsOf(p) \in Seq(Unit)
           /\ p <= 65535 => UnitsOf(p) = <<p>>
           /\ Len(UnitsOf(p)) = IF p <= 65535 THEN 1 ELSE 2
           /\ UnitsOf(p) # <<>>
<1>1. \A x : x \in Unit <=> x \in Nat /\ x <= 65535
  BY UnitRange
<1>2. CASE p <= 65535
  <2>1. p < 65536 /\ p \in Unit
    BY <1>1, <1>2
  <2>2. UnitsOf(p) = <<p>>
    BY <2>1 DEF UnitsOf
  <2> QED
    BY <1>2, <2>1, <2>2
<1>3. CASE ~(p <= 65535)
  <2> DEFINE x == 55296 + ((p - 65536) \div 1024)
             y == 56320 + ((p - 65536) % 1024)
  <2>1. ~(p < 65536) /\ x \in Unit /\ y \in Unit
    BY <1>1, <1>3, SMT
  <2>2. UnitsOf(p) = <<x, y>>
    BY <2>1 DEF UnitsOf
  <2> HIDE DEF x, y
  <2> QED
    BY <1>3, <2>1, <2>2
<1> QED
  BY <1>2, <1>3

\* The halves of a surrogate pair come back from its code point.
LEMMA PairComesBack ==
    ASSUME NEW u \in Unit, NEW v \in Unit
    PROVE  /\ Paired(u, v) \in Point /\ Paired(u, v) >= 65536
           /\ IsLead(u) /\ IsTrail(v) => UnitsOf(Paired(u, v)) = <<u, v>>
<1>1. u \in Nat /\ v \in Nat
  BY UnitRange
<1>2. /\ u % 1024 \in Nat /\ u % 1024 <= 1023
      /\ v % 1024 \in Nat /\ v % 1024 <= 1023
  BY <1>1, SMT
<1> DEFINE a == u % 1024
           b == v % 1024
<1>3. Paired(u, v) = 65536 + a * 1024 + b
  BY DEF Paired
<1>4. Paired(u, v) \in Nat /\ Paired(u, v) <= 1114111 /\ Paired(u, v) >= 65536
  BY ONLY <1>2, <1>3, SMT
<1>5. ASSUME IsLead(u), IsTrail(v) PROVE UnitsOf(Paired(u, v)) = <<u, v>>
  <2>1. u = 55296 + a /\ v = 56320 + b
    BY <1>1, <1>5, SMT DEF IsLead, IsTrail
  <2> DEFINE ch == a * 1024 + b
  <2>2. ch \in Nat /\ Paired(u, v) - 65536 = ch
    BY <1>2, <1>3, SMT
  <2>3. ch \div 1024 = a /\ ch % 1024 = b
    BY <1>2, SMT
  <2>4. ~(Paired(u, v) < 65536)
    BY <1>4
  <2> QED
    BY <2>1, <2>2, <2>3, <2>4 DEF UnitsOf
<1> QED
  BY <1>4, <1>5 DEF Point
-----------------------------------------------------------------------------
(* Strings character by character.                                         *)

\* Units and bytes are numbers.
LEMMA Numbers ==
    /\ \A s \in Seq(Unit) : s \in Seq(Nat)
    /\ \A b \in Seq(Byte) : b \in Seq(Nat)
<1>1. Unit \subseteq Nat /\ Byte \subseteq Nat
  BY UnitRange, ByteRange
<1> QED
  BY <1>1, SeqMonotonic

\* A string is its first character and what comes after it.
LEMMA Character ==
    ASSUME NEW s \in Seq(Unit), s # <<>>
    PROVE  /\ s[1] \in Unit /\ Len(s) \in Nat /\ Len(s) > 0
           /\ HeadPoint(s) \in Point
           /\ After(s) \in Seq(Unit)
           /\ Taken(s) \in {1, 2} /\ Taken(s) <= Len(s)
           /\ Taken(s) = 2 => HeadPoint(s) >= 65536
           /\ Len(After(s)) = Len(s) - Taken(s)
           /\ \A i \in 1..Len(After(s)) : After(s)[i] = s[i + Taken(s)]
<1>1. Len(s) \in Nat /\ Len(s) > 0
  BY EmptySeq
<1>2. \A i \in 1..Len(s) : s[i] \in Unit
  BY ElementOfSeq
<1>3. s[1] \in Unit /\ (Len(s) # 1 => s[2] \in Unit)
  <2>1. \A n \in Nat : n > 0 => 1 \in 1..n /\ (n # 1 => 2 \in 1..n)
    BY SMT
  <2>2. 1 \in 1..Len(s) /\ (Len(s) # 1 => 2 \in 1..Len(s))
    BY ONLY <1>1, <2>1, Zenon
  <2> QED
    BY ONLY <1>2, <2>2, Zenon
<1>4. 0 \in Unit
  BY UnitRange
<1>5. Taken(s) \in {1, 2} /\ Taken(s) <= Len(s)
  <2>1. \A n \in Nat : n > 0 => 1 <= n /\ (n # 1 => 2 <= n)
    BY SMT
  <2>2. Taken(s) = 1 \/ (Taken(s) = 2 /\ Len(s) # 1)
    BY Zenon DEF Taken
  <2> QED
    BY ONLY <1>1, <2>1, <2>2, Zenon
<1> DEFINE k == Taken(s)
<1>8. /\ After(s) \in Seq(Unit) /\ Len(After(s)) = Len(s) - k
      /\ \A i \in 1..Len(After(s)) : After(s)[i] = s[i + k]
  <2>1. k \in Nat /\ k > 0 /\ k <= Len(s)
    BY <1>5
  <2>2. After(s) = SubSeq(s, k + 1, Len(s))
    BY DEF After
  <2> HIDE DEF k
  <2> QED
    BY ONLY <2>1, <2>2, s \in Seq(Unit), s # <<>>, EndOf
<1>6. CASE ~IsSurrogate(s[1])
  <2>1. HeadPoint(s) = s[1] /\ Taken(s) = 1
    BY <1>6 DEF HeadPoint, Taken
  <2>2. s[1] \in Nat /\ s[1] <= 65535
    BY <1>3, UnitRange
  <2>3. s[1] \in Point
    BY <2>2 DEF Point
  <2> QED
    BY ONLY <1>1, <1>3, <1>5, <1>8, <2>1, <2>3
<1>7. CASE IsSurrogate(s[1])
  <2> DEFINE v == IF Len(s) = 1 THEN 0 ELSE s[2]
  <2>1. v \in Unit /\ HeadPoint(s) = Paired(s[1], v)
    BY <1>3, <1>4, <1>7 DEF HeadPoint
  <2> HIDE DEF v
  <2>2. HeadPoint(s) \in Point /\ HeadPoint(s) >= 65536
    BY ONLY <1>3, <2>1, PairComesBack
  <2> QED
    BY ONLY <1>1, <1>3, <1>5, <1>8, <2>2
<1> QED
  BY <1>6, <1>7

\* Induction over the characters of a string: T is the set of the strings for
\* which a fact holds.
LEMMA ByCharacter ==
    ASSUME NEW T, <<>> \in T,
           \A s \in Seq(Unit) : s # <<>> /\ After(s) \in T => s \in T
    PROVE  Seq(Unit) \subseteq T
<1> DEFINE S == Seq(Unit)
           size == [s \in S |-> Len(s)]
<1>1. \A s \in S : size[s] \in Nat
  BY LenProperties
<1>2. ASSUME NEW s \in S, \A r \in S : size[r] < size[s] => r \in T
      PROVE  s \in T
  <2>1. CASE s = <<>>
    BY <2>1
  <2>2. CASE s # <<>>
    <3>1. After(s) \in S /\ size[After(s)] < size[s]
      <4>1. /\ After(s) \in Seq(Unit) /\ Len(s) \in Nat
            /\ Taken(s) \in {1, 2} /\ Len(After(s)) = Len(s) - Taken(s)
        BY <2>2, Character
      <4>2. Len(After(s)) < Len(s)
        BY ONLY <4>1, SMT
      <4> QED
        BY <4>1, <4>2
    <3> QED
      BY <1>2, <2>2, <3>1
  <2> QED
    BY <2>1, <2>2
<1>3. \A s \in S : (\A r \in S : size[r] < size[s] => r \in T) => s \in T
  BY <1>2
<1> HIDE DEF S, size
<1>4. S \subseteq T
  BY ONLY <1>1, <1>3, BySize
<1> QED
  BY <1>4 DEF S

\* Induction over the characters of bytes.
LEMMA ByBytes ==
    ASSUME NEW T, <<>> \in T,
           \A b \in Seq(Byte) : b # <<>> /\ Rest(b) \in T => b \in T
    PROVE  Seq(Byte) \subseteq T
<1> DEFINE S == Seq(Byte)
           size == [b \in S |-> Len(b)]
<1>1. \A b \in S : size[b] \in Nat
  BY LenProperties
<1>2. ASSUME NEW b \in S, \A r \in S : size[r] < size[b] => r \in T
      PROVE  b \in T
  <2>1. CASE b = <<>>
    BY <2>1
  <2>2. CASE b # <<>>
    <3>1. Width(b[1]) \in Nat /\ Width(b[1]) > 0
      BY WidthRange
    <3>2. Rest(b) \in Seq(Byte) /\ Len(Rest(b)) < Len(b)
      BY ONLY <2>2, <3>1, b \in Seq(Byte), EndOf DEF Rest
    <3> QED
      BY <1>2, <2>2, <3>2
  <2> QED
    BY <2>1, <2>2
<1>3. \A b \in S : (\A r \in S : size[r] < size[b] => r \in T) => b \in T
  BY <1>2
<1> HIDE DEF S, size
<1>4. S \subseteq T
  BY ONLY <1>1, <1>3, BySize
<1> QED
  BY <1>4 DEF S

\* A string has no more code points than units.
LEMMA PointsFacts ==
    \A s \in Seq(Unit) : Points[s] \in Seq(Point) /\ Len(Points[s]) <= Len(s)
<1> DEFINE T == {s \in Seq(Unit) :
                    Points[s] \in Seq(Point) /\ Len(Points[s]) <= Len(s)}
<1>1. <<>> \in T
  <2>1. <<>> \in Seq(Unit) /\ <<>> \in Seq(Nat) /\ <<>> \in Seq(Point)
    BY EmptySeq
  <2>2. Points[<<>>] = <<>>
    BY <2>1, PointsUnfolds
  <2>3. Len(<<>>) <= Len(<<>>)
    BY EmptySeq
  <2>4. Points[<<>>] \in Seq(Point) /\ Len(Points[<<>>]) <= Len(<<>>)
    BY ONLY <2>1, <2>2, <2>3, Zenon
  <2> QED
    BY ONLY <2>1, <2>4, Zenon
<1>2. ASSUME NEW s \in Seq(Unit), s # <<>>, After(s) \in T
      PROVE  s \in T
  <2>1. s \in Seq(Nat)
    BY Numbers
  <2>2. Points[s] = <<HeadPoint(s)>> \o Points[After(s)]
    BY <1>2, <2>1, PointsUnfolds
  <2>3. /\ HeadPoint(s) \in Point /\ Len(s) \in Nat
        /\ Taken(s) \in {1, 2} /\ Len(After(s)) = Len(s) - Taken(s)
    BY <1>2, Character
  <2>4. Points[After(s)] \in Seq(Point) /\ Len(Points[After(s)]) <= Len(After(s))
    BY <1>2
  <2>5. <<HeadPoint(s)>> \in Seq(Point) /\ Len(<<HeadPoint(s)>>) = 1
    BY <2>3
  <2>6. Points[s] \in Seq(Point) /\ Len(Points[s]) = 1 + Len(Points[After(s)])
    BY <2>2, <2>4, <2>5, ConcatProperties
  <2>7. Len(Points[After(s)]) \in Nat
    BY <2>4, LenProperties
  <2>8. Len(Points[s]) <= Len(s)
    BY ONLY <2>3, <2>4, <2>6, <2>7, SMT
  <2> QED
    BY <2>6, <2>8
<1>3. \A s \in Seq(Unit) : s # <<>> /\ After(s) \in T => s \in T
  BY <1>2
<1> HIDE DEF T
<1>4. Seq(Unit) \subseteq T
  BY ONLY <1>1, <1>3, ByCharacter
<1> QED
  BY <1>4 DEF T-----------------------------------------------------------------------------
(* What stringToUTF8 writes.                                               *)

\* What is written for a string where there is room for four bytes a unit.
Coded(s) == Fitting[<<Points[s], 4 * Len(s)>>]

\* Fitting, one code point at a time.
LEMMA FittingStep ==
    ASSUME NEW p \in Seq(Nat), NEW r \in Nat
    PROVE  /\ p = <<>> => Fitting[<<p, r>>] = <<>>
           /\ p # <<>> /\ Len(Bytes(Head(p))) <= r =>
                Fitting[<<p, r>>] = Bytes(Head(p)) \o
                                    Fitting[<<Tail(p), r - Len(Bytes(Head(p)))>>]
<1> DEFINE a == <<p, r>>
<1>1. a \in Seq(Nat) \X Nat /\ a[1] = p /\ a[2] = r
  OBVIOUS
<1> HIDE DEF a
<1>2. Fitting[a] = IF a[1] = <<>> THEN <<>>
                   ELSE LET b == Bytes(Head(a[1]))
                        IN  IF Len(b) > a[2] THEN <<>>
                            ELSE b \o Fitting[<<Tail(a[1]), a[2] - Len(b)>>]
  BY ONLY <1>1, FittingUnfolds
<1>3. p = <<>> => Fitting[a] = <<>>
  BY ONLY <1>1, <1>2
<1>4. ASSUME p # <<>>, Len(Bytes(Head(p))) <= r
      PROVE  Fitting[a] = Bytes(Head(p)) \o
                          Fitting[<<Tail(p), r - Len(Bytes(Head(p)))>>]
  <2>1. Head(p) \in Nat
    BY <1>4, HeadTailProperties
  <2>2. Len(Bytes(Head(p))) \in Nat
    BY <2>1, BytesLen
  <2>3. ~(Len(Bytes(Head(p))) > r)
    BY ONLY <1>4, <2>2, r \in Nat, SMT
  <2> QED
    BY ONLY <1>1, <1>2, <1>4, <2>3
<1> QED
  BY ONLY <1>3, <1>4 DEF a

\* More room than four bytes a code point makes no difference.
LEMMA RoomEnough ==
    ASSUME NEW p \in Seq(Nat), NEW r \in Nat, NEW q \in Nat,
           r >= 4 * Len(p), q >= 4 * Len(p)
    PROVE  Fitting[<<p, r>>] = Fitting[<<p, q>>]
<1> DEFINE S == Seq(Nat)
           size == [x \in S |-> Len(x)]
           T == {x \in S : \A i, j \in Nat : i >= 4 * Len(x) /\ j >= 4 * Len(x) =>
                              Fitting[<<x, i>>] = Fitting[<<x, j>>]}
<1>1. \A x \in S : size[x] \in Nat
  BY LenProperties
<1>2. ASSUME NEW x \in S, \A y \in S : size[y] < size[x] => y \in T
      PROVE  x \in T
  <2> SUFFICES ASSUME NEW i \in Nat, NEW j \in Nat,
                      i >= 4 * Len(x), j >= 4 * Len(x)
               PROVE  Fitting[<<x, i>>] = Fitting[<<x, j>>]
    OBVIOUS
  <2>1. CASE x = <<>>
    BY <2>1, FittingStep
  <2>2. CASE x # <<>>
    <3> DEFINE n == Len(Bytes(Head(x)))
               y == Tail(x)
    <3>1. Head(x) \in Nat /\ y \in Seq(Nat) /\ Len(y) = Len(x) - 1
      BY <2>2, HeadTailProperties
    <3>2. n \in 1..4
      BY <3>1, BytesLen
    <3>3. Len(x) \in Nat /\ Len(x) > 0
      BY <2>2, EmptySeq
    <3>4. size[y] < size[x]
      BY <3>1, <3>3
    <3>5. y \in T
      BY <1>2, <3>1, <3>4
    <3> HIDE DEF n, y
    <3> DEFINE k == Len(x)
    <3>6. /\ i - n \in Nat /\ j - n \in Nat /\ n <= i /\ n <= j
          /\ i - n >= 4 * (k - 1) /\ j - n >= 4 * (k - 1)
      <4>1. k \in Nat /\ k > 0 /\ i >= 4 * k /\ j >= 4 * k
        BY <3>3
      <4> HIDE DEF k
      <4> QED
        BY ONLY <3>2, <4>1, i \in Nat, j \in Nat, SMT
    <3>7. Fitting[<<y, i - n>>] = Fitting[<<y, j - n>>]
      BY <3>1, <3>5, <3>6
    <3>8. /\ Fitting[<<x, i>>] = Bytes(Head(x)) \o Fitting[<<y, i - n>>]
          /\ Fitting[<<x, j>>] = Bytes(Head(x)) \o Fitting[<<y, j - n>>]
      BY <2>2, <3>6, FittingStep DEF n, y
    <3> QED
      BY ONLY <3>7, <3>8
  <2> QED
    BY <2>1, <2>2
<1>3. \A x \in S : (\A y \in S : size[y] < size[x] => y \in T) => x \in T
  BY <1>2
<1> HIDE DEF S, size, T
<1>4. S \subseteq T
  BY ONLY <1>1, <1>3, BySize
<1>5. p \in T
  BY <1>4 DEF S
<1> QED
  BY <1>5 DEF T

\* The bytes of a string are those of its first character and of the rest.
LEMMA CodedStep ==
    ASSUME NEW s \in Seq(Unit)
    PROVE  /\ s = <<>> => Coded(s) = <<>>
           /\ s # <<>> => Coded(s) = Bytes(HeadPoint(s)) \o Coded(After(s))
<1>1. s \in Seq(Nat) /\ Len(s) \in Nat
  BY Numbers, LenProperties
<1>2. Points[s] \in Seq(Point) /\ Points[s] \in Seq(Nat)
  <2>1. Points[s] \in Seq(Point)
    BY PointsFacts
  <2>2. Point \subseteq Nat
    BY DEF Point
  <2> QED
    BY <2>1, <2>2, SeqMonotonic
<1>3. Points[s] = IF s = <<>> THEN <<>> ELSE <<HeadPoint(s)>> \o Points[After(s)]
  BY ONLY <1>1, PointsUnfolds
<1>4. CASE s = <<>>
  <2>1. 4 * Len(s) \in Nat
    BY <1>1
  <2>2. Points[s] = <<>>
    BY <1>3, <1>4
  <2> QED
    BY <1>2, <1>4, <2>1, <2>2, FittingStep DEF Coded
<1>5. CASE s # <<>>
  <2> DEFINE r == After(s)
             h == HeadPoint(s)
             n == Len(Bytes(h))
             p == Points[s]
             q == Points[r]
  <2>1. /\ r \in Seq(Unit) /\ h \in Point /\ Len(s) > 0
        /\ Taken(s) \in {1, 2} /\ Len(r) = Len(s) - Taken(s)
    BY <1>5, Character
  <2>2. h \in Nat
    BY <2>1 DEF Point
  <2>3. n \in 1..4
    BY <2>2, BytesLen
  <2>4. q \in Seq(Point) /\ Len(q) <= Len(r)
    BY <2>1, PointsFacts
  <2>5. q \in Seq(Nat) /\ Len(q) \in Nat /\ Len(r) \in Nat
    <3>1. Point \subseteq Nat
      BY DEF Point
    <3> QED
      BY <2>1, <2>4, <3>1, SeqMonotonic, LenProperties
  <2>6. p = <<h>> \o q
    BY <1>3, <1>5
  <2>7. p # <<>> /\ Head(p) = h /\ Tail(p) = q
    <3> HIDE DEF h, q, p
    <3> QED
      BY <2>2, <2>5, <2>6
  <2>8. /\ 4 * Len(s) \in Nat /\ n <= 4 * Len(s) /\ 4 * Len(s) - n \in Nat
        /\ 4 * Len(s) - n >= 4 * Len(q) /\ 4 * Len(r) \in Nat
        /\ 4 * Len(r) >= 4 * Len(q)
    <3> DEFINE a == Len(s)
               b == Len(r)
               c == Len(q)
               k == Taken(s)
    <3>1. /\ a \in Nat /\ a > 0 /\ b \in Nat /\ c \in Nat /\ k \in {1, 2}
          /\ b = a - k /\ c <= b
      BY <1>1, <2>1, <2>4, <2>5
    <3> HIDE DEF a, b, c, k, n
    <3>2. /\ 4 * a \in Nat /\ n <= 4 * a /\ 4 * a - n \in Nat
          /\ 4 * a - n >= 4 * c /\ 4 * b \in Nat /\ 4 * b >= 4 * c
      BY ONLY <2>3, <3>1, SMT
    <3> QED
      BY ONLY <3>2 DEF a, b, c, n
  <2> HIDE DEF h, n, p, q, r
  <2>9. Fitting[<<p, 4 * Len(s)>>] = Bytes(h) \o Fitting[<<q, 4 * Len(s) - n>>]
    BY <1>2, <2>7, <2>8, FittingStep DEF n, p
  <2>10. Fitting[<<q, 4 * Len(s) - n>>] = Fitting[<<q, 4 * Len(r)>>]
    BY ONLY <2>5, <2>8, RoomEnough
  <2> QED
    BY ONLY <1>5, <2>9, <2>10 DEF Coded, p, q, r, h
<1> QED
  BY <1>4, <1>5
\* ccall allocates that room and one byte for the terminator.
LEMMA ArgumentIs ==
    ASSUME NEW s \in Seq(Unit)
    PROVE  Argument(s) = Append(Coded(s), Nul)
<1>1. Room(s) - 1 = 4 * Len(s)
  BY LenProperties DEF Room
<1> QED
  BY <1>1 DEF Argument, stringToUTF8, Coded

\* They are bytes, at least one a unit, and none is the terminator unless a
\* unit is.
LEMMA CodedFacts ==
    \A s \in Seq(Unit) :
        /\ Coded(s) \in Seq(Byte)
        /\ Len(Coded(s)) >= Len(s)
        /\ NoNul(s) => \A i \in 1..Len(Coded(s)) : Coded(s)[i] # Nul
<1> DEFINE Clean(b) == \A i \in 1..Len(b) : b[i] # Nul
           T == {s \in Seq(Unit) : /\ Coded(s) \in Seq(Byte)
                                   /\ Len(Coded(s)) >= Len(s)
                                   /\ NoNul(s) => Clean(Coded(s))}
<1>1. <<>> \in T
  <2>1. <<>> \in Seq(Unit) /\ <<>> \in Seq(Byte) /\ Len(<<>>) >= Len(<<>>)
    BY EmptySeq
  <2>2. Coded(<<>>) = <<>>
    BY <2>1, CodedStep
  <2>3. Clean(<<>>)
    BY EmptySeq
  <2> HIDE DEF Clean
  <2>4. /\ Coded(<<>>) \in Seq(Byte) /\ Len(Coded(<<>>)) >= Len(<<>>)
        /\ Clean(Coded(<<>>))
    BY ONLY <2>1, <2>2, <2>3, Zenon
  <2> QED
    BY ONLY <2>1, <2>4, Zenon
<1>2. ASSUME NEW s \in Seq(Unit), s # <<>>, After(s) \in T
      PROVE  s \in T
  <2> DEFINE r == After(s)
             h == HeadPoint(s)
             a == Bytes(h)
             c == Coded(r)
  <2>1. Coded(s) = a \o c
    BY <1>2, CodedStep
  <2>2. /\ s[1] \in Unit /\ h \in Point /\ r \in Seq(Unit)
        /\ Taken(s) \in {1, 2} /\ Len(r) = Len(s) - Taken(s)
        /\ (Taken(s) = 2 => h >= 65536)
        /\ \A i \in 1..Len(r) : r[i] = s[i + Taken(s)]
        /\ Len(s) \in Nat /\ Len(s) > 0
    BY <1>2, Character
  <2>3. c \in Seq(Byte) /\ Len(c) >= Len(r) /\ (NoNul(r) => Clean(c))
    BY <1>2
  <2>4. /\ a \in Seq(Byte) /\ Len(a) \in {1, 2, 3, 4}
        /\ (h >= 65536 => Len(a) = 4)
        /\ (h # 0 => Clean(a))
    BY <2>2, BytesFacts
  <2>5. /\ Coded(s) \in Seq(Byte) /\ Len(Coded(s)) = Len(a) + Len(c)
        /\ \A i \in 1..(Len(a) + Len(c)) :
              Coded(s)[i] = IF i <= Len(a) THEN a[i] ELSE c[i - Len(a)]
    BY ONLY <2>1, <2>3, <2>4, ConcatProperties
  <2>6. Len(c) \in Nat /\ Len(r) \in Nat
    BY <2>2, <2>3, LenProperties
  <2>7. Len(Coded(s)) >= Len(s)
    <3> DEFINE k == Taken(s)
               n == Len(s)
               i == Len(a)
               j == Len(c)
               l == Len(r)
    <3>1. /\ k \in {1, 2} /\ l = n - k /\ j >= l /\ n \in Nat /\ j \in Nat
          /\ i \in {1, 2, 3, 4} /\ (k = 2 => i = 4)
      BY <2>2, <2>3, <2>4, <2>6
    <3> HIDE DEF k, n, i, j, l
    <3>2. i + j >= n
      BY ONLY <3>1, SMT
    <3> QED
      BY ONLY <2>5, <3>2 DEF n, i, j
  <2>8. ASSUME NoNul(s) PROVE Clean(Coded(s))
    <3>1. s[1] # 0
      BY ONLY <2>2, <2>8, SMT DEF NoNul, Nul
    <3>2. h # 0
      <4>1. CASE IsSurrogate(s[1])
        <5>1. \A u, v \in Unit : Paired(u, v) # 0
          <6> SUFFICES ASSUME NEW u \in Unit, NEW v \in Unit PROVE Paired(u, v) # 0
            OBVIOUS
          <6>1. Paired(u, v) >= 65536 /\ Paired(u, v) \in Point
            BY PairComesBack
          <6> QED
            BY <6>1 DEF Point
        <5>2. 0 \in Unit /\ (Len(s) # 1 => s[2] \in Unit)
          <6>1. \A n \in Nat : n > 0 => (n # 1 => 2 \in 1..n)
            BY SMT
          <6>2. Len(s) \in Nat /\ Len(s) > 0
            BY <2>2
          <6>3. Len(s) # 1 => 2 \in 1..Len(s)
            BY ONLY <6>1, <6>2, Zenon
          <6> QED
            BY <6>3, UnitRange, ElementOfSeq
        <5>3. h = Paired(s[1], IF Len(s) = 1 THEN 0 ELSE s[2])
          BY <4>1 DEF HeadPoint
        <5> HIDE DEF h
        <5> QED
          BY ONLY <2>2, <5>1, <5>2, <5>3
      <4>2. CASE ~IsSurrogate(s[1])
        BY <3>1, <4>2 DEF HeadPoint
      <4> QED
        BY <4>1, <4>2
    <3>3. NoNul(r)
      <4> SUFFICES ASSUME NEW i \in 1..Len(r) PROVE r[i] # Nul
        BY DEF NoNul
      <4> DEFINE k == Taken(s)
                 n == Len(s)
                 l == Len(r)
      <4>1. k \in {1, 2} /\ l = n - k /\ n \in Nat /\ l \in Nat /\ i \in 1..l
        BY <2>2, <2>6
      <4>2. r[i] = s[i + k]
        BY <2>2
      <4> HIDE DEF k, n, l, r
      <4>3. i + k \in 1..n
        BY ONLY <4>1, SMT
      <4> QED
        BY ONLY <2>8, <4>2, <4>3 DEF NoNul, n
    <3>4. Clean(a) /\ Clean(c)
      BY ONLY <2>3, <2>4, <3>2, <3>3
    <3> HIDE DEF a, c
    <3> SUFFICES ASSUME NEW i \in 1..Len(Coded(s)) PROVE Coded(s)[i] # Nul
      OBVIOUS
    <3> DEFINE x == Len(a)
               y == Len(c)
    <3>5. x \in Nat /\ y \in Nat /\ i \in 1..(x + y)
      BY ONLY <2>4, <2>5, <2>6, i \in 1..Len(Coded(s))
    <3>6. Coded(s)[i] = IF i <= x THEN a[i] ELSE c[i - x]
      BY ONLY <2>5, <3>5
    <3>7. \A j \in 1..x : a[j] # Nul
      BY ONLY <3>4
    <3>8. \A j \in 1..y : c[j] # Nul
      BY ONLY <3>4
    <3> HIDE DEF x, y
    <3>9. (i <= x => i \in 1..x) /\ (~(i <= x) => i - x \in 1..y)
      BY ONLY <3>5, SMT
    <3> QED
      BY ONLY <3>6, <3>7, <3>8, <3>9
  <2> HIDE DEF Clean
  <2> QED
    BY <2>5, <2>7, <2>8
<1>3. \A s \in Seq(Unit) : s # <<>> /\ After(s) \in T => s \in T
  BY <1>2
<1> HIDE DEF T
<1>4. Seq(Unit) \subseteq T
  BY ONLY <1>1, <1>3, ByCharacter
<1> QED
  BY <1>4 DEF T

\* What comes after the first character of a well-formed string is one too,
\* and the units of its code point are those it was made of.
LEMMA WellFormedStep ==
    ASSUME NEW s \in Seq(Unit), s # <<>>, WellFormed(s)
    PROVE  /\ WellFormed(After(s))
           /\ s = UnitsOf(HeadPoint(s)) \o After(s)
           /\ Len(UnitsOf(HeadPoint(s))) = Taken(s)
           /\ HeadPoint(s) <= 2097151 /\ HeadPoint(s) \in Nat
           /\ ~IsSurrogate(s[1]) => HeadPoint(s) = s[1]
<1> DEFINE r == After(s)
           h == HeadPoint(s)
           k == Taken(s)
           n == Len(s)
           l == Len(r)
<1>1. /\ s[1] \in Unit /\ h \in Point /\ r \in Seq(Unit)
      /\ k \in {1, 2} /\ k <= n /\ l = n - k
      /\ \A i \in 1..l : r[i] = s[i + k]
      /\ n \in Nat /\ n > 0
  BY Character
<1>2. \A i \in 1..n : /\ IsLead(s[i]) => i < n /\ IsTrail(s[i + 1])
                      /\ IsTrail(s[i]) => i > 1 /\ IsLead(s[i - 1])
  BY DEF WellFormed
<1>3. l \in Nat
  BY <1>1
<1>4. k = 1 => ~IsSurrogate(s[1])
  <2>1. 1 \in 1..n
    BY ONLY <1>1, SMT
  <2>2. IsSurrogate(s[1]) => 1 < n
    BY ONLY <1>2, <2>1, SMT DEF IsSurrogate
  <2>3. 1 # 2 /\ \A m \in Nat : 1 < m => m # 1
    BY SMT
  <2>4. n \in Nat
    BY <1>1
  <2>5. IsSurrogate(s[1]) => n # 1
    BY ONLY <2>2, <2>3, <2>4, Zenon
  <2> QED
    BY ONLY <2>3, <2>5, Zenon DEF Taken
<1>5. k = 2 => IsLead(s[1]) /\ IsTrail(s[2]) /\ IsSurrogate(s[1])
  <2>1. 1 \in 1..n
    BY ONLY <1>1, SMT
  <2>2. k = 2 => IsSurrogate(s[1])
    BY DEF Taken
  <2>3. ~IsTrail(s[1])
    BY ONLY <1>2, <2>1, SMT
  <2>4. IsLead(s[1]) => IsTrail(s[2])
    BY ONLY <1>2, <2>1, SMT
  <2> QED
    BY ONLY <2>2, <2>3, <2>4, Zenon DEF IsSurrogate
<1>6. s[2] \in Unit \/ k = 1
  <2>1. k # 1 => 2 \in 1..n
    BY ONLY <1>1, SMT
  <2> QED
    BY <2>1, ElementOfSeq
<1>7. WellFormed(r)
  <2> SUFFICES ASSUME NEW i \in 1..l
               PROVE  /\ IsLead(r[i]) => i < l /\ IsTrail(r[i + 1])
                      /\ IsTrail(r[i]) => i > 1 /\ IsLead(r[i - 1])
    BY DEF WellFormed
  <2> HIDE DEF k, n, l, r
  <2>1. i + k \in 1..n /\ i \in Nat /\ r[i] = s[i + k]
    BY ONLY <1>1, <1>3, i \in 1..l, SMT
  <2>2. ASSUME IsLead(r[i]) PROVE i < l /\ IsTrail(r[i + 1])
    <3>1. i + k < n /\ IsTrail(s[i + k + 1])
      BY <1>2, <2>1, <2>2
    <3>2. i < l /\ i + 1 \in 1..l /\ (i + 1) + k = i + k + 1
      BY ONLY <1>1, <1>3, <2>1, <3>1, SMT
    <3> QED
      BY <1>1, <3>1, <3>2
  <2>3. ASSUME IsTrail(r[i]) PROVE i > 1 /\ IsLead(r[i - 1])
    <3>1. IsLead(s[(i + k) - 1])
      <4> DEFINE j == i + k
      <4>1. j \in 1..n /\ r[i] = s[j]
        BY <2>1
      <4> HIDE DEF j
      <4>2. IsLead(s[j - 1])
        BY ONLY <1>2, <2>3, <4>1, Zenon
      <4> QED
        BY ONLY <4>2 DEF j
    <3>2. i # 1
      <4> SUFFICES ASSUME i = 1 PROVE FALSE
        OBVIOUS
      <4>1. (i + k) - 1 = k
        BY ONLY <1>1, i = 1, SMT
      <4>2. IsLead(s[k])
        BY <3>1, <4>1
      <4>3. CASE k = 1
        BY <1>4, <4>2, <4>3 DEF IsSurrogate
      <4>4. CASE k = 2
        <5>1. IsTrail(s[2]) /\ IsLead(s[2])
          BY <1>5, <4>2, <4>4
        <5>2. s[2] \in Nat
          BY <1>6, <4>4, UnitRange
        <5> QED
          BY ONLY <5>1, <5>2, SMT DEF IsTrail, IsLead
      <4> QED
        BY <1>1, <4>3, <4>4
    <3>3. i > 1 /\ i - 1 \in 1..l /\ (i - 1) + k = (i + k) - 1
      BY ONLY <1>1, <1>3, <3>2, i \in 1..l, SMT
    <3>4. r[i - 1] = s[(i + k) - 1]
      BY ONLY <1>1, <3>3
    <3> QED
      BY ONLY <3>1, <3>3, <3>4
  <2> QED
    BY <2>2, <2>3
<1>8. h \in Nat /\ h <= 2097151
  BY <1>1 DEF Point
<1>9. /\ UnitsOf(h) = IF k = 1 THEN <<s[1]>> ELSE <<s[1], s[2]>>
      /\ ~IsSurrogate(s[1]) => h = s[1]
  <2>1. CASE k = 1
    <3>1. h = s[1]
      BY <1>4, <2>1 DEF HeadPoint
    <3>2. s[1] \in Nat /\ s[1] <= 65535
      BY <1>1, UnitRange
    <3> HIDE DEF h, k
    <3>3. UnitsOf(h) = <<s[1]>>
      BY <1>8, <3>1, <3>2, UnitsOfFacts
    <3> QED
      BY ONLY <2>1, <3>1, <3>3
  <2>2. CASE k = 2
    <3>1. h = Paired(s[1], s[2])
      <4>1. n # 1
        BY ONLY <1>1, <2>2, SMT
      <4> QED
        BY <1>5, <2>2, <4>1 DEF HeadPoint
    <3>2. UnitsOf(Paired(s[1], s[2])) = <<s[1], s[2]>>
      BY <1>1, <1>5, <1>6, <2>2, PairComesBack
    <3> HIDE DEF h, k
    <3> QED
      BY <1>5, <2>2, <3>1, <3>2
  <2> QED
    BY ONLY <1>1, <2>1, <2>2
<1>10. Len(UnitsOf(h)) = k /\ s = UnitsOf(h) \o r
  <2> DEFINE x == UnitsOf(h)
  <2>1. /\ x \in Seq(Unit) /\ Len(x) = k
        /\ \A i \in 1..k : x[i] = s[i]
    <3>1. CASE k = 1
      <4>1. x = <<s[1]>>
        BY <1>9, <3>1
      <4> HIDE DEF x, k
      <4> QED
        BY <1>1, <3>1, <4>1
    <3>2. CASE k = 2
      <4>1. x = <<s[1], s[2]>> /\ s[2] \in Unit
        BY <1>6, <1>9, <3>2
      <4> HIDE DEF x, k
      <4>2. x \in Seq(Unit) /\ Len(x) = 2 /\ x[1] = s[1] /\ x[2] = s[2]
        BY ONLY <1>1, <4>1, Two
      <4>3. \A i \in 1..2 : i = 1 \/ i = 2
        BY SMT
      <4> QED
        BY ONLY <3>2, <4>2, <4>3
    <3> QED
      BY <1>1, <3>1, <3>2
  <2> HIDE DEF x, k, l, n, r
  <2>2. /\ x \o r \in Seq(Unit) /\ Len(x \o r) = k + l
        /\ \A i \in 1..(k + l) : (x \o r)[i] = IF i <= k THEN x[i] ELSE r[i - k]
    BY <1>1, <2>1, ConcatProperties DEF l
  <2>3. k + l = n
    BY ONLY <1>1, SMT
  <2>4. \A i \in 1..n : s[i] = (x \o r)[i]
    <3> SUFFICES ASSUME NEW i \in 1..n PROVE s[i] = (x \o r)[i]
      OBVIOUS
    <3>1. CASE i <= k
      <4>1. i \in 1..k
        BY ONLY <1>1, <3>1, i \in 1..n, SMT
      <4> QED
        BY ONLY <2>1, <2>2, <2>3, <3>1, <4>1, i \in 1..n
    <3>2. CASE ~(i <= k)
      <4>1. i - k \in 1..l /\ (i - k) + k = i
        BY ONLY <1>1, <3>2, i \in 1..n, SMT
      <4>2. r[i - k] = s[i]
        BY ONLY <1>1, <4>1
      <4> QED
        BY ONLY <2>2, <2>3, <3>2, <4>2, i \in 1..n
    <3> QED
      BY <3>1, <3>2
  <2>5. s = x \o r
    BY ONLY <2>2, <2>3, <2>4, s \in Seq(Unit), SeqEqual DEF n
  <2> QED
    BY <2>1, <2>5 DEF x, k, r
<1> QED
  BY ONLY <1>7, <1>8, <1>9, <1>10
-----------------------------------------------------------------------------
(* What the two decoders make of it.                                       *)

\* ByHand and Strict, one character at a time.
LEMMA DecoderStep ==
    ASSUME NEW b \in Seq(Byte)
    PROVE  /\ b = <<>> => ByHand[b] = <<>> /\ Strict[b] = <<>>
           /\ b # <<>> => ByHand[b] = UnitsOf(FirstPoint(b)) \o ByHand[Rest(b)]
           /\ b # <<>> /\ Width(b[1]) > Len(b) => Strict[b] = <<Replacement>>
           /\ b # <<>> /\ ~(Width(b[1]) > Len(b)) =>
                 Strict[b] = UnitsOf(FirstPoint(b)) \o Strict[Rest(b)]
<1>1. b \in Seq(Nat)
  BY Numbers
<1>2. ByHand[b] = IF b = <<>> THEN <<>>
                  ELSE UnitsOf(FirstPoint(b)) \o ByHand[Rest(b)]
  BY ONLY <1>1, ByHandUnfolds
<1>3. Strict[b] = IF b = <<>> THEN <<>>
                  ELSE IF Width(b[1]) > Len(b) THEN <<Replacement>>
                  ELSE UnitsOf(FirstPoint(b)) \o Strict[Rest(b)]
  BY ONLY <1>1, StrictUnfolds
<1> QED
  BY ONLY <1>2, <1>3

\* The bytes after a character.
LEMMA RestFacts ==
    ASSUME NEW b \in Seq(Byte), b # <<>>
    PROVE  /\ b[1] \in Byte /\ b \in Seq(Nat)
           /\ Rest(b) \in Seq(Byte)
           /\ Len(b) \in Nat /\ Len(b) > 0
           /\ Width(b[1]) >= Len(b) => Rest(b) = <<>>
<1>1. Len(b) \in Nat /\ Len(b) > 0
  BY EmptySeq
<1>2. b[1] \in Byte
  BY <1>1, ElementOfSeq
<1> DEFINE w == Width(b[1])
<1>3. w \in 1..4
  BY WidthRange
<1>4. Rest(b) = SubSeq(b, w + 1, Len(b))
  BY DEF Rest
<1> HIDE DEF w
<1>5. Rest(b) \in Seq(Byte)
  <2>1. w \in Nat /\ w > 0
    BY <1>3
  <2> QED
    BY ONLY <1>4, <2>1, b \in Seq(Byte), b # <<>>, EndOf
<1>6. ASSUME w >= Len(b) PROVE Rest(b) = <<>>
  <2>1. w + 1 \in Int /\ Len(b) \in Int /\ Len(b) < w + 1
    BY <1>1, <1>3, <1>6
  <2> QED
    BY ONLY <1>4, <2>1, SubSeqEmpty
<1> QED
  BY <1>1, <1>2, <1>5, <1>6, Numbers DEF w

\* The first character of the bytes of a code point and more bytes is that
\* code point, and the rest is those bytes.
LEMMA FirstOfBytes ==
    ASSUME NEW u \in Point, NEW t \in Seq(Byte), NEW b, b = Bytes(u) \o t
    PROVE  /\ b \in Seq(Byte) /\ b # <<>>
           /\ ~(Width(b[1]) > Len(b))
           /\ FirstPoint(b) = u
           /\ Rest(b) = t
<1> DEFINE a == Bytes(u)
           n == Len(a)
           m == Len(t)
<1>1. a \in Seq(Byte) /\ n \in {1, 2, 3, 4} /\ Width(a[1]) = n
  BY BytesFacts
<1>2. m \in Nat
  BY LenProperties
<1> HIDE DEF a
<1>3. /\ b \in Seq(Byte) /\ Len(b) = n + m
      /\ \A i \in 1..(n + m) : b[i] = IF i <= n THEN a[i] ELSE t[i - n]
  BY ONLY <1>1, t \in Seq(Byte), b = Bytes(u) \o t, ConcatProperties DEF a
<1> HIDE DEF n, m
<1>4. \A i \in 1..n : i \in 1..(n + m) /\ i <= n
  BY ONLY <1>1, <1>2, SMT
<1>5. \A i \in 1..n : b[i] = a[i]
  BY ONLY <1>3, <1>4
<1>6. Width(b[1]) = n
  <2>1. 1 \in 1..n
    BY <1>1
  <2> QED
    BY <1>1, <1>5, <2>1
<1>7. n <= Len(b) /\ Len(b) > 0
  BY ONLY <1>1, <1>2, <1>3, SMT
<1>8. b \in Seq(Nat) /\ b # <<>>
  BY <1>3, <1>7, Numbers, EmptySeq
<1>9. FirstPoint(b) = u
  BY ONLY <1>5, <1>7, <1>8, u \in Point, Decodes DEF a, n
<1>10. Rest(b) = t
  <2>1. n \in Nat /\ n > 0
    BY <1>1
  <2> DEFINE r == SubSeq(b, n + 1, Len(b))
  <2>2. /\ r \in Seq(Byte) /\ Len(r) = (IF n <= Len(b) THEN Len(b) - n ELSE 0)
        /\ \A i \in 1..(Len(b) - n) : r[i] = b[i + n]
    BY ONLY <1>3, <1>8, <2>1, EndOf
  <2>3. Rest(b) = r
    BY <1>6 DEF Rest
  <2> HIDE DEF r
  <2>4. Len(r) = m /\ Len(b) - n = m
    BY ONLY <1>2, <1>3, <1>7, <2>1, <2>2, SMT
  <2>5. \A i \in 1..m : r[i] = t[i]
    <3> SUFFICES ASSUME NEW i \in 1..m PROVE r[i] = t[i]
      OBVIOUS
    <3>1. i + n \in 1..(n + m) /\ ~(i + n <= n) /\ (i + n) - n = i
      BY ONLY <1>2, <2>1, i \in 1..m, SMT
    <3>2. b[i + n] = t[i]
      BY ONLY <1>3, <3>1
    <3> QED
      BY ONLY <2>2, <2>4, <3>2, i \in 1..m
  <2>6. r = t
    BY ONLY <2>2, <2>4, <2>5, t \in Seq(Byte), SeqEqual DEF m
  <2> QED
    BY <2>3, <2>6
<1>11. ~(Width(b[1]) > Len(b))
  BY ONLY <1>1, <1>2, <1>3, <1>6, SMT
<1> QED
  BY ONLY <1>3, <1>8, <1>9, <1>10, <1>11

\* Both decoders go on after it.
LEMMA DecodesFirst ==
    ASSUME NEW u \in Point, NEW t \in Seq(Byte)
    PROVE  /\ ByHand[Bytes(u) \o t] = UnitsOf(u) \o ByHand[t]
           /\ Strict[Bytes(u) \o t] = UnitsOf(u) \o Strict[t]
<1> DEFINE b == Bytes(u) \o t
<1>1. b = Bytes(u) \o t
  OBVIOUS
<1> HIDE DEF b
<1>2. /\ b \in Seq(Byte) /\ b # <<>> /\ ~(Width(b[1]) > Len(b))
      /\ FirstPoint(b) = u /\ Rest(b) = t
  BY <1>1, FirstOfBytes
<1>3. ByHand[b] = UnitsOf(u) \o ByHand[t] /\ Strict[b] = UnitsOf(u) \o Strict[t]
  BY ONLY <1>2, DecoderStep
<1> QED
  BY ONLY <1>1, <1>3

\* What comes out of a decoder is units.
LEMMA DecoderUnits ==
    \A b \in Seq(Byte) : ByHand[b] \in Seq(Unit) /\ Strict[b] \in Seq(Unit)
<1> DEFINE T == {b \in Seq(Byte) : ByHand[b] \in Seq(Unit) /\ Strict[b] \in Seq(Unit)}
<1>1. <<>> \in T
  <2>1. <<>> \in Seq(Byte) /\ <<>> \in Seq(Unit)
    BY EmptySeq
  <2>2. ByHand[<<>>] = <<>> /\ Strict[<<>>] = <<>>
    BY <2>1, DecoderStep
  <2>3. ByHand[<<>>] \in Seq(Unit) /\ Strict[<<>>] \in Seq(Unit)
    BY ONLY <2>1, <2>2, Zenon
  <2> QED
    BY ONLY <2>1, <2>3, Zenon
<1>2. ASSUME NEW b \in Seq(Byte), b # <<>>, Rest(b) \in T
      PROVE  b \in T
  <2>1. ByHand[Rest(b)] \in Seq(Unit) /\ Strict[Rest(b)] \in Seq(Unit)
    BY <1>2
  <2>2. b[1] \in Byte /\ b \in Seq(Nat)
    BY <1>2, RestFacts
  <2>3. FirstPoint(b) \in Nat /\ FirstPoint(b) <= 2097151
    BY <1>2, <2>2, FirstPointRange
  <2>4. UnitsOf(FirstPoint(b)) \in Seq(Unit)
    BY <2>3, UnitsOfFacts
  <2>5. ByHand[b] \in Seq(Unit)
    <3>1. ByHand[b] = UnitsOf(FirstPoint(b)) \o ByHand[Rest(b)]
      BY <1>2, DecoderStep
    <3> QED
      BY ONLY <2>1, <2>4, <3>1, ConcatProperties
  <2>6. Strict[b] \in Seq(Unit)
    <3>1. CASE Width(b[1]) > Len(b)
      <4>1. Strict[b] = <<Replacement>>
        BY <1>2, <3>1, DecoderStep
      <4>2. Replacement \in Unit
        BY UnitRange DEF Replacement
      <4> QED
        BY <4>1, <4>2
    <3>2. CASE ~(Width(b[1]) > Len(b))
      <4>1. Strict[b] = UnitsOf(FirstPoint(b)) \o Strict[Rest(b)]
        BY <1>2, <3>2, DecoderStep
      <4> QED
        BY ONLY <2>1, <2>4, <4>1, ConcatProperties
    <3> QED
      BY <3>1, <3>2
  <2> QED
    BY <2>5, <2>6
<1>3. \A b \in Seq(Byte) : b # <<>> /\ Rest(b) \in T => b \in T
  BY <1>2
<1> HIDE DEF T
<1>4. Seq(Byte) \subseteq T
  BY ONLY <1>1, <1>3, ByBytes
<1> QED
  BY <1>4 DEF T

\* Strings are put together in any order.
LEMMA Associative ==
    \A x, y, z \in Seq(Unit) : (x \o y) \o z = x \o (y \o z)
<1> SUFFICES ASSUME NEW x \in Seq(Unit), NEW y \in Seq(Unit), NEW z \in Seq(Unit)
             PROVE  (x \o y) \o z = x \o (y \o z)
  OBVIOUS
<1> QED
  BY ONLY x \in Seq(Unit), y \in Seq(Unit), z \in Seq(Unit), ConcatAssociative, SMT

\* The bytes of a well-formed string decode to it, whatever follows them.
LEMMA DecodesCoded ==
    ASSUME NEW t \in Seq(Byte)
    PROVE  \A s \in Seq(Unit) : WellFormed(s) =>
              /\ ByHand[Coded(s) \o t] = s \o ByHand[t]
              /\ Strict[Coded(s) \o t] = s \o Strict[t]
<1> DEFINE T == {s \in Seq(Unit) : WellFormed(s) =>
                    /\ ByHand[Coded(s) \o t] = s \o ByHand[t]
                    /\ Strict[Coded(s) \o t] = s \o Strict[t]}
<1>0. ByHand[t] \in Seq(Unit) /\ Strict[t] \in Seq(Unit)
  BY DecoderUnits
<1>1. <<>> \in T
  <2>1. <<>> \in Seq(Unit) /\ <<>> \in Seq(Byte)
    BY EmptySeq
  <2>2. Coded(<<>>) = <<>>
    BY <2>1, CodedStep
  <2>3. <<>> \o t = t /\ <<>> \o ByHand[t] = ByHand[t] /\ <<>> \o Strict[t] = Strict[t]
    BY <1>0, ConcatEmptySeq
  <2>4. /\ ByHand[Coded(<<>>) \o t] = <<>> \o ByHand[t]
        /\ Strict[Coded(<<>>) \o t] = <<>> \o Strict[t]
    BY ONLY <2>2, <2>3, Zenon
  <2> QED
    BY ONLY <2>1, <2>4, Zenon
<1>2. ASSUME NEW s \in Seq(Unit), s # <<>>, After(s) \in T
      PROVE  s \in T
  <2> SUFFICES ASSUME WellFormed(s)
               PROVE  /\ ByHand[Coded(s) \o t] = s \o ByHand[t]
                      /\ Strict[Coded(s) \o t] = s \o Strict[t]
    OBVIOUS
  <2> DEFINE r == After(s)
             h == HeadPoint(s)
             x == UnitsOf(h)
             y == Coded(r) \o t
  <2>1. r \in Seq(Unit) /\ h \in Point
    BY <1>2, Character
  <2>2. WellFormed(r) /\ s = x \o r /\ h \in Nat /\ h <= 2097151
    BY <1>2, WellFormedStep
  <2>3. ByHand[y] = r \o ByHand[t] /\ Strict[y] = r \o Strict[t]
    BY <1>2, <2>2
  <2>4. Coded(s) = Bytes(h) \o Coded(r)
    BY <1>2, CodedStep
  <2>5. Bytes(h) \in Seq(Byte) /\ Coded(r) \in Seq(Byte) /\ y \in Seq(Byte)
    BY <2>1, BytesFacts, CodedFacts, ConcatProperties
  <2>6. x \in Seq(Unit)
    BY <2>2, UnitsOfFacts
  <2> HIDE DEF r, h, x, T
  <2>7. Coded(s) \o t = Bytes(h) \o y
    BY ONLY <2>4, <2>5, t \in Seq(Byte), ConcatAssociative
  <2> HIDE DEF y
  <2>8. ByHand[Bytes(h) \o y] = x \o ByHand[y] /\ Strict[Bytes(h) \o y] = x \o Strict[y]
    BY ONLY <2>1, <2>5, DecodesFirst DEF x
  <2>9. /\ x \o (r \o ByHand[t]) = (x \o r) \o ByHand[t]
        /\ x \o (r \o Strict[t]) = (x \o r) \o Strict[t]
    <3>1. \A v \in Seq(Unit) : x \o (r \o v) = (x \o r) \o v
      <4> SUFFICES ASSUME NEW v \in Seq(Unit)
                   PROVE  (x \o r) \o v = x \o (r \o v)
        OBVIOUS
      <4>1. x \in Seq(Unit) /\ r \in Seq(Unit)
        BY <2>1, <2>6
      <4> QED
        BY ONLY <4>1, v \in Seq(Unit), Associative, Zenon
    <3> QED
      BY ONLY <1>0, <3>1
  <2>10. /\ ByHand[Coded(s) \o t] = (x \o r) \o ByHand[t]
         /\ Strict[Coded(s) \o t] = (x \o r) \o Strict[t]
    BY ONLY <2>3, <2>7, <2>8, <2>9
  <2> QED
    BY ONLY <2>2, <2>10
<1>3. \A s \in Seq(Unit) : s # <<>> /\ After(s) \in T => s \in T
  BY <1>2
<1> HIDE DEF T
<1>4. Seq(Unit) \subseteq T
  BY ONLY <1>1, <1>3, ByCharacter
<1> QED
  BY <1>4 DEF T
-----------------------------------------------------------------------------
(* A text that is cut.                                                     *)

\* A well-formed start of a string is written as it would be alone.
LEMMA HeadOfConcat ==
    ASSUME NEW p \in Seq(Unit), NEW q \in Seq(Unit), p # <<>>, WellFormed(p)
    PROVE  /\ p \o q \in Seq(Unit) /\ p \o q # <<>>
           /\ HeadPoint(p \o q) = HeadPoint(p)
           /\ After(p \o q) = After(p) \o q
<1> DEFINE s == p \o q
           n == Len(p)
           m == Len(q)
           k == Taken(p)
           r == After(p)
           l == Len(r)
<1>1. /\ r \in Seq(Unit) /\ k \in {1, 2} /\ k <= n /\ l = n - k
      /\ \A i \in 1..l : r[i] = p[i + k]
      /\ n \in Nat /\ n > 0
  BY Character
<1>2. /\ s \in Seq(Unit) /\ Len(s) = n + m
      /\ \A i \in 1..(n + m) : s[i] = IF i <= n THEN p[i] ELSE q[i - n]
  BY ConcatProperties
<1>3. m \in Nat /\ l \in Nat
  BY <1>1, LenProperties
<1> HIDE DEF s, n, m, r, l
<1>4. s # <<>>
  <2>1. Len(s) > 0
    BY ONLY <1>1, <1>2, <1>3, SMT
  <2> QED
    BY <2>1, EmptySeq
<1>5. s[1] = p[1]
  <2>1. 1 \in 1..(n + m) /\ 1 <= n
    BY ONLY <1>1, <1>3, SMT
  <2> QED
    BY ONLY <1>2, <2>1
<1>6. IsSurrogate(p[1]) => k = 2
  <2>1. 1 \in 1..n
    BY ONLY <1>1, SMT
  <2>2. IsSurrogate(p[1]) => 1 < n
    BY ONLY WellFormed(p), <2>1, SMT DEF WellFormed, IsSurrogate, n
  <2>3. \A x \in Nat : 1 < x => x # 1
    BY SMT
  <2>4. IsSurrogate(p[1]) => n # 1
    BY ONLY <1>1, <2>2, <2>3, Zenon
  <2> QED
    BY ONLY <2>4, Zenon DEF Taken, n
<1>7. k = 2 => n # 1 /\ IsSurrogate(p[1]) /\ s[2] = p[2] /\ Len(s) # 1
  <2> SUFFICES ASSUME k = 2
               PROVE  n # 1 /\ IsSurrogate(p[1]) /\ s[2] = p[2] /\ Len(s) # 1
    OBVIOUS
  <2>1. 2 <= n /\ n # 1 /\ 2 \in 1..(n + m) /\ n + m # 1
    BY ONLY <1>1, <1>3, k = 2, SMT
  <2>2. s[2] = p[2]
    BY ONLY <1>2, <2>1
  <2>3. 1 # 2
    OBVIOUS
  <2>4. IsSurrogate(p[1])
    BY ONLY k = 2, <2>3, Zenon DEF Taken
  <2> QED
    BY ONLY <1>2, <2>1, <2>2, <2>4
<1>8. k = 1 => ~IsSurrogate(p[1])
  <2>1. 1 # 2
    OBVIOUS
  <2> QED
    BY ONLY <1>6, <2>1
<1>9. Taken(s) = k /\ HeadPoint(s) = HeadPoint(p)
  <2>1. CASE k = 1
    BY <1>5, <1>8, <2>1 DEF Taken, HeadPoint
  <2>2. CASE k = 2
    BY <1>5, <1>7, <2>2 DEF Taken, HeadPoint, n
  <2> QED
    BY ONLY <1>1, <2>1, <2>2
<1> HIDE DEF k
<1>10. After(s) = r \o q
  <2> DEFINE t == After(s)
             v == r \o q
  <2>1. /\ t \in Seq(Unit) /\ Len(t) = Len(s) - k
        /\ \A i \in 1..Len(t) : t[i] = s[i + k]
    BY <1>2, <1>4, <1>9, Character
  <2>2. /\ v \in Seq(Unit) /\ Len(v) = l + m
        /\ \A i \in 1..(l + m) : v[i] = IF i <= l THEN r[i] ELSE q[i - l]
    BY <1>1, ConcatProperties DEF l, m
  <2> HIDE DEF t, v
  <2>3. Len(t) = l + m
    BY ONLY <1>1, <1>2, <1>3, <2>1, SMT
  <2>4. \A i \in 1..(l + m) : t[i] = v[i]
    <3> SUFFICES ASSUME NEW i \in 1..(l + m) PROVE t[i] = v[i]
      OBVIOUS
    <3>1. t[i] = s[i + k]
      BY ONLY <2>1, <2>3, i \in 1..(l + m)
    <3>2. i + k \in 1..(n + m)
      BY ONLY <1>1, <1>3, i \in 1..(l + m), SMT
    <3>3. s[i + k] = IF i + k <= n THEN p[i + k] ELSE q[(i + k) - n]
      BY ONLY <1>2, <3>2
    <3>4. CASE i <= l
      <4>1. i \in 1..l /\ i + k <= n
        BY ONLY <1>1, <1>3, <3>4, i \in 1..(l + m), SMT
      <4>2. r[i] = p[i + k]
        BY ONLY <1>1, <4>1
      <4>3. v[i] = r[i]
        BY ONLY <2>2, <3>4, i \in 1..(l + m)
      <4> QED
        BY ONLY <3>1, <3>3, <4>1, <4>2, <4>3
    <3>5. CASE ~(i <= l)
      <4>1. ~(i + k <= n) /\ (i + k) - n = i - l
        BY ONLY <1>1, <1>3, <3>5, i \in 1..(l + m), SMT
      <4>2. v[i] = q[i - l]
        BY ONLY <2>2, <3>5, i \in 1..(l + m)
      <4> QED
        BY ONLY <3>1, <3>3, <4>1, <4>2
    <3> QED
      BY <3>4, <3>5
  <2>5. t = v
    BY ONLY <2>1, <2>2, <2>3, <2>4, SeqEqual
  <2> QED
    BY ONLY <2>5 DEF t, v
<1> QED
  BY ONLY <1>2, <1>4, <1>9, <1>10 DEF s, r

\* So the bytes of a string begin with the bytes of each well-formed start.
LEMMA CodedConcat ==
    ASSUME NEW q \in Seq(Unit)
    PROVE  \A p \in Seq(Unit) : WellFormed(p) => Coded(p \o q) = Coded(p) \o Coded(q)
<1> DEFINE T == {p \in Seq(Unit) : WellFormed(p) => Coded(p \o q) = Coded(p) \o Coded(q)}
<1>0. Coded(q) \in Seq(Byte)
  BY CodedFacts
<1>1. <<>> \in T
  <2>1. <<>> \in Seq(Unit)
    BY EmptySeq
  <2>2. Coded(<<>>) = <<>>
    BY <2>1, CodedStep
  <2>3. <<>> \o q = q /\ <<>> \o Coded(q) = Coded(q)
    BY <1>0, ConcatEmptySeq
  <2>4. Coded(<<>> \o q) = Coded(<<>>) \o Coded(q)
    BY ONLY <2>2, <2>3, Zenon
  <2> QED
    BY ONLY <2>1, <2>4, Zenon
<1>2. ASSUME NEW p \in Seq(Unit), p # <<>>, After(p) \in T
      PROVE  p \in T
  <2> SUFFICES ASSUME WellFormed(p) PROVE Coded(p \o q) = Coded(p) \o Coded(q)
    OBVIOUS
  <2> DEFINE r == After(p)
             a == Bytes(HeadPoint(p))
  <2>1. /\ p \o q \in Seq(Unit) /\ p \o q # <<>>
        /\ HeadPoint(p \o q) = HeadPoint(p) /\ After(p \o q) = r \o q
    BY <1>2, HeadOfConcat
  <2>2. r \in Seq(Unit) /\ HeadPoint(p) \in Point /\ WellFormed(r)
    BY <1>2, Character, WellFormedStep
  <2>3. Coded(r \o q) = Coded(r) \o Coded(q)
    BY <1>2, <2>2
  <2>4. Coded(p \o q) = a \o Coded(r \o q) /\ Coded(p) = a \o Coded(r)
    BY <1>2, <2>1, CodedStep
  <2>5. a \in Seq(Byte) /\ Coded(r) \in Seq(Byte)
    BY <2>2, BytesFacts, CodedFacts
  <2> HIDE DEF a, r, T
  <2> DEFINE x == Coded(r)
             y == Coded(q)
  <2>6. x \in Seq(Byte) /\ y \in Seq(Byte)
    BY <1>0, <2>5
  <2> HIDE DEF x, y
  <2>7. (a \o x) \o y = a \o (x \o y)
    BY ONLY <2>5, <2>6, ConcatAssociative, SMT
  <2> QED
    BY ONLY <2>3, <2>4, <2>7 DEF x, y
<1>3. \A p \in Seq(Unit) : p # <<>> /\ After(p) \in T => p \in T
  BY <1>2
<1> HIDE DEF T
<1>4. Seq(Unit) \subseteq T
  BY ONLY <1>1, <1>3, ByCharacter
<1> QED
  BY <1>4 DEF T

\* The start of two sequences put together.
LEMMA CutOfConcat ==
    ASSUME NEW S, NEW a \in Seq(S), NEW e \in Seq(S), NEW m \in Nat,
           m <= Len(a \o e)
    PROVE  /\ SubSeq(a \o e, 1, m) \in Seq(S) /\ Len(SubSeq(a \o e, 1, m)) = m
           /\ SubSeq(e, 1, m - Len(a)) \in Seq(S)
           /\ \A i \in 1..m : i <= Len(a) => SubSeq(a \o e, 1, m)[i] = a[i]
           /\ m >= Len(a) =>
                 SubSeq(a \o e, 1, m) = a \o SubSeq(e, 1, m - Len(a))
           /\ m - Len(a) <= Len(e)
<1> DEFINE b == a \o e
           c == SubSeq(b, 1, m)
           n == Len(a)
           l == Len(e)
           d == SubSeq(e, 1, m - n)
<1>1. n \in Nat /\ l \in Nat
  BY LenProperties
<1>2. /\ b \in Seq(S) /\ Len(b) = n + l
      /\ \A i \in 1..(n + l) : b[i] = IF i <= n THEN a[i] ELSE e[i - n]
  BY ConcatProperties
<1>3. m <= n + l
  BY <1>2
<1> HIDE DEF b, n, l
<1>4. \A i \in 1..m : i \in 1..(n + l)
  BY ONLY <1>1, <1>3, m \in Nat, SMT
<1>5. \A i \in 1..m : b[i] \in S
  BY ONLY <1>2, <1>4, ElementOfSeq
<1>6. /\ c \in Seq(S) /\ Len(c) = (IF 1 <= m THEN (m - 1) + 1 ELSE 0)
      /\ \A i \in 1..((m - 1) + 1) : c[i] = b[(1 + i) - 1]
  <2>1. 1 \in Int /\ m \in Int
    OBVIOUS
  <2>2. /\ c \in Seq(S) /\ Len(c) = (IF 1 <= m THEN m - 1 + 1 ELSE 0)
        /\ \A i \in 1..(m - 1 + 1) : c[i] = b[1 + i - 1]
    BY ONLY <1>5, <2>1, SubSeqProperties
  <2>3. m - 1 + 1 = (m - 1) + 1 /\ \A i \in 1..m : 1 + i - 1 = (1 + i) - 1
    OBVIOUS
  <2> QED
    BY <2>2, <2>3
<1> HIDE DEF c
<1>7. Len(c) = m /\ \A i \in 1..m : c[i] = b[i]
  <2>1. (m - 1) + 1 = m /\ \A i \in 1..m : (1 + i) - 1 = i
    BY ONLY m \in Nat, SMT
  <2>2. (IF 1 <= m THEN m ELSE 0) = m
    BY ONLY m \in Nat, SMT
  <2> QED
    BY ONLY <1>6, <2>1, <2>2
<1>8. \A i \in 1..m : i <= n => c[i] = a[i]
  BY ONLY <1>2, <1>4, <1>7
<1>9. \A i \in 1..(m - n) : i \in 1..l
  BY ONLY <1>1, <1>3, m \in Nat, SMT
<1>10. \A i \in 1..(m - n) : e[i] \in S
  BY ONLY <1>9, e \in Seq(S), ElementOfSeq DEF l
<1>11. /\ d \in Seq(S) /\ Len(d) = (IF 1 <= m - n THEN (m - n) - 1 + 1 ELSE 0)
       /\ \A i \in 1..((m - n) - 1 + 1) : d[i] = e[1 + i - 1]
  <2> DEFINE k == m - n
  <2>1. 1 \in Int /\ k \in Int
    BY <1>1
  <2> HIDE DEF k
  <2>2. \A i \in 1..k : e[i] \in S
    BY <1>10 DEF k
  <2>3. /\ SubSeq(e, 1, k) \in Seq(S)
        /\ Len(SubSeq(e, 1, k)) = (IF 1 <= k THEN k - 1 + 1 ELSE 0)
        /\ \A i \in 1..(k - 1 + 1) : SubSeq(e, 1, k)[i] = e[1 + i - 1]
    BY ONLY <2>1, <2>2, SubSeqProperties
  <2> QED
    BY ONLY <2>3 DEF k
<1> HIDE DEF d
<1>12. ASSUME m >= n PROVE c = a \o d
  <2>1. Len(d) = m - n /\ \A i \in 1..(m - n) : d[i] = e[i]
    <3>1. (m - n) - 1 + 1 = m - n /\ \A i \in 1..(m - n) : 1 + i - 1 = i
      BY ONLY <1>1, m \in Nat, SMT
    <3>2. (IF 1 <= m - n THEN m - n ELSE 0) = m - n
      BY ONLY <1>1, <1>12, m \in Nat, SMT
    <3> QED
      BY ONLY <1>11, <3>1, <3>2
  <2> DEFINE f == a \o d
  <2>2. /\ f \in Seq(S) /\ Len(f) = n + (m - n)
        /\ \A i \in 1..(n + (m - n)) : f[i] = IF i <= n THEN a[i] ELSE d[i - n]
    BY ONLY <1>11, <2>1, a \in Seq(S), ConcatProperties DEF n
  <2> HIDE DEF f
  <2>3. n + (m - n) = m
    BY ONLY <1>1, m \in Nat, SMT
  <2>4. \A i \in 1..m : c[i] = f[i]
    <3> SUFFICES ASSUME NEW i \in 1..m PROVE c[i] = f[i]
      OBVIOUS
    <3>1. c[i] = IF i <= n THEN a[i] ELSE e[i - n]
      BY ONLY <1>2, <1>4, <1>7, i \in 1..m
    <3>2. f[i] = IF i <= n THEN a[i] ELSE d[i - n]
      BY ONLY <2>2, <2>3, i \in 1..m
    <3>3. ~(i <= n) => i - n \in 1..(m - n)
      BY ONLY <1>1, i \in 1..m, m \in Nat, SMT
    <3> QED
      BY ONLY <2>1, <3>1, <3>2, <3>3
  <2>5. c = f
    BY ONLY <1>6, <1>7, <2>2, <2>3, <2>4, SeqEqual
  <2> QED
    BY <2>5 DEF f
<1>13. m - n <= l
  BY ONLY <1>1, <1>3, m \in Nat, SMT
<1> QED
  BY ONLY <1>6, <1>7, <1>8, <1>11, <1>12, <1>13 DEF b, c, d, n, l
\* A code point that is one unit has at most three bytes.
LEMMA UnitsOfPoint ==
    ASSUME NEW h \in Point
    PROVE  /\ UnitsOf(h) \in Seq(Unit)
           /\ Len(UnitsOf(h)) = 1 => Len(Bytes(h)) <= 3
<1>1. h \in Nat /\ h <= 2097151
  BY DEF Point
<1>2. UnitsOf(h) \in Seq(Unit) /\ Len(UnitsOf(h)) = IF h <= 65535 THEN 1 ELSE 2
  BY <1>1, UnitsOfFacts
<1>3. h <= 65535 => h < 65536
  BY <1>1
<1>4. h < 65536 => Len(Bytes(h)) <= 3
  BY BytesFacts
<1> QED
  BY ONLY <1>2, <1>3, <1>4

\* Bytes that begin a character of at most three bytes give one unit, also
\* when there are fewer of them.
LEMMA UnitsOfFirst ==
    ASSUME NEW b \in Seq(Byte), b # <<>>
    PROVE  /\ UnitsOf(FirstPoint(b)) \in Seq(Unit)
           /\ Len(UnitsOf(FirstPoint(b))) \in {1, 2}
           /\ Width(b[1]) <= 3 => Len(UnitsOf(FirstPoint(b))) = 1
<1>1. b[1] \in Byte /\ b \in Seq(Nat)
  BY RestFacts
<1> DEFINE p == FirstPoint(b)
<1>2. p \in Nat /\ p <= 2097151 /\ (Width(b[1]) <= 3 => p <= 65535)
  BY <1>1, FirstPointRange
<1> HIDE DEF p
<1>3. UnitsOf(p) \in Seq(Unit) /\ Len(UnitsOf(p)) = IF p <= 65535 THEN 1 ELSE 2
  BY <1>2, UnitsOfFacts
<1>4. Width(b[1]) <= 3 => Len(UnitsOf(p)) = 1
  BY ONLY <1>2, <1>3
<1>5. Len(UnitsOf(p)) \in {1, 2}
  BY ONLY <1>3
<1> QED
  BY ONLY <1>3, <1>4, <1>5 DEF p

\* A well-formed string that is cut decodes to one that is no longer.
LEMMA CutLength ==
    \A s \in Seq(Unit) : WellFormed(s) =>
        \A m \in Nat : m <= Len(Coded(s)) =>
            /\ Len(ByHand[SubSeq(Coded(s), 1, m)]) <= Len(s)
            /\ Len(Strict[SubSeq(Coded(s), 1, m)]) <= Len(s)
<1> DEFINE Short(s, c) == Len(ByHand[c]) <= Len(s) /\ Len(Strict[c]) <= Len(s)
           T == {s \in Seq(Unit) : WellFormed(s) =>
                    \A m \in Nat : m <= Len(Coded(s)) =>
                        Short(s, SubSeq(Coded(s), 1, m))}
<1>0. <<>> \in Seq(Unit) /\ <<>> \in Seq(Byte) /\ Len(<<>>) = 0
  BY EmptySeq
<1>1. \A s \in Seq(Unit) : Short(s, <<>>)
  <2> SUFFICES ASSUME NEW s \in Seq(Unit) PROVE Short(s, <<>>)
    OBVIOUS
  <2>1. ByHand[<<>>] = <<>> /\ Strict[<<>>] = <<>>
    BY <1>0, DecoderStep
  <2>2. Len(s) \in Nat
    BY LenProperties
  <2> QED
    BY ONLY <1>0, <2>1, <2>2
<1>2. <<>> \in T
  <2> HIDE DEF Short
  <2>1. Coded(<<>>) = <<>>
    BY <1>0, CodedStep
  <2>2. \A m \in Nat : m <= Len(<<>>) => SubSeq(<<>>, 1, m) = <<>>
    <3> SUFFICES ASSUME NEW m \in Nat, m <= Len(<<>>) PROVE SubSeq(<<>>, 1, m) = <<>>
      OBVIOUS
    <3>1. m < 1 /\ 1 \in Int /\ m \in Int
      BY <1>0
    <3> QED
      BY ONLY <3>1, SubSeqEmpty
  <2>3. \A m \in Nat : m <= Len(Coded(<<>>)) => Short(<<>>, SubSeq(Coded(<<>>), 1, m))
    BY ONLY <1>0, <1>1, <2>1, <2>2, Zenon
  <2> QED
    BY ONLY <1>0, <2>3, Zenon
<1>3. ASSUME NEW s \in Seq(Unit), s # <<>>, After(s) \in T
      PROVE  s \in T
  <2> SUFFICES ASSUME WellFormed(s), NEW m \in Nat, m <= Len(Coded(s))
               PROVE  Short(s, SubSeq(Coded(s), 1, m))
    OBVIOUS
  <2> DEFINE r == After(s)
             h == HeadPoint(s)
             k == Taken(s)
             a == Bytes(h)
             e == Coded(r)
             n == Len(a)
             c == SubSeq(a \o e, 1, m)
             d == SubSeq(e, 1, m - n)
  <2>1. /\ r \in Seq(Unit) /\ h \in Point /\ k \in {1, 2} /\ k <= Len(s)
        /\ Len(r) = Len(s) - k /\ Len(s) \in Nat
    BY <1>3, Character
  <2>2. WellFormed(r) /\ Len(UnitsOf(h)) = k
    BY <1>3, WellFormedStep
  <2>3. Coded(s) = a \o e
    BY <1>3, CodedStep
  <2>4. After(s) \in T
    BY <1>3
  <2> HIDE DEF Short
  <2>5. \A j \in Nat : j <= Len(e) => Short(r, SubSeq(e, 1, j))
    BY ONLY <2>2, <2>4, Zenon
  <2> HIDE DEF h, k, r, T
  <2>6. a \in Seq(Byte) /\ n \in {1, 2, 3, 4} /\ Width(a[1]) = n
    BY ONLY <2>1, BytesFacts
  <2>7. e \in Seq(Byte)
    BY ONLY <2>1, CodedFacts
  <2>8. UnitsOf(h) \in Seq(Unit) /\ (k = 1 => n <= 3)
    BY ONLY <2>1, <2>2, UnitsOfPoint
  <2> HIDE DEF a, e
  <2>9. n = 4 => k = 2
    <3> HIDE DEF n
    <3>1. ~(4 <= 3)
      OBVIOUS
    <3> QED
      BY ONLY <2>1, <2>8, <3>1, Zenon
  <2>10. m <= Len(a \o e)
    BY <2>3
  <2>11. /\ c \in Seq(Byte) /\ Len(c) = m /\ d \in Seq(Byte)
         /\ \A i \in 1..m : i <= n => c[i] = a[i]
         /\ m >= n => c = a \o d
         /\ m - n <= Len(e)
    <3>1. a \in Seq(Byte)
      BY <2>6
    <3>2. /\ SubSeq(a \o e, 1, m) \in Seq(Byte) /\ Len(SubSeq(a \o e, 1, m)) = m
          /\ SubSeq(e, 1, m - Len(a)) \in Seq(Byte)
          /\ \A i \in 1..m : i <= Len(a) => SubSeq(a \o e, 1, m)[i] = a[i]
          /\ m >= Len(a) =>
                SubSeq(a \o e, 1, m) = a \o SubSeq(e, 1, m - Len(a))
          /\ m - Len(a) <= Len(e)
      BY ONLY <2>7, <2>10, <3>1, m \in Nat, CutOfConcat, Zenon
    <3> QED
      BY ONLY <3>2, Zenon
  <2> HIDE DEF n, c
  <2>12. CASE m = 0
    <3>1. c = <<>>
      BY <2>11, <2>12, EmptySeq
    <3> QED
      BY <1>1, <2>3, <3>1 DEF c
  <2>13. CASE m >= n
    <3>1. m - n \in Nat
      BY ONLY <2>6, <2>13, m \in Nat, SMT
    <3>2. Short(r, d)
      BY ONLY <2>5, <2>11, <3>1
    <3>3. c = a \o d
      BY ONLY <2>11, <2>13
    <3> HIDE DEF d
    <3>4. ByHand[c] = UnitsOf(h) \o ByHand[d] /\ Strict[c] = UnitsOf(h) \o Strict[d]
      <4>1. h \in Point /\ d \in Seq(Byte)
        BY ONLY <2>1, <2>11
      <4>2. /\ ByHand[a \o d] = UnitsOf(h) \o ByHand[d]
            /\ Strict[a \o d] = UnitsOf(h) \o Strict[d]
        BY ONLY <4>1, DecodesFirst DEF a
      <4> QED
        BY ONLY <3>3, <4>2
    <3>5. ByHand[d] \in Seq(Unit) /\ Strict[d] \in Seq(Unit)
      BY <2>11, DecoderUnits
    <3>6. /\ Len(ByHand[c]) = k + Len(ByHand[d])
          /\ Len(Strict[c]) = k + Len(Strict[d])
      BY ONLY <2>2, <2>8, <3>4, <3>5, ConcatProperties
    <3>7. Len(ByHand[d]) \in Nat /\ Len(Strict[d]) \in Nat
      BY <3>5, LenProperties
    <3>8. Len(ByHand[d]) <= Len(r) /\ Len(Strict[d]) <= Len(r)
      BY ONLY <3>2 DEF Short
    <3>9. Len(ByHand[c]) <= Len(s) /\ Len(Strict[c]) <= Len(s)
      BY ONLY <2>1, <3>6, <3>7, <3>8, SMT
    <3> QED
      BY ONLY <2>3, <3>9 DEF Short, c
  <2>14. CASE m # 0 /\ ~(m >= n)
    <3>1. 1 \in 1..m /\ 1 <= n /\ n > m
      BY ONLY <2>6, <2>14, m \in Nat, SMT
    <3>2. c[1] = a[1] /\ Width(c[1]) = n
      BY ONLY <2>6, <2>11, <3>1
    <3>3. c # <<>>
      BY ONLY <2>11, <2>14, EmptySeq
    <3>4. Rest(c) = <<>> /\ c[1] \in Byte /\ c \in Seq(Nat)
      <4>1. Width(c[1]) >= Len(c)
        BY ONLY <2>6, <2>11, <3>1, <3>2, m \in Nat, SMT
      <4> QED
        BY ONLY <2>11, <3>3, <4>1, RestFacts
    <3> DEFINE x == UnitsOf(FirstPoint(c))
    <3>5. /\ x \in Seq(Unit) /\ Len(x) \in {1, 2}
          /\ n <= 3 => Len(x) = 1
      BY ONLY <2>11, <3>2, <3>3, UnitsOfFirst
    <3>6. x \in Seq(Unit)
      BY ONLY <3>5
    <3> HIDE DEF x
    <3>7. Len(x) <= k
      <4> DEFINE y == Len(x)
      <4>1. k \in {1, 2} /\ n \in {1, 2, 3, 4} /\ y \in {1, 2}
        BY ONLY <2>1, <2>6, <3>5
      <4>2. (n <= 3 => y = 1) /\ (n = 4 => k = 2)
        BY ONLY <2>9, <3>5
      <4> HIDE DEF y
      <4>3. y <= k
        BY ONLY <4>1, <4>2, SMT
      <4> QED
        BY ONLY <4>3 DEF y
    <3>8. ByHand[c] = x \o ByHand[<<>>]
      BY ONLY <2>11, <3>3, <3>4, DecoderStep DEF x
    <3>9. ByHand[<<>>] = <<>>
      BY ONLY <1>0, DecoderStep
    <3>10. ByHand[c] = x
      BY ONLY <3>6, <3>8, <3>9, ConcatEmptySeq
    <3>11. Strict[c] = <<Replacement>>
      <4>1. Width(c[1]) > Len(c)
        BY ONLY <2>11, <3>1, <3>2
      <4> QED
        BY ONLY <2>11, <3>3, <4>1, DecoderStep
    <3>12. Len(Strict[c]) = 1
      BY ONLY <3>11
    <3>13. Len(x) \in Nat
      BY <3>6
    <3>14. Len(ByHand[c]) <= Len(s) /\ Len(Strict[c]) <= Len(s)
      BY ONLY <2>1, <3>7, <3>10, <3>12, <3>13, SMT
    <3> QED
      BY ONLY <2>3, <3>14 DEF Short, c
  <2> QED
    BY <2>12, <2>13, <2>14
<1>4. \A s \in Seq(Unit) : s # <<>> /\ After(s) \in T => s \in T
  BY <1>3
<1> HIDE DEF T
<1>5. Seq(Unit) \subseteq T
  BY ONLY <1>2, <1>4, ByCharacter
<1> QED
  BY <1>5 DEF T

\* What is read up to the terminator.
LEMMA TerminatedFacts ==
    ASSUME NEW b \in Seq(Byte)
    PROVE  /\ Terminated(b) \in Seq(Byte)
           /\ (\A i \in 1..Len(b) : b[i] # Nul) =>
                 /\ Terminated(b) = b
                 /\ Terminated(Append(b, Nul)) = b
<1>1. \A ends \in SUBSET Nat : ends # {} =>
         /\ (CHOOSE i \in ends : \A j \in ends : i <= j) \in ends
         /\ \A j \in ends : (CHOOSE i \in ends : \A k \in ends : i <= k) <= j
  <2> SUFFICES ASSUME NEW ends \in SUBSET Nat, ends # {}
               PROVE  /\ (CHOOSE i \in ends : \A j \in ends : i <= j) \in ends
                      /\ \A j \in ends : (CHOOSE i \in ends : \A k \in ends : i <= k) <= j
    OBVIOUS
  <2>1. \E i \in ends : \A j \in ends : i <= j
    BY LeastNumber
  <2> QED
    BY ONLY <2>1, Zenon
<1>2. Len(b) \in Nat
  BY LenProperties
<1>3. Terminated(b) \in Seq(Byte)
  <2> DEFINE ends == {i \in 1..Len(b) : b[i] = Nul}
             n == CHOOSE i \in ends : \A j \in ends : i <= j
  <2>1. Terminated(b) = IF ends = {} THEN b ELSE SubSeq(b, 1, n - 1)
    BY DEF Terminated
  <2>2. CASE ends = {}
    BY <2>1, <2>2
  <2>3. CASE ends # {}
    <3>1. ends \in SUBSET Nat
      OBVIOUS
    <3>2. n \in ends
      BY <1>1, <2>3, <3>1
    <3>3. n \in 1..Len(b)
      BY <3>2
    <3> HIDE DEF n, ends
    <3>4. 1 \in Int /\ n - 1 \in Int /\ \A i \in 1..(n - 1) : i \in 1..Len(b)
      BY ONLY <1>2, <3>3, SMT
    <3>5. \A i \in 1..(n - 1) : b[i] \in Byte
      BY <3>4, ElementOfSeq
    <3>6. SubSeq(b, 1, n - 1) \in Seq(Byte)
      BY ONLY <3>4, <3>5, SubSeqProperties
    <3> QED
      BY <2>1, <2>3, <3>6
  <2> QED
    BY <2>2, <2>3
<1>4. ASSUME \A i \in 1..Len(b) : b[i] # Nul
      PROVE  Terminated(b) = b /\ Terminated(Append(b, Nul)) = b
  <2>1. Terminated(b) = b
    <3>1. {i \in 1..Len(b) : b[i] = Nul} = {}
      BY <1>4
    <3> QED
      BY <3>1 DEF Terminated
  <2> DEFINE c == Append(b, Nul)
             ends == {i \in 1..Len(c) : c[i] = Nul}
             n == CHOOSE i \in ends : \A j \in ends : i <= j
             l == Len(b)
  <2>2. Nul \in Byte
    BY ByteRange DEF Nul
  <2>3. /\ c \in Seq(Byte) /\ Len(c) = l + 1
        /\ \A i \in 1..l : c[i] = b[i]
        /\ c[l + 1] = Nul
    BY <2>2, AppendProperties
  <2>4. Terminated(c) = IF ends = {} THEN c ELSE SubSeq(c, 1, n - 1)
    BY DEF Terminated
  <2>5. l + 1 \in ends
    <3> HIDE DEF c
    <3>1. l + 1 \in 1..Len(c)
      BY <1>2, <2>3
    <3> QED
      BY <2>3, <3>1
  <2>6. \A i \in ends : i = l + 1
    <3> SUFFICES ASSUME NEW i \in ends, i # l + 1 PROVE FALSE
      OBVIOUS
    <3>1. i \in 1..(l + 1) /\ c[i] = Nul
      BY <2>3
    <3> HIDE DEF c, ends
    <3>2. i \in 1..l
      BY <1>2, <3>1
    <3> QED
      BY <1>4, <2>3, <3>1, <3>2
  <2>7. ends = {l + 1}
    BY ONLY <2>5, <2>6
  <2>8. n = l + 1
    <3>1. ends \in SUBSET Nat
      OBVIOUS
    <3>2. n \in ends
      BY ONLY <1>1, <2>7, <3>1
    <3> QED
      BY ONLY <2>7, <3>2
  <2> HIDE DEF c, ends, n
  <2>9. Terminated(c) = SubSeq(c, 1, l)
    <3>1. (l + 1) - 1 = l
      BY <1>2
    <3> QED
      BY ONLY <2>4, <2>7, <2>8, <3>1
  <2>10. SubSeq(c, 1, l) = b
    <3> DEFINE d == SubSeq(b \o <<Nul>>, 1, l)
    <3>1. c = b \o <<Nul>>
      BY <2>2, AppendIsConcat DEF c
    <3>2. <<Nul>> \in Seq(Byte)
      BY <2>2
    <3>3. l <= Len(b \o <<Nul>>) /\ l \in Nat
      BY <1>2, <2>3, <3>1
    <3>4. d \in Seq(Byte) /\ Len(d) = l /\ \A i \in 1..l : i <= l => d[i] = b[i]
      BY ONLY <3>2, <3>3, b \in Seq(Byte), CutOfConcat
    <3>5. \A i \in 1..l : i <= l
      BY <1>2
    <3> HIDE DEF d
    <3>6. d = b
      BY ONLY <3>4, <3>5, b \in Seq(Byte), SeqEqual
    <3> QED
      BY <3>1, <3>6 DEF d
  <2> QED
    BY <2>1, <2>9, <2>10 DEF c
<1> QED
  BY <1>3, <1>4
\* A character of seven bits is not half a pair.
LEMMA AsciiIsPlain ==
    ASSUME NEW u \in Nat, u <= 127
    PROVE  ~IsSurrogate(u) /\ u < 128
BY ONLY u \in Nat, u <= 127, SMT DEF IsSurrogate, IsLead, IsTrail

\* A string of ASCII characters takes a byte for each of them.
LEMMA AsciiLength ==
    \A s \in Seq(Unit) : (\A i \in 1..Len(s) : s[i] \in 1..127) =>
        Len(Coded(s)) <= Len(s)
<1> DEFINE Ascii(s) == \A i \in 1..Len(s) : s[i] \in 1..127
           T == {s \in Seq(Unit) : Ascii(s) => Len(Coded(s)) <= Len(s)}
<1>1. <<>> \in T
  <2>1. <<>> \in Seq(Unit) /\ Len(<<>>) <= Len(<<>>)
    BY EmptySeq
  <2>2. Coded(<<>>) = <<>>
    BY <2>1, CodedStep
  <2>3. Len(Coded(<<>>)) <= Len(<<>>)
    BY ONLY <2>1, <2>2, Zenon
  <2> HIDE DEF Ascii
  <2> QED
    BY ONLY <2>1, <2>3, Zenon
<1>2. ASSUME NEW s \in Seq(Unit), s # <<>>, After(s) \in T
      PROVE  s \in T
  <2> SUFFICES ASSUME Ascii(s) PROVE Len(Coded(s)) <= Len(s)
    OBVIOUS
  <2> DEFINE r == After(s)
             h == HeadPoint(s)
             n == Len(s)
             l == Len(r)
  <2>1. /\ r \in Seq(Unit) /\ h \in Point /\ Taken(s) <= n /\ l = n - Taken(s)
        /\ \A i \in 1..l : r[i] = s[i + Taken(s)]
        /\ n \in Nat /\ n > 0
    BY <1>2, Character
  <2>2. s[1] \in 1..127
    BY ONLY <2>1, Ascii(s)
  <2>3. s[1] \in Nat /\ s[1] <= 127
    <3>1. \A u \in 1..127 : u \in Nat /\ u <= 127
      BY ONLY SMT
    <3> QED
      BY ONLY <2>2, <3>1, Zenon
  <2>4. ~IsSurrogate(s[1]) /\ s[1] < 128
    BY ONLY <2>3, AsciiIsPlain
  <2>5. Taken(s) = 1 /\ h = s[1]
    BY ONLY <2>4, Zenon DEF Taken, HeadPoint
  <2> HIDE DEF h
  <2>6. h \in Point /\ h < 128
    BY ONLY <2>1, <2>4, <2>5, Zenon
  <2>7. Len(Bytes(h)) = 1 /\ Bytes(h) \in Seq(Byte)
    <3>1. Bytes(h) = <<h>>
      BY ONLY <2>6, OneByteOf
    <3> QED
      BY <2>6, <3>1, BytesFacts
  <2>8. Coded(s) = Bytes(h) \o Coded(r)
    BY <1>2, CodedStep DEF h
  <2>9. After(s) \in T
    BY <1>2
  <2> HIDE DEF n, l
  <2>10. Ascii(r)
    <3> SUFFICES ASSUME NEW i \in 1..l PROVE r[i] \in 1..127
      BY DEF l
    <3> HIDE DEF r
    <3>1. i + 1 \in 1..n
      BY ONLY <2>1, <2>5, i \in 1..l, SMT
    <3>2. s[i + 1] \in 1..127
      BY ONLY <3>1, Ascii(s) DEF n
    <3> QED
      BY ONLY <2>1, <2>5, <3>2, i \in 1..l
  <2> HIDE DEF Ascii
  <2>11. Len(Coded(r)) <= l
    BY ONLY <2>9, <2>10, Zenon DEF l
  <2> HIDE DEF r, T
  <2>12. Coded(r) \in Seq(Byte)
    BY ONLY <2>1, CodedFacts
  <2>13. Len(Coded(s)) = 1 + Len(Coded(r))
    <3>1. Len(Bytes(h) \o Coded(r)) = Len(Bytes(h)) + Len(Coded(r))
      BY ONLY <2>7, <2>12, ConcatProperties
    <3> QED
      BY ONLY <2>7, <2>8, <3>1, Zenon
  <2> DEFINE y == Len(Coded(r))
  <2>14. y \in Nat /\ l = n - 1 /\ y <= l /\ n \in Nat
    BY ONLY <2>1, <2>5, <2>11, <2>12, LenProperties
  <2> HIDE DEF y
  <2>15. 1 + y <= n
    BY ONLY <2>14, SMT
  <2> QED
    BY ONLY <2>13, <2>15 DEF y, n
<1>3. \A s \in Seq(Unit) : s # <<>> /\ After(s) \in T => s \in T
  BY <1>2
<1> HIDE DEF T
<1>4. Seq(Unit) \subseteq T
  BY ONLY <1>1, <1>3, ByCharacter
<1> QED
  BY <1>4 DEF T

\* What bind() stores: the bytes of the text as far as the count of units goes.
LEMMA StoredIs ==
    ASSUME NEW s \in Seq(Unit)
    PROVE  /\ Stored(s) = SubSeq(Coded(s), 1, Len(s))
           /\ Stored(s) \in Seq(Byte) /\ Len(Stored(s)) = Len(s)
           /\ Len(Argument(s)) = Len(Coded(s)) + 1
           /\ Len(s) < Len(Argument(s))
           /\ Argument(s) \in Seq(Byte)
           /\ NoNul(s) => \A i \in 1..Len(Stored(s)) : Stored(s)[i] # Nul
<1> DEFINE c == Coded(s)
           n == Len(s)
           b == SubSeq(c \o <<>>, 1, n)
<1>1. c \in Seq(Byte) /\ Len(c) >= n /\ (NoNul(s) => \A i \in 1..Len(c) : c[i] # Nul)
  BY CodedFacts
<1>2. n \in Nat /\ Len(c) \in Nat
  BY <1>1, LenProperties
<1>3. Nul \in Byte
  BY ByteRange DEF Nul
<1>4. Argument(s) = Append(c, Nul)
  BY ArgumentIs
<1> HIDE DEF c
<1>5. /\ Append(c, Nul) \in Seq(Byte) /\ Len(Append(c, Nul)) = Len(c) + 1
      /\ Append(c, Nul) = c \o <<Nul>>
  BY ONLY <1>1, <1>3, AppendProperties, AppendIsConcat
<1>6. n < Len(c) + 1
  BY ONLY <1>1, <1>2, SMT
<1>7. Stored(s) = SubSeq(c \o <<Nul>>, 1, n)
  <2>1. n <= Len(Argument(s))
    BY ONLY <1>2, <1>4, <1>5, <1>6, SMT
  <2>2. Min2(nByte(s), Len(Argument(s))) = n
    BY ONLY <2>1, Zenon DEF Min2, nByte
  <2> QED
    BY ONLY <1>4, <1>5, <2>2, Zenon DEF Stored
<1>8. <<Nul>> \in Seq(Byte) /\ <<>> \in Seq(Byte)
  BY <1>3
<1>9. c \o <<>> = c
  BY ONLY <1>1, ConcatEmptySeq
<1>10. n <= Len(c \o <<Nul>>) /\ n <= Len(c \o <<>>) /\ \A i \in 1..n : i <= Len(c)
  BY ONLY <1>1, <1>2, <1>5, <1>6, <1>9, SMT
<1> DEFINE d == SubSeq(c \o <<Nul>>, 1, n)
<1>11. d \in Seq(Byte) /\ Len(d) = n /\ \A i \in 1..n : i <= Len(c) => d[i] = c[i]
  BY ONLY <1>1, <1>2, <1>8, <1>10, CutOfConcat
<1>12. b \in Seq(Byte) /\ Len(b) = n /\ \A i \in 1..n : i <= Len(c) => b[i] = c[i]
  BY ONLY <1>1, <1>2, <1>8, <1>10, CutOfConcat
<1> HIDE DEF b, d
<1>13. d = b
  <2>1. \A i \in 1..n : d[i] = b[i]
    BY ONLY <1>10, <1>11, <1>12
  <2> QED
    BY ONLY <1>11, <1>12, <2>1, SeqEqual
<1>14. b = SubSeq(c, 1, n)
  BY <1>9 DEF b
<1>15. \A i \in 1..n : i \in 1..Len(c)
  BY ONLY <1>1, <1>2, SMT
<1>16. NoNul(s) => \A i \in 1..n : d[i] # Nul
  BY ONLY <1>1, <1>10, <1>11, <1>15
<1> QED
  BY ONLY <1>4, <1>5, <1>6, <1>7, <1>11, <1>13, <1>14, <1>16 DEF c, d, n

\* What a program reads is units.
LEMMA ReadUnits ==
    ASSUME NEW b \in Seq(Byte)
    PROVE  UTF8ToString(b) \in Seq(Unit)
<1> DEFINE t == Terminated(b)
<1>1. t \in Seq(Byte)
  BY TerminatedFacts
<1> HIDE DEF t
<1>2. ByHand[t] \in Seq(Unit) /\ Strict[t] \in Seq(Unit)
  BY <1>1, DecoderUnits
<1>3. TextDecoder(t) \in Seq(Unit)
  <2> DEFINE s == Strict[t]
  <2>1. s # <<>> => Tail(s) \in Seq(Unit)
    BY <1>2, HeadTailProperties
  <2> QED
    BY <1>2, <2>1 DEF TextDecoder
<1> QED
  BY <1>2, <1>3 DEF UTF8ToString, t

\* What it reads of bytes without a terminator.
LEMMA ReadWhole ==
    ASSUME NEW b \in Seq(Byte), \A i \in 1..Len(b) : b[i] # Nul
    PROVE  \/ UTF8ToString(b) = ByHand[b]
           \/ UTF8ToString(b) = Strict[b]
           \/ /\ Strict[b] # <<>> /\ Strict[b][1] = BOM /\ Len(b) > Tiny
              /\ UTF8ToString(b) = Tail(Strict[b])
<1>1. Terminated(b) = b
  BY TerminatedFacts
<1>2. UTF8ToString(b) = IF Len(b) > Tiny THEN TextDecoder(b) ELSE ByHand[b]
  BY ONLY <1>1, Zenon DEF UTF8ToString
<1>3. TextDecoder(b) = IF Strict[b] # <<>> /\ Strict[b][1] = BOM
                       THEN Tail(Strict[b]) ELSE Strict[b]
  BY Zenon DEF TextDecoder
<1> QED
  BY ONLY <1>2, <1>3, Zenon

\* A well-formed text that is not cut.
LEMMA WholeText ==
    ASSUME NEW s \in Seq(Unit), WellFormed(s)
    PROVE  ByHand[Coded(s)] = s /\ Strict[Coded(s)] = s
<1>1. <<>> \in Seq(Byte) /\ Coded(s) \in Seq(Byte)
  BY EmptySeq, CodedFacts
<1>2. Coded(s) \o <<>> = Coded(s) /\ s \o <<>> = s
  BY ONLY <1>1, s \in Seq(Unit), ConcatEmptySeq
<1>3. ByHand[<<>>] = <<>> /\ Strict[<<>>] = <<>>
  BY ONLY <1>1, DecoderStep
<1>4. /\ ByHand[Coded(s) \o <<>>] = s \o ByHand[<<>>]
      /\ Strict[Coded(s) \o <<>>] = s \o Strict[<<>>]
  BY ONLY <1>1, s \in Seq(Unit), WellFormed(s), DecodesCoded
<1> QED
  BY ONLY <1>2, <1>3, <1>4, Zenon

\* A sequence begins with what it was put together from.
LEMMA StartOfConcat ==
    ASSUME NEW p \in Seq(Unit), NEW v \in Seq(Unit), p # <<>>
    PROVE  /\ Len(p) <= Len(p \o v)
           /\ SubSeq(p \o v, 1, Len(p)) = p
           /\ p \o v # <<>> /\ (p \o v)[1] = p[1]
<1>1. Len(p) \in Nat /\ Len(p) > 0 /\ Len(v) \in Nat
  BY EmptySeq, LenProperties
<1>2. /\ p \o v \in Seq(Unit) /\ Len(p \o v) = Len(p) + Len(v)
      /\ \A i \in 1..(Len(p) + Len(v)) :
            (p \o v)[i] = IF i <= Len(p) THEN p[i] ELSE v[i - Len(p)]
  BY ConcatProperties
<1>3. /\ 1 \in 1..(Len(p) + Len(v)) /\ 1 <= Len(p) /\ Len(p) <= Len(p) + Len(v)
      /\ 1 \in 1..Len(p) /\ Len(p) \in 1..Len(p) /\ Len(p) + Len(v) # 0
  BY ONLY <1>1, SMT
<1>4. SubSeq(p \o v, 1, Len(p)) = SubSeq(p, 1, Len(p))
  BY ONLY <1>3, p \in Seq(Unit), v \in Seq(Unit), SubSeqOfConcat1
<1>5. SubSeq(p, 1, Len(p)) = p
  BY SubSeqFull
<1>6. p \o v # <<>>
  BY ONLY <1>2, <1>3, EmptySeq
<1>7. (p \o v)[1] = p[1]
  BY ONLY <1>2, <1>3
<1> QED
  BY ONLY <1>2, <1>3, <1>4, <1>5, <1>6, <1>7

\* Through either decoder, what is stored of s is read back as p and more.
ReadsBack(s, p) ==
    \E v, w \in Seq(Unit) :
        ByHand[Stored(s)] = p \o v /\ Strict[Stored(s)] = p \o w

\* A well-formed start of a text whose bytes are not cut is.
LEMMA StartComesBack ==
    ASSUME NEW s \in Seq(Unit), NEW n \in 1..Len(s),
           NEW p, p = SubSeq(s, 1, n), WellFormed(p), Len(Coded(p)) <= Len(s)
    PROVE  /\ p \in Seq(Unit) /\ Len(p) = n /\ p # <<>> /\ p[1] = s[1]
           /\ ReadsBack(s, p)
<1> DEFINE q == SubSeq(s, n + 1, Len(s))
<1>1. Len(s) \in Nat /\ n \in Nat /\ n > 0 /\ n <= Len(s)
  BY LenProperties
<1>2. 1 \in Int /\ n \in Int /\ \A i \in 1..n : i \in 1..Len(s)
  BY <1>1
<1>3. \A i \in 1..n : s[i] \in Unit
  BY <1>2, ElementOfSeq
<1>4. /\ p \in Seq(Unit) /\ Len(p) = IF 1 <= n THEN n - 1 + 1 ELSE 0
      /\ \A i \in 1..(n - 1 + 1) : p[i] = s[1 + i - 1]
  BY ONLY <1>2, <1>3, p = SubSeq(s, 1, n), SubSeqProperties
<1>5. Len(p) = n /\ p[1] = s[1] /\ p # <<>>
  <2>1. 1 <= n /\ n - 1 + 1 = n /\ 1 \in 1..(n - 1 + 1) /\ 1 + 1 - 1 = 1 /\ n # 0
    BY ONLY <1>1, SMT
  <2>2. Len(p) = n /\ p[1] = s[1]
    BY ONLY <1>4, <2>1
  <2> QED
    BY ONLY <2>1, <2>2, EmptySeq
<1>6. q \in Seq(Unit)
  <2>1. s # <<>>
    BY <1>1, EmptySeq
  <2> QED
    BY ONLY <1>1, <2>1, s \in Seq(Unit), EndOf
<1>7. s = p \o q
  <2>1. /\ 1 \in 1..(Len(s) + 1) /\ n \in (1 - 1)..Len(s) /\ Len(s) \in n..Len(s)
    BY ONLY <1>1, SMT
  <2>2. p \o q = SubSeq(s, 1, Len(s))
    BY ONLY <2>1, s \in Seq(Unit), p = SubSeq(s, 1, n), ConcatAdjacentSubSeq
  <2> QED
    BY <2>2, SubSeqFull
<1> HIDE DEF q
<1> DEFINE a == Coded(p)
           e == Coded(q)
           m == Len(s)
           t == SubSeq(e, 1, m - Len(a))
<1>8. Coded(s) = a \o e
  BY ONLY <1>4, <1>6, <1>7, WellFormed(p), CodedConcat
<1>9. a \in Seq(Byte) /\ e \in Seq(Byte) /\ Len(Coded(s)) >= Len(s)
  BY <1>4, <1>6, CodedFacts
<1>10. Stored(s) = SubSeq(Coded(s), 1, m)
  BY StoredIs
<1>11. Len(a) <= m /\ Len(a) \in Nat /\ m >= Len(a) /\ m \in Nat
  BY <1>1, <1>9, LenProperties
<1> HIDE DEF a, e, m
<1>12. m <= Len(a \o e)
  <2>1. Len(a \o e) >= m
    BY ONLY <1>8, <1>9 DEF m
  <2>2. Len(a \o e) \in Nat
    BY <1>9, ConcatProperties, LenProperties
  <2> QED
    BY ONLY <1>11, <2>1, <2>2, SMT
<1>13. /\ SubSeq(e, 1, m - Len(a)) \in Seq(Byte)
       /\ m >= Len(a) => SubSeq(a \o e, 1, m) = a \o SubSeq(e, 1, m - Len(a))
  <2>1. a \in Seq(Byte) /\ e \in Seq(Byte) /\ m \in Nat
    BY ONLY <1>9, <1>11
  <2>2. /\ SubSeq(a \o e, 1, m) \in Seq(Byte) /\ Len(SubSeq(a \o e, 1, m)) = m
        /\ SubSeq(e, 1, m - Len(a)) \in Seq(Byte)
        /\ \A i \in 1..m : i <= Len(a) => SubSeq(a \o e, 1, m)[i] = a[i]
        /\ m >= Len(a) =>
              SubSeq(a \o e, 1, m) = a \o SubSeq(e, 1, m - Len(a))
        /\ m - Len(a) <= Len(e)
    BY ONLY <1>12, <2>1, CutOfConcat, Zenon
  <2> QED
    BY ONLY <2>2, Zenon
<1>14. t \in Seq(Byte) /\ Stored(s) = a \o t
  BY ONLY <1>8, <1>10, <1>11, <1>13
<1> HIDE DEF t
<1>15. ByHand[a \o t] = p \o ByHand[t] /\ Strict[a \o t] = p \o Strict[t]
  BY ONLY <1>4, <1>14, WellFormed(p), DecodesCoded DEF a
<1>16. ByHand[t] \in Seq(Unit) /\ Strict[t] \in Seq(Unit)
  BY <1>14, DecoderUnits
<1>17. ByHand[Stored(s)] = p \o ByHand[t] /\ Strict[Stored(s)] = p \o Strict[t]
  BY ONLY <1>14, <1>15, Zenon
<1>18. ReadsBack(s, p)
  BY ONLY <1>16, <1>17, Zenon DEF ReadsBack
<1> QED
  BY ONLY <1>4, <1>5, <1>18, Zenon
-----------------------------------------------------------------------------
(* The invariant.                                                          *)

\* What the library keeps is what the call wrote of the text, and what the
\* program has read back is what it keeps.
IInv ==
    /\ text \in Seq(Unit)
    /\ kept \in Seq(Byte)
    /\ op \in {"none", "name", "bound"}
    /\ op = "name" => kept = Terminated(Argument(text))
    /\ op = "bound" => kept = Stored(text)
    /\ back = NotRead \/ (op # "none" /\ back = UTF8ToString(kept))

\* The strings a program passes are sequences of units.
LEMMA StringsUnits == \A s \in Strings : s \in Seq(Unit)
<1> SUFFICES ASSUME NEW n \in 0..MaxUnits, NEW s \in [1..n -> Units]
             PROVE  s \in Seq(Unit)
  BY DEF Strings
<1>1. n \in Nat /\ \A i \in 1..n : s[i] \in Unit
  BY TextAssumption
<1>2. s = [i \in 1..n |-> s[i]]
  OBVIOUS
<1> QED
  BY <1>1, <1>2, SeqDef

\* The empty text.
LEMMA InitInv == Init => IInv
<1>1. <<>> \in Seq(Unit) /\ <<>> \in Seq(Byte)
  BY EmptySeq
<1> QED
  BY <1>1, Zenon DEF Init, IInv

\* Every step keeps the invariant.
LEMMA NextInv == IInv /\ [Next]_vars => IInv'
<1> SUFFICES ASSUME IInv, [Next]_vars PROVE IInv'
  OBVIOUS
<1>1. \A s \in Seq(Unit) : Terminated(Argument(s)) \in Seq(Byte) /\ Stored(s) \in Seq(Byte)
  <2> SUFFICES ASSUME NEW s \in Seq(Unit)
               PROVE  Terminated(Argument(s)) \in Seq(Byte) /\ Stored(s) \in Seq(Byte)
    OBVIOUS
  <2>1. Argument(s) \in Seq(Byte) /\ Stored(s) \in Seq(Byte)
    BY StoredIs
  <2> QED
    BY ONLY <2>1, TerminatedFacts
<1>2. ASSUME NEW s \in Strings, Name(s) PROVE IInv'
  <2>1. s \in Seq(Unit)
    BY ONLY s \in Strings, StringsUnits
  <2> QED
    BY ONLY <1>1, <1>2, <2>1, Zenon DEF Name, IInv
<1>3. ASSUME NEW s \in Strings, BindText(s) PROVE IInv'
  <2>1. s \in Seq(Unit)
    BY ONLY s \in Strings, StringsUnits
  <2> QED
    BY ONLY <1>1, <1>3, <2>1, Zenon DEF BindText, IInv
<1>4. CASE Read
  BY ONLY IInv, <1>4, Zenon DEF Read, IInv
<1>5. CASE WriteBack
  <2>1. back \in Seq(Unit)
    <3>1. back = UTF8ToString(kept) /\ kept \in Seq(Byte)
      BY ONLY IInv, <1>5, Zenon DEF WriteBack, IInv
    <3> QED
      BY ONLY <3>1, ReadUnits
  <2> QED
    BY ONLY IInv, <1>1, <1>5, <2>1, Zenon DEF WriteBack, IInv
<1>6. CASE Finalize
  <2>1. <<>> \in Seq(Unit) /\ <<>> \in Seq(Byte)
    BY EmptySeq
  <2> QED
    BY ONLY IInv, <1>6, <2>1, Zenon DEF Finalize, IInv
<1>7. CASE UNCHANGED vars
  BY ONLY IInv, <1>7, Zenon DEF vars, IInv
<1> QED
  BY <1>2, <1>3, <1>4, <1>5, <1>6, <1>7 DEF Next

\* So it always holds.
LEMMA Invariant == Spec => []IInv
BY InitInv, NextInv, PTL DEF Spec
-----------------------------------------------------------------------------
(* The theorems.                                                           *)

\* Whatever string the program passes or stores again, the library keeps bytes
\* and the program reads code units.
THEOREM TypeCorrect == Spec => []TypeOK
<1>1. IInv => TypeOK
  <2> SUFFICES ASSUME IInv PROVE TypeOK
    OBVIOUS
  <2>1. \A i \in 1..Len(kept) : kept[i] \in Byte
    BY ElementOfSeq DEF IInv
  <2>2. back # NotRead => \A i \in 1..Len(back) : back[i] \in Unit
    <3> SUFFICES ASSUME back # NotRead, NEW i \in 1..Len(back) PROVE back[i] \in Unit
      OBVIOUS
    <3>1. back = UTF8ToString(kept) /\ kept \in Seq(Byte)
      BY Zenon DEF IInv
    <3>2. back \in Seq(Unit)
      BY ONLY <3>1, ReadUnits
    <3> QED
      BY <3>2, ElementOfSeq
  <2> QED
    BY <2>1, <2>2 DEF IInv, TypeOK
<1> QED
  BY <1>1, Invariant, PTL

\* Every well-formed name without a NUL, however long it is and whatever it
\* is made of, reaches the library and comes back as it was.
THEOREM NameComesBack == Spec => []NamesComeBack
<1>1. IInv => NamesComeBack
  <2> SUFFICES ASSUME IInv, op = "name", back # NotRead, WellFormed(text), NoNul(text)
               PROVE  \/ back = text
                      \/ text[1] = BOM /\ Len(kept) > Tiny /\ back = Tail(text)
    BY DEF NamesComeBack
  <2>1. /\ text \in Seq(Unit) /\ kept = Terminated(Argument(text))
        /\ back = UTF8ToString(kept)
    BY Zenon DEF IInv
  <2> DEFINE c == Coded(text)
  <2>2. c \in Seq(Byte) /\ \A i \in 1..Len(c) : c[i] # Nul
    BY <2>1, CodedFacts
  <2>3. Argument(text) = Append(c, Nul)
    BY <2>1, ArgumentIs
  <2>4. ByHand[c] = text /\ Strict[c] = text
    BY <2>1, WholeText
  <2> HIDE DEF c
  <2>5. kept = c
    BY ONLY <2>1, <2>2, <2>3, TerminatedFacts
  <2>6. \/ UTF8ToString(c) = ByHand[c]
        \/ UTF8ToString(c) = Strict[c]
        \/ /\ Strict[c] # <<>> /\ Strict[c][1] = BOM /\ Len(c) > Tiny
           /\ UTF8ToString(c) = Tail(Strict[c])
    BY ONLY <2>2, ReadWhole
  <2> QED
    BY ONLY <2>1, <2>4, <2>5, <2>6, Zenon
<1> QED
  BY <1>1, Invariant, PTL

\* The room ccall allocates is enough for every string: nothing of it is left
\* out.
THEOREM NothingIsDropped == Spec => []NothingDropped
<1>1. IInv => NothingDropped
  <2> SUFFICES ASSUME IInv
               PROVE  Len(Argument(text)) - 1 =
                        Len(Fitting[<<Points[text], 4 * Len(Points[text])>>])
    BY DEF NothingDropped
  <2> DEFINE p == Points[text]
             n == Len(p)
             m == Len(text)
  <2>1. text \in Seq(Unit)
    BY DEF IInv
  <2>2. p \in Seq(Point) /\ n <= m
    BY <2>1, PointsFacts
  <2>3. p \in Seq(Nat) /\ n \in Nat /\ m \in Nat
    <3>1. Point \subseteq Nat
      BY DEF Point
    <3> QED
      BY <2>1, <2>2, <3>1, SeqMonotonic, LenProperties
  <2>4. Len(Argument(text)) = Len(Coded(text)) + 1 /\ Coded(text) \in Seq(Byte)
    BY <2>1, StoredIs, CodedFacts
  <2>5. Coded(text) = Fitting[<<p, 4 * m>>]
    BY DEF Coded
  <2> HIDE DEF p
  <2>6. 4 * m \in Nat /\ 4 * n \in Nat /\ 4 * m >= 4 * n /\ 4 * n >= 4 * n
    <3>1. \A i, j \in Nat : i <= j => 4 * j \in Nat /\ 4 * i \in Nat
                                      /\ 4 * j >= 4 * i /\ 4 * i >= 4 * i
      BY ONLY SMT
    <3> QED
      BY ONLY <2>2, <2>3, <3>1, Zenon
  <2>7. Fitting[<<p, 4 * m>>] = Fitting[<<p, 4 * n>>]
    BY ONLY <2>3, <2>6, RoomEnough
  <2>8. Len(Coded(text)) \in Nat
    BY <2>4, LenProperties
  <2>9. Len(Argument(text)) - 1 = Len(Coded(text))
    BY ONLY <2>4, <2>8, SMT
  <2> QED
    BY ONLY <2>5, <2>7, <2>9, Zenon DEF p
<1> QED
  BY <1>1, Invariant, PTL

\* The count of units never makes sqlite3_bind_text read a byte that was not
\* written.
THEOREM BindReadsWhatWasWritten == Spec => []BindReadsWritten
<1>1. IInv => BindReadsWritten
  BY StoredIs DEF IInv, BindReadsWritten, nByte
<1> QED
  BY <1>1, Invariant, PTL

\* What a text that was bound is read back as, for every text there is.
LEMMA Cut == IInv => CutAtTheEnd
<1> DEFINE first(n) == SubSeq(text, 1, n)
<1> SUFFICES ASSUME IInv, op = "bound", back # NotRead, WellFormed(text), NoNul(text)
             PROVE  /\ Len(back) <= Len(text)
                    /\ \A n \in 1..Len(text) :
                          WellFormed(first(n)) /\ Len(Argument(first(n))) <= Len(text) + 1
                              => \/ text[1] = BOM /\ Len(kept) > Tiny
                                 \/ n <= Len(back) /\ SubSeq(back, 1, n) = first(n)
  BY DEF CutAtTheEnd
<1>1. text \in Seq(Unit) /\ kept = Stored(text) /\ back = UTF8ToString(kept)
  BY Zenon DEF IInv
<1>2. /\ kept \in Seq(Byte) /\ kept = SubSeq(Coded(text), 1, Len(text))
      /\ \A i \in 1..Len(kept) : kept[i] # Nul
  BY <1>1, StoredIs
<1> DEFINE d == ByHand[kept]
           e == Strict[kept]
<1>3. \/ back = d
      \/ back = e
      \/ e # <<>> /\ e[1] = BOM /\ Len(kept) > Tiny /\ back = Tail(e)
  BY ONLY <1>1, <1>2, ReadWhole
<1>4. d \in Seq(Unit) /\ e \in Seq(Unit)
  BY ONLY <1>2, DecoderUnits
<1>5. Len(d) <= Len(text) /\ Len(e) <= Len(text)
  <2>1. Len(text) \in Nat /\ Len(text) <= Len(Coded(text))
    <3>1. /\ Len(text) \in Nat /\ Len(Coded(text)) \in Nat
          /\ Len(Coded(text)) >= Len(text)
      BY <1>1, CodedFacts, LenProperties
    <3> QED
      BY ONLY <3>1, SMT
  <2> QED
    BY ONLY <1>1, <1>2, <2>1, WellFormed(text), CutLength, Zenon
<1> HIDE DEF d, e
<1>6. Len(back) <= Len(text)
  <2>1. e # <<>> => Len(Tail(e)) = Len(e) - 1
    BY ONLY <1>4, HeadTailProperties
  <2>2. Len(e) \in Nat /\ Len(text) \in Nat
    BY <1>1, <1>4, LenProperties
  <2>3. e # <<>> => Len(Tail(e)) <= Len(text)
    BY ONLY <1>5, <2>1, <2>2, SMT
  <2> QED
    BY ONLY <1>3, <1>5, <2>3, Zenon
<1>7. ASSUME NEW n \in 1..Len(text), WellFormed(first(n)),
             Len(Argument(first(n))) <= Len(text) + 1,
             ~(text[1] = BOM /\ Len(kept) > Tiny)
      PROVE  n <= Len(back) /\ SubSeq(back, 1, n) = first(n)
  <2> DEFINE p == first(n)
  <2>1. p \in Seq(Unit)
    <3>1. Len(text) \in Nat
      BY <1>1, LenProperties
    <3>2. 1 \in Int /\ n \in Int /\ \A i \in 1..n : i \in 1..Len(text)
      BY ONLY <3>1, n \in 1..Len(text), SMT
    <3>3. \A i \in 1..n : text[i] \in Unit
      BY ONLY <1>1, <3>2, ElementOfSeq
    <3> QED
      BY ONLY <3>2, <3>3, SubSeqProperties
  <2>2. p = SubSeq(text, 1, n) /\ WellFormed(p) /\ Len(Argument(p)) <= Len(text) + 1
    BY <1>7
  <2> HIDE DEF p
  <2>3. Len(Coded(p)) <= Len(text)
    <3>1. Len(Argument(p)) = Len(Coded(p)) + 1 /\ Len(Coded(p)) \in Nat
      BY <2>1, StoredIs, CodedFacts, LenProperties
    <3>2. Len(text) \in Nat
      BY <1>1, LenProperties
    <3> QED
      BY ONLY <2>2, <3>1, <3>2, SMT
  <2>4. /\ p \in Seq(Unit) /\ Len(p) = n /\ p # <<>> /\ p[1] = text[1]
        /\ ReadsBack(text, p)
    <3>1. text \in Seq(Unit)
      BY <1>1
    <3>2. p = SubSeq(text, 1, n)
      BY <2>2
    <3>3. WellFormed(p)
      BY <2>2
    <3> QED
      BY ONLY <2>3, <3>1, <3>2, <3>3, n \in 1..Len(text), StartComesBack
  <2>5. PICK v \in Seq(Unit), w \in Seq(Unit) : d = p \o v /\ e = p \o w
    BY ONLY <1>1, <2>4, Zenon DEF d, e, ReadsBack
  <2>6. /\ n <= Len(d) /\ SubSeq(d, 1, n) = p
        /\ n <= Len(e) /\ SubSeq(e, 1, n) = p /\ e[1] = text[1]
    <3>1. /\ n <= Len(p \o v) /\ SubSeq(p \o v, 1, n) = p
          /\ n <= Len(p \o w) /\ SubSeq(p \o w, 1, n) = p /\ (p \o w)[1] = p[1]
      BY ONLY <2>4, v \in Seq(Unit), w \in Seq(Unit), StartOfConcat
    <3> QED
      BY ONLY <2>4, <2>5, <3>1, Zenon
  <2>7. n <= Len(back) /\ SubSeq(back, 1, n) = p
    BY ONLY <1>3, <1>7, <2>6, Zenon
  <2> QED
    BY <2>7 DEF p
<1> QED
  BY <1>6, <1>7

\* For every text a program binds and however often it stores what it has read:
\* the characters whose bytes fit into as many bytes as the text has units come
\* back in their places.
THEOREM CutsAtTheEnd == Spec => []CutAtTheEnd
BY Cut, Invariant, PTL

\* So a text of the ASCII characters from 1 to 127 comes back whole.
THEOREM AsciiTextComesBack == Spec => []AsciiComesBack
<1>1. IInv => AsciiComesBack
  <2> SUFFICES ASSUME IInv, op = "bound", back # NotRead,
                      \A i \in 1..Len(text) : text[i] \in 1..127
               PROVE  back = text
    BY DEF AsciiComesBack
  <2> DEFINE n == Len(text)
  <2>1. text \in Seq(Unit) /\ n \in Nat /\ kept \in Seq(Byte) /\ back = UTF8ToString(kept)
    BY LenProperties DEF IInv
  <2>2. \A i \in 1..n : text[i] \in Nat /\ text[i] <= 127 /\ text[i] # 0
    <3>1. \A u \in 1..127 : u \in Nat /\ u <= 127 /\ u # 0
      BY ONLY SMT
    <3>2. \A i \in 1..Len(text) : text[i] \in 1..127
      OBVIOUS
    <3> QED
      BY ONLY <3>1, <3>2, Zenon
  <2>3. \A i \in 1..n : ~IsSurrogate(text[i])
    BY ONLY <2>2, AsciiIsPlain
  <2>4. WellFormed(text)
    BY ONLY <2>3, Zenon DEF WellFormed, IsSurrogate
  <2>5. NoNul(text)
    BY ONLY <2>2, Zenon DEF NoNul, Nul
  <2>6. /\ Len(back) <= n
        /\ \A k \in 1..n :
              WellFormed(SubSeq(text, 1, k)) /\ Len(Argument(SubSeq(text, 1, k))) <= n + 1
                  => \/ text[1] = BOM /\ Len(kept) > Tiny
                     \/ k <= Len(back) /\ SubSeq(back, 1, k) = SubSeq(text, 1, k)
    BY ONLY Cut, IInv, op = "bound", back # NotRead, <2>4, <2>5, Zenon DEF CutAtTheEnd
  <2>7. back \in Seq(Unit)
    BY ONLY <2>1, ReadUnits
  <2>8. Len(back) \in Nat
    BY <2>7, LenProperties
  <2>9. CASE n = 0
    <3>1. Len(back) = 0
      BY ONLY <2>6, <2>8, <2>9, SMT
    <3>2. text = <<>> /\ back = <<>>
      BY ONLY <2>1, <2>7, <2>9, <3>1, EmptySeq
    <3> QED
      BY <3>2
  <2>10. CASE n # 0
    <3>1. n \in 1..n /\ 1 \in 1..n
      BY ONLY <2>1, <2>10, SMT
    <3>2. SubSeq(text, 1, n) = text
      BY <2>1, SubSeqFull
    <3>3. Len(Argument(text)) <= n + 1
      <4>1. Len(Argument(text)) = Len(Coded(text)) + 1 /\ Len(Coded(text)) <= n
        BY <2>1, StoredIs, AsciiLength
      <4>2. Len(Coded(text)) \in Nat
        BY <2>1, CodedFacts, LenProperties
      <4> QED
        BY ONLY <2>1, <4>1, <4>2, SMT
    <3>4. text[1] # BOM
      <4>1. \A u \in Nat : u <= 127 => u # BOM
        BY ONLY SMT DEF BOM
      <4> QED
        BY ONLY <2>2, <3>1, <4>1, Zenon
    <3>5. n <= Len(back) /\ SubSeq(back, 1, n) = text
      BY ONLY <2>4, <2>6, <3>1, <3>2, <3>3, <3>4, Zenon
    <3>6. Len(back) = n
      BY ONLY <2>1, <2>6, <2>8, <3>5, SMT
    <3>7. SubSeq(back, 1, Len(back)) = back
      BY <2>7, SubSeqFull
    <3> QED
      BY ONLY <3>5, <3>6, <3>7, Zenon
  <2> QED
    BY <2>9, <2>10
<1> QED
  BY <1>1, Invariant, PTL
=============================================================================
