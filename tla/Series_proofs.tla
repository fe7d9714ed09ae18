--------------------------- MODULE Series_proofs ---------------------------
(***************************************************************************)
(* Proofs about Series, for integers of any width and any queries.         *)
(*                                                                         *)
(* The cursor of a well-behaved scan is at First + (iRowid - 1) * Stride,  *)
(* where Stride is the step with the sign of the direction, and the rows   *)
(* handed out are the values it has passed.  None of the wraps happens,    *)
(* because the query leaves room for one step beyond either bound.  When   *)
(* the scan ends, the cursor has just left the bounds, so the rows are     *)
(* every First + k * Stride within them: for an ascending scan the members *)
(* counted from the start, for a descending one the members counted from   *)
(* the last, which the remainder of xFilter finds.                         *)
(***************************************************************************)
EXTENDS Series, TLAPS
-----------------------------------------------------------------------------
(* Arithmetic.                                                             *)

LEMMA ModRange ==
    ASSUME NEW a \in Int, NEW n \in Nat, n > 0
    PROVE  a % n \in 0..(n - 1)
OBVIOUS

LEMMA DivMod ==
    ASSUME NEW a \in Int, NEW n \in Nat, n > 0
    PROVE  /\ a \div n \in Int
           /\ a = n * (a \div n) + (a % n)
<1>1. a \div n \in Int
  OBVIOUS
<1>2. a = n * (a \div n) + (a % n)
  OBVIOUS
<1> QED  BY <1>1, <1>2

LEMMA ModUnique ==
    ASSUME NEW n \in Nat, n > 0, NEW q \in Int, NEW r \in 0..(n - 1),
           NEW a \in Int, a = n * q + r
    PROVE  a % n = r
OBVIOUS

LEMMA ModSmall ==
    ASSUME NEW n \in Nat, n > 0, NEW r \in 0..(n - 1)
    PROVE  r % n = r
OBVIOUS

LEMMA Scaled ==
    ASSUME NEW n \in Nat, n > 0, NEW j \in Int, NEW k \in Int, j < k
    PROVE  n * j + n <= n * k
OBVIOUS

\* Being a multiple is being n times an integer.
LEMMA Multiple ==
    ASSUME NEW n \in Nat, n > 0, NEW a \in Int
    PROVE  a % n = 0 <=> \E k \in Int : a = n * k
<1>1. ASSUME a % n = 0 PROVE \E k \in Int : a = n * k
  <2>1. a \div n \in Int /\ a = n * (a \div n) + (a % n)
    BY DivMod
  <2>2. a = n * (a \div n)
    <3> DEFINE m == n * (a \div n)
    <3>1. m \in Int /\ a = m + (a % n)
      BY <2>1
    <3> HIDE DEF m
    <3>2. a = m
      BY <1>1, <3>1
    <3> QED  BY <3>2 DEF m
  <2> QED  BY <2>1, <2>2
<1>2. ASSUME NEW k \in Int, a = n * k PROVE a % n = 0
  <2>1. 0 \in 0..(n - 1) /\ n * k \in Int
    OBVIOUS
  <2>2. a = n * k + 0
    BY <1>2, <2>1
  <2> QED  BY <2>1, <2>2, ModUnique
<1> QED  BY <1>1, <1>2

\* An integer that fits is not changed by wrapping.
LEMMA WrapFits ==
    ASSUME NEW x \in Int64 PROVE Wrap(x) = x
<1> DEFINE n == 2 * (MaxInt + 1)
           r == x - MinInt
<1>1. MaxInt \in Nat /\ MinInt \in Int /\ MinInt = -MaxInt - 1 /\ x \in Int
  BY SeriesAssumption DEF MinInt, Int64
<1>2. n \in Nat /\ n > 0 /\ r \in 0..(n - 1)
  BY <1>1 DEF Int64
<1>3. Wrap(x) = (r % n) + MinInt
  BY DEF Wrap
<1> HIDE DEF n
<1>4. r % n = r
  BY <1>2, ModSmall
<1> QED  BY <1>1, <1>3, <1>4

\* Wrapping gives an integer of the type.
LEMMA WrapType ==
    ASSUME NEW x \in Int PROVE Wrap(x) \in Int64
<1> DEFINE n == 2 * (MaxInt + 1)
           r == x - MinInt
<1>1. MaxInt \in Nat /\ MinInt \in Int /\ MinInt = -MaxInt - 1
  BY SeriesAssumption DEF MinInt
<1>2. n \in Nat /\ n > 0 /\ r \in Int /\ n = 2 * MaxInt + 2
  BY <1>1
<1>3. Wrap(x) = (r % n) + MinInt
  BY DEF Wrap
<1> HIDE DEF n, r
<1>4. r % n \in 0..(n - 1)
  BY <1>2, ModRange
<1> QED  BY <1>1, <1>2, <1>3, <1>4 DEF Int64

LEMMA RemainderType ==
    ASSUME NEW x \in Int, NEW n \in Nat, n > 0
    PROVE  Remainder(x, n) \in Int
<1>1. x % n \in Int /\ (-x) % n \in Int
  BY ModRange
<1> QED  BY <1>1 DEF Remainder
-----------------------------------------------------------------------------
(* Types.                                                                  *)

PlanType == [start : BOOLEAN, stop : BOOLEAN, step : BOOLEAN,
             desc : BOOLEAN, asc : BOOLEAN]

\* The plan that xBestIndex picks.
Planned ==
    /\ plan.start = (query.start \in Int64 \cup {Null})
    /\ plan.stop = (query.stop # NoArg)
    /\ plan.step = (query.step # NoArg)
    /\ plan.desc = (plan.start /\ query.stop # NoArg /\ query.order = "desc")
    /\ plan.asc = (plan.start /\ query.stop # NoArg /\ query.order = "asc")

TInv == /\ TypeOK
        /\ phase \notin {"plan", "error"} => Planned
        /\ phase \in {"plan", "filter", "error"} => rows = <<>>

LEMMA Limits ==
    /\ MaxInt \in Nat /\ MaxInt >= 1 /\ MinInt \in Int /\ MinInt = -MaxInt - 1
    /\ Int64 \subseteq Int /\ 0 \in Int64 /\ 1 \in Int64
    /\ DefaultStop \in Int64
BY SeriesAssumption DEF MinInt, Int64

LEMMA StepIsNat ==
    ASSUME NEW n \in 1..MaxInt PROVE n \in Nat /\ n \in Int /\ n > 0
BY SeriesAssumption

LEMMA QueryIsTyped ==
    ASSUME TypeOK
    PROVE  /\ query.start \in Int64 \cup {NoArg, NotEq, Null}
           /\ query.stop \in Int64 \cup {NoArg, Null}
           /\ query.step \in Int64 \cup {NoArg, Null}
           /\ query.order \in {"none", "asc", "desc"}
BY SeriesAssumption DEF TypeOK, QueryType

\* The step of the cursor is the one given, 1, or the negative of the given one.
LEMMA StepType ==
    ASSUME TypeOK, Planned
    PROVE  /\ GivenStep \in Int64
           /\ iStep \in (1..MaxInt) \cup {MinInt}
<1>1. GivenStep \in Int64
  BY QueryIsTyped, Limits DEF Planned, GivenStep, Value
<1>2. CASE GivenStep = MinInt
  <2>1. -GivenStep \in Int
    BY <1>1, Limits
  <2>2. Wrap(-GivenStep) \in Int64
    BY <2>1, WrapType
  <2>3. Wrap(-GivenStep) = MinInt
    <3> DEFINE n == 2 * (MaxInt + 1)
               r == 0
    <3>1. n \in Nat /\ n > 0
      BY Limits
    <3>2. (-GivenStep) - MinInt = n * 1 + r
      BY <1>2, Limits
    <3>3. r \in 0..(n - 1) /\ (-GivenStep) - MinInt \in Int
      BY <3>1, <3>2
    <3>4. Wrap(-GivenStep) = (((-GivenStep) - MinInt) % n) + MinInt
      BY DEF Wrap
    <3> HIDE DEF n, r
    <3>5. ((-GivenStep) - MinInt) % n = r
      BY <3>1, <3>2, <3>3, ModUnique
    <3> QED  BY <3>4, <3>5, Limits DEF r
  <2> QED  BY <1>1, <1>2, <2>3, Limits DEF iStep
<1>3. CASE GivenStep < 0 /\ GivenStep # MinInt
  <2>1. -GivenStep \in 1..MaxInt /\ -GivenStep \in Int64
    BY <1>1, <1>3, Limits DEF Int64
  <2>2. Wrap(-GivenStep) = -GivenStep
    BY <2>1, WrapFits
  <2> QED  BY <1>1, <1>3, <2>1, <2>2, Limits DEF iStep
<1>4. CASE GivenStep >= 0
  BY <1>1, <1>4, Limits DEF iStep, Int64
<1> QED  BY <1>1, <1>2, <1>3, <1>4, Limits

LEMMA BoundsType ==
    ASSUME TypeOK, Planned
    PROVE  mnValue \in Int64 /\ mxValue \in Int64
BY QueryIsTyped, Limits DEF Planned, mnValue, mxValue, HasNull

LEMMA LastType ==
    ASSUME TypeOK, Planned
    PROVE  LastValue \in Int64
<1>1. mnValue \in Int /\ mxValue \in Int /\ mxValue \in Int64
  BY BoundsType, Limits
<1>2. iStep \in Int /\ (iStep > 0 => iStep \in Nat)
  BY StepType, Limits
<1>3. CASE iStep > 0
  <2>1. mxValue - mnValue \in Int
    BY <1>1
  <2>2. Wrap(mxValue - mnValue) \in Int
    BY <2>1, WrapType, Limits
  <2>3. Remainder(Wrap(mxValue - mnValue), iStep) \in Int
    BY <1>2, <1>3, <2>2, RemainderType
  <2>4. mxValue - Remainder(Wrap(mxValue - mnValue), iStep) \in Int
    BY <1>1, <2>3
  <2> QED  BY <1>3, <2>4, WrapType DEF LastValue
<1>4. CASE ~(iStep > 0)
  BY <1>1, <1>4 DEF LastValue
<1> QED  BY <1>3, <1>4

LEMMA TypeInit == Init => TInv
BY SeriesAssumption, Limits DEF Init, TInv, TypeOK, Cursor0, CursorType, StepsType

LEMMA TypeNext == TInv /\ [Next]_vars => TInv'
<1> SUFFICES ASSUME TInv, [Next]_vars PROVE TInv'
  OBVIOUS
<1>1. CASE seriesBestIndex
  <2> DEFINE first == query.start \in Int64 \cup {Null}
             bounded == first /\ query.stop # NoArg
             picked == [start |-> first, stop |-> query.stop # NoArg,
                        step |-> query.step # NoArg,
                        desc |-> bounded /\ query.order = "desc",
                        asc |-> bounded /\ query.order = "asc"]
  <2>1. /\ phase = "plan"
        /\ query' = query /\ cur' = cur /\ rows' = rows
        /\ \/ phase' = "error" /\ plan' = plan
           \/ phase' = "filter" /\ plan' = picked
    BY <1>1 DEF seriesBestIndex
  <2>2. TypeOK /\ rows = <<>>
    BY <2>1 DEF TInv
  <2>3. CASE phase' = "error" /\ plan' = plan
    BY <2>1, <2>2, <2>3 DEF TInv, TypeOK
  <2>4. CASE phase' = "filter" /\ plan' = picked
    <3>1. /\ first \in BOOLEAN
          /\ (query.stop # NoArg) \in BOOLEAN /\ (query.step # NoArg) \in BOOLEAN
          /\ (bounded /\ query.order = "desc") \in BOOLEAN
          /\ (bounded /\ query.order = "asc") \in BOOLEAN
      OBVIOUS
    <3>2. plan' \in PlanType
      BY ONLY <2>4, <3>1 DEF PlanType
    <3>3. Planned'
      BY <2>1, <2>4 DEF Planned
    <3> HIDE DEF picked
    <3>4. TypeOK'
      BY <2>1, <2>2, <2>4, <3>2 DEF TypeOK, PlanType
    <3> QED  BY <2>1, <2>2, <3>3, <3>4 DEF TInv
  <2> QED  BY <2>1, <2>3, <2>4
<1>2. CASE seriesFilter
  <2>1. /\ phase = "filter" /\ phase' = "moved"
        /\ query' = query /\ plan' = plan /\ rows' = rows
        /\ cur' = [isDesc |-> Descending, iRowid |-> 1,
                   iValue |-> IF Descending THEN LastValue ELSE mnValue,
                   mnValue |-> mnValue, mxValue |-> mxValue, iStep |-> iStep]
    BY <1>2 DEF seriesFilter
  <2>2. TypeOK /\ Planned
    BY <2>1 DEF TInv
  <2>3. /\ LastValue \in Int64 /\ mnValue \in Int64 /\ mxValue \in Int64
        /\ iStep \in StepsType
        /\ Descending \in BOOLEAN
    BY <2>2, LastType, BoundsType, StepType, Limits DEF Descending, StepsType
  <2>4. cur' \in CursorType
    BY <2>1, <2>3 DEF CursorType
  <2> QED  BY <2>1, <2>2, <2>4 DEF TInv, TypeOK, Planned
<1>3. CASE seriesEof
  BY <1>3 DEF seriesEof, TInv, TypeOK, Planned
<1>4. CASE seriesColumn
  <2>1. /\ phase = "row" /\ phase' = phase
        /\ query' = query /\ plan' = plan /\ cur' = cur
        /\ rows' = Append(rows, Row(cur))
    BY <1>4 DEF seriesColumn
  <2>2. Row(cur) \in RowType /\ rows \in Seq(RowType)
    BY DEF TInv, TypeOK, CursorType, Row, RowType
  <2>3. rows' \in Seq(RowType)
    BY <2>1, <2>2
  <2> QED  BY <2>1, <2>3 DEF TInv, TypeOK, Planned
<1>5. CASE seriesNext
  <2> DEFINE v == IF cur.isDesc THEN cur.iValue - cur.iStep
                                ELSE cur.iValue + cur.iStep
  <2>1. /\ phase = "row" /\ phase' = "moved"
        /\ query' = query /\ plan' = plan /\ rows' = rows
        /\ cur' = [cur EXCEPT !.iValue = Wrap(v), !.iRowid = @ + 1]
    BY <1>5 DEF seriesNext
  <2>2. cur \in CursorType /\ v \in Int
    <3>1. cur \in CursorType
      BY DEF TInv, TypeOK
    <3> HIDE DEF v
    <3>2. cur.iValue \in Int64 /\ cur.iStep \in StepsType
      BY <3>1 DEF CursorType
    <3>3. cur.iValue \in Int /\ cur.iStep \in Int
      <4>1. cur.iValue \in Int
        BY <3>2, Limits
      <4>2. MaxInt \in Int /\ MinInt \in Int
        BY Limits
      <4>3. cur.iStep \in Int
        BY <3>2, <4>2 DEF StepsType
      <4> QED  BY <4>1, <4>3
    <3> QED  BY <3>1, <3>3 DEF v
  <2>3. Wrap(v) \in Int64
    BY <2>2, WrapType
  <2> DEFINE w == Wrap(v)
             k == cur.iRowid + 1
  <2>4. cur' = [cur EXCEPT !.iValue = w, !.iRowid = k] /\ w \in Int64 /\ k \in Nat
    BY <2>1, <2>2, <2>3 DEF CursorType
  <2> HIDE DEF v, w, k
  <2>5. cur' \in CursorType
    BY ONLY <2>2, <2>4 DEF CursorType
  <2> QED  BY <2>1, <2>5 DEF TInv, TypeOK, Planned
<1>6. CASE UNCHANGED vars
  BY <1>6 DEF vars, TInv, TypeOK, Planned
<1> QED  BY <1>1, <1>2, <1>3, <1>4, <1>5, <1>6 DEF Next

LEMMA TypeAlways == Spec => []TInv
BY TypeInit, TypeNext, PTL DEF Spec

\* The cursor stays within 64-bit integers and its step is never negative, but
\* for the one integer that has no negative, whatever the query.
THEOREM SeriesTypeCorrect == Spec => []TypeOK
<1>1. TInv => TypeOK
  BY DEF TInv
<1> QED  BY <1>1, TypeAlways, PTL
-----------------------------------------------------------------------------
(* Well-behaved scans.                                                     *)

\* What well-behaved means for the cursor that xFilter sets up.
LEMMA Behaved ==
    ASSUME TypeOK, Planned, WellBehaved(query)
    PROVE  /\ mnValue = query.start /\ mxValue = RefStop(query)
           /\ iStep = RefStep(query) /\ RefStep(query) \in 1..MaxInt
           /\ query.start \in Int64 /\ RefStop(query) \in Int64
           /\ query.start <= RefStop(query)
           /\ RefStop(query) - query.start \in Int64
           /\ query.start - RefStep(query) \in Int64
           /\ RefStop(query) + RefStep(query) \in Int64
           /\ Null \notin {query.start, query.stop, query.step}
           /\ plan.asc => ~Descending
           /\ plan.desc => Descending
<1>1. /\ Null \notin {query.start, query.stop, query.step}
      /\ query.start <= RefStop(query)
      /\ RefStop(query) - query.start \in Int64
      /\ query.start - RefStep(query) \in Int64
      /\ RefStop(query) + RefStep(query) \in Int64
      /\ query.start \in Int64
  BY SeriesAssumption DEF WellBehaved
<1>2. query.start \in Int64 /\ RefStop(query) \in Int64
  BY <1>1, QueryIsTyped, Limits DEF RefStop
<1>3. mnValue = query.start /\ mxValue = RefStop(query)
  BY <1>1 DEF mnValue, mxValue, HasNull, Planned, RefStop
<1>4. iStep = RefStep(query) /\ RefStep(query) \in 1..MaxInt
  <2>1. CASE query.step = NoArg
    <3>1. GivenStep = 1 /\ RefStep(query) = 1
      BY <2>1 DEF GivenStep, RefStep, Planned
    <3> QED  BY <3>1, Limits DEF iStep
  <2>2. CASE query.step # NoArg
    <3>1. query.step \in Int64 /\ GivenStep = query.step
      BY <1>1, <2>2, QueryIsTyped DEF GivenStep, Planned, Value
    <3>2. CASE query.step >= 0
      BY <2>2, <3>1, <3>2, Limits DEF iStep, RefStep, Size, Int64
    <3>3. CASE query.step < 0
      <4>1. RefStep(query) = -query.step
        BY <2>2, <3>1, <3>3, Limits DEF RefStep, Size
      <4>2. query.step # MinInt
        BY <1>1, <1>2, <3>1, <4>1, Limits DEF Int64
      <4>3. -query.step \in Int64 /\ -query.step \in 1..MaxInt
        BY <3>1, <3>3, <4>2, Limits DEF Int64
      <4>4. Wrap(-query.step) = -query.step
        BY <4>3, WrapFits
      <4>5. GivenStep # 0
        BY <3>1, <3>3, Limits
      <4>6. iStep = -query.step
        BY <3>1, <3>3, <4>4, <4>5 DEF iStep
      <4> QED  BY <4>1, <4>3, <4>6
    <3>4. query.step \in Int
      BY <3>1, Limits
    <3> QED  BY <3>2, <3>3, <3>4
  <2> QED  BY <2>1, <2>2
<1>5. (plan.asc => ~Descending) /\ (plan.desc => Descending)
  BY DEF Planned, Descending
<1> QED  BY <1>1, <1>2, <1>3, <1>4, <1>5

\* The highest value of a well-behaved series is its last member.
LEMMA LastMember ==
    ASSUME TypeOK, Planned, WellBehaved(query)
    PROVE  /\ LastValue \in query.start..RefStop(query)
           /\ RefStop(query) < LastValue + RefStep(query)
           /\ \E d \in Nat : LastValue = query.start + RefStep(query) * d
<1> DEFINE mn == query.start
           mx == RefStop(query)
           n == RefStep(query)
           r == (mx - mn) % n
<1>1. /\ mnValue = mn /\ mxValue = mx /\ iStep = n /\ n \in 1..MaxInt
      /\ mn \in Int64 /\ mx \in Int64 /\ mn <= mx /\ mx - mn \in Int64
  BY Behaved
<1>2. /\ MaxInt \in Nat /\ n \in Nat /\ n > 0 /\ mn \in Int /\ mx \in Int
      /\ mx - mn \in Int
  BY <1>1, Limits, StepIsNat
<1>3. Wrap(mx - mn) = mx - mn
  BY <1>1, WrapFits
<1> HIDE DEF mn, mx, n
<1>4. Remainder(mx - mn, n) = r
  BY <1>1, <1>2 DEF Remainder
<1>5. r \in 0..(n - 1)
  BY <1>2, ModRange
<1> DEFINE d == (mx - mn) \div n
<1>6. d \in Int /\ mx - mn = n * d + r
  BY <1>2, DivMod
<1> HIDE DEF r, d
<1>7. LastValue = Wrap(mx - r)
  BY <1>1, <1>2, <1>3, <1>4 DEF LastValue
<1>8. d >= 0
  <2>1. ASSUME d < 0 PROVE FALSE
    <3>1. n * d + n <= n * 0
      BY <1>2, <1>6, <2>1, Scaled
    <3>2. n * 0 = 0 /\ n * d \in Int
      BY <1>2, <1>6
    <3> HIDE DEF n
    <3> QED  BY <1>1, <1>2, <1>5, <1>6, <3>1, <3>2
  <2> QED  BY <1>6, <2>1
<1>9. n * d \in Int /\ n * d >= 0
  <2>1. CASE d = 0
    BY <1>2, <2>1
  <2>2. CASE d > 0
    <3>1. n * 0 + n <= n * d
      BY <1>2, <1>6, <2>2, Scaled
    <3>2. n * 0 = 0 /\ n * d \in Int
      BY <1>2, <1>6
    <3> QED  BY <1>2, <3>1, <3>2
  <2> QED  BY <1>6, <1>8, <2>1, <2>2
<1> DEFINE p == n * d
<1>10. p \in Int /\ p >= 0 /\ mx - mn = p + r
  BY <1>6, <1>9
<1> HIDE DEF p
<1>11. mx - r \in Int64 /\ mx - r = mn + p /\ mx - r \in mn..mx /\ mx < (mx - r) + n
  BY <1>1, <1>2, <1>5, <1>10, Limits DEF Int64
<1>12. LastValue = mn + p
  BY <1>7, <1>11, WrapFits
<1>13. d \in Nat
  BY <1>6, <1>8
<1>14. LastValue = mn + n * d
  BY <1>12 DEF p
<1>15. LastValue \in mn..mx /\ mx < LastValue + n
  BY <1>11, <1>12
<1> QED  BY <1>13, <1>14, <1>15 DEF mn, mx, n

\* Where the scan starts, and what it moves by.
First == IF Descending THEN LastValue ELSE query.start
Stride == IF Descending THEN -RefStep(query) ELSE RefStep(query)
At(k) == First + k * Stride

CursorInv ==
    /\ cur.isDesc = Descending
    /\ cur.mnValue = query.start /\ cur.mxValue = RefStop(query)
    /\ cur.iStep = RefStep(query)
    /\ cur.iRowid \in Nat \ {0}
    /\ cur.iValue = At(cur.iRowid - 1)
    /\ phase \in {"moved", "eof"} => Len(rows) = cur.iRowid - 1
    /\ phase = "row" => /\ Len(rows) \in {cur.iRowid - 1, cur.iRowid}
                        /\ cur.iValue \in query.start..RefStop(query)
    /\ \A i \in 1..Len(rows) :
          rows[i].value = At(i - 1) /\ rows[i].value \in query.start..RefStop(query)
    /\ phase = "eof" => AtEof(cur)

SInv == /\ TInv
        /\ WellBehaved(query) /\ phase \in {"row", "moved", "eof"} => CursorInv

LEMMA AtFacts ==
    ASSUME TypeOK, Planned, WellBehaved(query)
    PROVE  /\ First \in Int /\ Stride \in Int /\ Stride # 0
           /\ First \in query.start..RefStop(query)
           /\ At(0) = First
           /\ \A k \in Int : At(k) \in Int /\ At(k + 1) = At(k) + Stride
<1>1. /\ RefStep(query) \in 1..MaxInt /\ query.start \in Int64 /\ RefStop(query) \in Int64
      /\ query.start <= RefStop(query)
  BY Behaved
<1>2. LastValue \in query.start..RefStop(query)
  BY LastMember
<1>3. RefStep(query) \in Int /\ RefStep(query) > 0 /\ query.start \in Int /\ RefStop(query) \in Int
  BY <1>1, Limits, StepIsNat
<1>4. First \in query.start..RefStop(query) /\ First \in Int
  BY <1>1, <1>2, <1>3 DEF First
<1>5. Stride \in Int /\ Stride # 0
  BY <1>3 DEF Stride
<1>6. \A k \in Int : At(k) \in Int /\ At(k + 1) = At(k) + Stride
  <2> TAKE k \in Int
  <2>1. k * Stride \in Int /\ (k + 1) * Stride = k * Stride + Stride
    BY <1>5
  <2> DEFINE a == k * Stride
             b == (k + 1) * Stride
  <2>2. At(k) = First + a /\ At(k + 1) = First + b /\ b = a + Stride /\ a \in Int
    BY <2>1 DEF At
  <2> HIDE DEF a, b
  <2> QED  BY <1>4, <1>5, <2>2
<1>7. At(0) = First
  BY <1>4, <1>5 DEF At
<1> QED  BY <1>4, <1>5, <1>6, <1>7

\* The values go up or down with the stride.
LEMMA AtOrder ==
    ASSUME TypeOK, Planned, WellBehaved(query), NEW j \in Int, NEW k \in Int, j < k
    PROVE  /\ ~Descending => At(j) + RefStep(query) <= At(k)
           /\ Descending => At(k) + RefStep(query) <= At(j)
<1> DEFINE n == RefStep(query)
<1>1. n \in Nat /\ n > 0 /\ First \in Int
  BY Behaved, AtFacts, StepIsNat
<1> HIDE DEF n
<1> DEFINE a == n * j
           b == n * k
<1>2. a + n <= b /\ a \in Int /\ b \in Int
  BY <1>1, Scaled
<1>3. CASE ~Descending
  <2>1. Stride = n
    BY <1>3 DEF Stride, n
  <2>2. At(j) = First + a /\ At(k) = First + b
    BY <1>1, <2>1 DEF At
  <2> HIDE DEF a, b
  <2> QED  BY <1>1, <1>2, <1>3, <2>2 DEF n
<1>4. CASE Descending
  <2>1. Stride = -n
    BY <1>4 DEF Stride, n
  <2>2. j * (-n) = -a /\ k * (-n) = -b
    BY <1>1
  <2>3. At(j) = First + (-a) /\ At(k) = First + (-b)
    BY <2>1, <2>2 DEF At
  <2> HIDE DEF a, b
  <2> QED  BY <1>1, <1>2, <1>4, <2>3 DEF n
<1> QED  BY <1>3, <1>4

\* A cursor that has moved has not gone back over the bound it came from.
LEMMA NotBelow ==
    ASSUME TypeOK, Planned, WellBehaved(query), NEW k \in Nat
    PROVE  /\ ~Descending => At(k) >= query.start
           /\ Descending => At(k) <= RefStop(query)
<1>1. /\ First \in query.start..RefStop(query) /\ At(0) = First
      /\ First \in Int /\ At(k) \in Int
  BY AtFacts
<1>2. query.start \in Int /\ RefStop(query) \in Int /\ RefStep(query) \in Int
      /\ RefStep(query) > 0
  BY Behaved, Limits, StepIsNat
<1>3. CASE k = 0
  BY <1>1, <1>2, <1>3
<1>4. CASE k > 0
  <2>1. /\ ~Descending => At(0) + RefStep(query) <= At(k)
        /\ Descending => At(k) + RefStep(query) <= At(0)
    BY <1>4, AtOrder
  <2> QED  BY <1>1, <1>2, <2>1
<1> QED  BY <1>3, <1>4

LEMMA SInvInit == Init => SInv
BY TypeInit DEF Init, SInv

LEMMA FilterStep ==
    ASSUME SInv, seriesFilter, TInv', WellBehaved(query) PROVE CursorInv'
<1>1. /\ phase = "filter" /\ phase' = "moved"
      /\ query' = query /\ plan' = plan /\ rows' = rows /\ rows = <<>>
      /\ cur' = [isDesc |-> Descending, iRowid |-> 1,
                 iValue |-> IF Descending THEN LastValue ELSE mnValue,
                 mnValue |-> mnValue, mxValue |-> mxValue, iStep |-> iStep]
  BY DEF seriesFilter, SInv, TInv
<1>2. TypeOK /\ Planned
  BY <1>1 DEF SInv, TInv
<1>3. /\ mnValue = query.start /\ mxValue = RefStop(query)
      /\ iStep = RefStep(query)
  BY <1>2, Behaved
<1>4. cur'.iValue = First /\ At(0) = First
  BY <1>1, <1>2, <1>3, AtFacts DEF First
<1>5. /\ Descending' = Descending /\ First' = First /\ Stride' = Stride
      /\ \A k : At(k)' = At(k)
  BY <1>1 DEF Descending, GivenStep, First, LastValue, iStep, mnValue, mxValue,
              HasNull, Stride, At
<1>6. /\ cur'.isDesc = Descending /\ cur'.iRowid = 1
      /\ cur'.mnValue = query.start /\ cur'.mxValue = RefStop(query)
      /\ cur'.iStep = RefStep(query)
  BY <1>1, <1>3
<1>7. Len(rows') = 0
  BY <1>1
<1>8. At(cur'.iRowid - 1) = At(0)
  BY <1>6
<1> QED  BY <1>1, <1>4, <1>5, <1>6, <1>7, <1>8 DEF CursorInv

\* The plan and the query stay for the length of the scan.
LEMMA Fixed ==
    ASSUME query' = query, plan' = plan
    PROVE  /\ Descending' = Descending /\ \A k : At(k)' = At(k)
           /\ WellBehaved(query)' <=> WellBehaved(query)
           /\ RefStep(query)' = RefStep(query) /\ RefStop(query)' = RefStop(query)
           /\ Planned' <=> Planned
BY DEF Descending, GivenStep, First, LastValue, iStep, mnValue, mxValue,
       HasNull, Stride, At, Planned

LEMMA EofStep ==
    ASSUME SInv, seriesEof, WellBehaved(query) PROVE CursorInv'
<1>1. /\ phase = "moved" /\ phase' = IF AtEof(cur) THEN "eof" ELSE "row"
      /\ query' = query /\ plan' = plan /\ cur' = cur /\ rows' = rows
  BY DEF seriesEof
<1>2. TypeOK /\ Planned /\ CursorInv
  BY <1>1 DEF SInv, TInv
<1>3. AtEof(cur)' = AtEof(cur)
  BY <1>1 DEF AtEof
<1>4. phase' = "row" => cur.iValue \in query.start..RefStop(query)
  <2> SUFFICES ASSUME phase' = "row" PROVE cur.iValue \in query.start..RefStop(query)
    OBVIOUS
  <2>1. ~AtEof(cur)
    BY <1>1
  <2> DEFINE k == cur.iRowid - 1
  <2>2. k \in Nat /\ cur.iValue = At(k)
    BY <1>2 DEF CursorInv
  <2>3. /\ ~Descending => At(k) >= query.start
        /\ Descending => At(k) <= RefStop(query)
    BY <1>2, <2>2, NotBelow
  <2>4. At(k) \in Int /\ query.start \in Int /\ RefStop(query) \in Int
    <3>1. query.start \in Int64 /\ RefStop(query) \in Int64
      BY <1>2, Behaved
    <3>2. At(k) \in Int
      BY <1>2, <2>2, AtFacts
    <3> QED  BY <3>1, <3>2, Limits
  <2>5. /\ ~Descending => ~(cur.iValue > RefStop(query))
        /\ Descending => ~(cur.iValue < query.start)
    BY <1>2, <2>1 DEF AtEof, CursorInv
  <2> HIDE DEF k
  <2> QED  BY <2>2, <2>3, <2>4, <2>5
<1> QED  BY <1>1, <1>2, <1>3, <1>4, Fixed DEF CursorInv

LEMMA ColumnStep ==
    ASSUME SInv, seriesColumn, WellBehaved(query) PROVE CursorInv'
<1>1. /\ phase = "row" /\ phase' = phase /\ Len(rows) < cur.iRowid
      /\ query' = query /\ plan' = plan /\ cur' = cur
      /\ rows' = Append(rows, Row(cur))
  BY DEF seriesColumn
<1>2. TypeOK /\ Planned /\ CursorInv
  BY <1>1 DEF SInv, TInv
<1> DEFINE n == Len(rows)
<1>3. rows \in Seq(RowType) /\ n \in Nat
  BY <1>2 DEF TypeOK
<1>4. n = cur.iRowid - 1 /\ cur.iRowid \in Nat \ {0}
  BY <1>1, <1>2, <1>3 DEF CursorInv
<1>5. Len(rows') = n + 1 /\ rows'[n + 1].value = cur.iValue
      /\ \A i \in 1..n : rows'[i].value = rows[i].value
  <2> DEFINE r == Row(cur)
  <2>1. r.value = cur.iValue
    BY DEF Row
  <2> HIDE DEF r
  <2>2. Len(rows') = n + 1 /\ rows'[n + 1] = r /\ \A i \in 1..n : rows'[i] = rows[i]
    BY <1>1, <1>3 DEF r
  <2> QED  BY <2>1, <2>2
<1> HIDE DEF n
<1>6. \A i \in 1..Len(rows') :
         rows'[i].value = At(i - 1) /\ rows'[i].value \in query.start..RefStop(query)
  <2> SUFFICES ASSUME NEW i \in 1..(n + 1)
               PROVE  rows'[i].value = At(i - 1) /\ rows'[i].value \in query.start..RefStop(query)
    BY <1>5
  <2>1. CASE i = n + 1
    <3>1. cur.iValue = At(cur.iRowid - 1) /\ cur.iValue \in query.start..RefStop(query)
      BY <1>1, <1>2 DEF CursorInv
    <3>2. i - 1 = cur.iRowid - 1
      BY <1>3, <1>4, <2>1
    <3> QED  BY <1>5, <2>1, <3>1, <3>2
  <2>2. CASE i # n + 1
    <3>1. i \in 1..n
      BY <1>3, <2>2
    <3> QED  BY <1>2, <1>5, <3>1 DEF CursorInv, n
  <2> QED  BY <2>1, <2>2
<1>7. Len(rows') = cur.iRowid
  BY <1>4, <1>5
<1> QED  BY <1>1, <1>2, <1>6, <1>7, Fixed DEF CursorInv

LEMMA NextStep ==
    ASSUME SInv, seriesNext, WellBehaved(query) PROVE CursorInv'
<1> DEFINE v == IF cur.isDesc THEN cur.iValue - cur.iStep
                              ELSE cur.iValue + cur.iStep
           k == cur.iRowid - 1
<1>1. /\ phase = "row" /\ phase' = "moved" /\ Len(rows) = cur.iRowid
      /\ query' = query /\ plan' = plan /\ rows' = rows
      /\ cur' = [cur EXCEPT !.iValue = Wrap(v), !.iRowid = @ + 1]
  BY DEF seriesNext
<1>2. TypeOK /\ Planned /\ CursorInv /\ cur \in CursorType
  BY <1>1 DEF SInv, TInv, TypeOK
<1>3. /\ cur.isDesc = Descending /\ cur.iStep = RefStep(query)
      /\ cur.iRowid \in Nat \ {0} /\ cur.iValue = At(k)
      /\ cur.iValue \in query.start..RefStop(query)
  BY <1>1, <1>2 DEF CursorInv
<1>4. k \in Int /\ k + 1 = cur.iRowid
  BY <1>3
<1>5. /\ cur'.iRowid = cur.iRowid + 1 /\ cur'.iValue = Wrap(v)
      /\ cur'.isDesc = cur.isDesc /\ cur'.mnValue = cur.mnValue
      /\ cur'.mxValue = cur.mxValue /\ cur'.iStep = cur.iStep
  BY <1>1, <1>2 DEF CursorType
<1>6. At(k) \in Int /\ At(k + 1) = At(k) + Stride /\ Stride \in Int
  BY <1>2, <1>4, AtFacts
<1>7. /\ RefStep(query) \in Int /\ RefStep(query) > 0
      /\ query.start \in Int /\ RefStop(query) \in Int
      /\ query.start - RefStep(query) \in Int64
      /\ RefStop(query) + RefStep(query) \in Int64
  BY <1>2, Behaved, Limits, StepIsNat
<1> HIDE DEF k
<1>8. v = At(k + 1) /\ v \in Int64
  <2>1. CASE Descending
    <3>1. v = At(k) - RefStep(query) /\ Stride = -RefStep(query)
      BY <1>3, <2>1 DEF Stride
    <3> HIDE DEF v
    <3>2. v = At(k + 1)
      BY <1>6, <1>7, <3>1
    <3>3. v \in Int /\ v >= query.start - RefStep(query) /\ v <= RefStop(query) + RefStep(query)
      BY <1>3, <1>6, <1>7, <3>1
    <3> QED  BY <1>7, <3>2, <3>3, Limits DEF Int64
  <2>2. CASE ~Descending
    <3>1. v = At(k) + RefStep(query) /\ Stride = RefStep(query)
      BY <1>3, <2>2 DEF Stride
    <3> HIDE DEF v
    <3>2. v = At(k + 1)
      BY <1>6, <1>7, <3>1
    <3>3. v \in Int /\ v >= query.start - RefStep(query) /\ v <= RefStop(query) + RefStep(query)
      BY <1>3, <1>6, <1>7, <3>1
    <3> QED  BY <1>7, <3>2, <3>3, Limits DEF Int64
  <2> QED  BY <2>1, <2>2
<1>9. cur'.iValue = At(cur.iRowid)
  BY <1>4, <1>5, <1>8, WrapFits
<1>10. cur'.iRowid - 1 = cur.iRowid /\ cur'.iRowid \in Nat \ {0}
  BY <1>3, <1>5
<1>11. \A i \in 1..Len(rows') :
         rows'[i].value = At(i - 1) /\ rows'[i].value \in query.start..RefStop(query)
  BY <1>1, <1>2 DEF CursorInv
<1> QED  BY <1>1, <1>2, <1>5, <1>9, <1>10, <1>11, Fixed DEF CursorInv

LEMMA SInvNext == SInv /\ [Next]_vars => SInv'
<1> SUFFICES ASSUME SInv, [Next]_vars PROVE SInv'
  OBVIOUS
<1>1. TInv'
  BY TypeNext DEF SInv
<1>2. CASE seriesBestIndex
  BY <1>1, <1>2 DEF seriesBestIndex, SInv
<1>3. CASE seriesFilter
  <2>1. query' = query
    BY <1>3 DEF seriesFilter
  <2> QED  BY <1>1, <1>3, <2>1, FilterStep DEF SInv
<1>4. CASE seriesEof
  <2>1. query' = query
    BY <1>4 DEF seriesEof
  <2> QED  BY <1>1, <1>4, <2>1, EofStep DEF SInv
<1>5. CASE seriesColumn
  <2>1. query' = query
    BY <1>5 DEF seriesColumn
  <2> QED  BY <1>1, <1>5, <2>1, ColumnStep DEF SInv
<1>6. CASE seriesNext
  <2>1. query' = query
    BY <1>6 DEF seriesNext
  <2> QED  BY <1>1, <1>6, <2>1, NextStep DEF SInv
<1>7. CASE UNCHANGED vars
  <2>1. query' = query /\ plan' = plan /\ phase' = phase /\ cur' = cur /\ rows' = rows
    BY <1>7 DEF vars
  <2>2. CursorInv' <=> CursorInv
    BY <2>1, Fixed DEF CursorInv, AtEof
  <2> QED  BY <1>1, <2>1, <2>2 DEF SInv
<1> QED  BY <1>2, <1>3, <1>4, <1>5, <1>6, <1>7 DEF Next

LEMMA SInvAlways == Spec => []SInv
BY SInvInit, SInvNext, PTL DEF Spec
-----------------------------------------------------------------------------
(* What the rows are.                                                      *)

\* Two rows are in the order of their places.
LEMMA RowsInOrder ==
    ASSUME SInv PROVE OrderKept
<1> SUFFICES ASSUME WellBehaved(query), NEW i \in DOMAIN rows, NEW j \in DOMAIN rows, i < j
             PROVE  /\ plan.asc => rows[i].value < rows[j].value
                    /\ plan.desc => rows[i].value > rows[j].value
  BY DEF OrderKept
<1>1. TypeOK /\ rows \in Seq(RowType)
  BY DEF SInv, TInv, TypeOK
<1>2. i \in 1..Len(rows) /\ j \in 1..Len(rows) /\ rows # <<>>
  BY <1>1
<1>3. Planned /\ CursorInv
  <2>1. phase \in {"row", "moved", "eof"}
    BY <1>1, <1>2 DEF SInv, TInv, TypeOK
  <2> QED  BY <2>1 DEF SInv, TInv
<1>4. rows[i].value = At(i - 1) /\ rows[j].value = At(j - 1)
  BY <1>2, <1>3 DEF CursorInv
<1> DEFINE a == i - 1
           b == j - 1
<1>5. a \in Int /\ b \in Int /\ a < b
  BY <1>1, <1>2
<1> HIDE DEF a, b
<1>6. At(a) \in Int /\ At(b) \in Int /\ RefStep(query) \in Int /\ RefStep(query) > 0
  BY <1>1, <1>3, <1>5, AtFacts, Behaved, StepIsNat
<1>7. /\ ~Descending => At(a) + RefStep(query) <= At(b)
      /\ Descending => At(b) + RefStep(query) <= At(a)
  BY <1>1, <1>3, <1>5, AtOrder
<1>8. (plan.asc => ~Descending) /\ (plan.desc => Descending)
  BY <1>1, <1>3, Behaved
<1>9. rows[i].value = At(a) /\ rows[j].value = At(b)
  BY <1>4 DEF a, b
<1> QED  BY <1>6, <1>7, <1>8, <1>9

\* Every row is a member.
LEMMA RowIsMember ==
    ASSUME SInv, WellBehaved(query), CursorInv, Planned, NEW i \in 1..Len(rows)
    PROVE  rows[i].value \in Members(query)
<1> DEFINE n == RefStep(query)
           mn == query.start
           x == rows[i].value
<1>1. TypeOK /\ rows \in Seq(RowType)
  BY DEF SInv, TInv, TypeOK
<1>2. i - 1 \in Int /\ x = At(i - 1) /\ x \in mn..RefStop(query)
  BY DEF CursorInv
<1>3. n \in Nat /\ n > 0 /\ mn \in Int /\ Null \notin {query.start, query.stop, query.step}
  BY <1>1, Behaved, StepIsNat, Limits
<1>4. x \in Int
  BY <1>1, <1>2, AtFacts
<1> HIDE DEF n, mn, x
<1>5. \E k \in Int : x - mn = n * k
  <2>1. CASE ~Descending
    <3>1. First = mn /\ Stride = n
      BY <2>1 DEF First, Stride, mn, n
    <3>2. x = mn + (i - 1) * n
      BY <1>2, <3>1 DEF At
    <3>3. (i - 1) * n = n * (i - 1) /\ n * (i - 1) \in Int
      BY <1>2, <1>3
    <3> DEFINE p == n * (i - 1)
    <3>4. x = mn + p /\ p \in Int
      BY <3>2, <3>3
    <3> HIDE DEF p
    <3>5. x - mn = p
      BY <1>3, <3>4
    <3> QED  BY <1>2, <3>5 DEF p
  <2>2. CASE Descending
    <3>1. PICK d \in Nat : LastValue = mn + n * d
      BY <1>1, LastMember DEF mn, n
    <3>2. First = mn + n * d /\ Stride = -n
      BY <2>2, <3>1 DEF First, Stride, n
    <3>3. x = (mn + n * d) + (i - 1) * (-n)
      BY <1>2, <3>2 DEF At
    <3>4. (i - 1) * (-n) = -(n * (i - 1)) /\ n * (d - (i - 1)) = n * d - n * (i - 1)
      BY <1>2, <1>3
    <3> DEFINE p == n * (i - 1)
               q == n * d
    <3>5. p \in Int /\ q \in Int /\ x = (mn + q) + (-p) /\ n * (d - (i - 1)) = q - p
      BY <1>2, <1>3, <3>3, <3>4
    <3> HIDE DEF p, q
    <3>6. x - mn = n * (d - (i - 1))
      BY <1>3, <3>5
    <3>7. d - (i - 1) \in Int
      BY <1>2
    <3> QED  BY <3>6, <3>7
  <2> QED  BY <2>1, <2>2
<1>6. x - mn \in Int
  BY <1>3, <1>4
<1>7. (x - mn) % n = 0
  BY <1>3, <1>5, <1>6, Multiple
<1> QED  BY <1>2, <1>3, <1>7 DEF Members, x, mn, n

\* At the end of the scan every member has been a row.
LEMMA MemberIsRow ==
    ASSUME SInv, WellBehaved(query), CursorInv, Planned, phase = "eof",
           NEW x \in Members(query)
    PROVE  \E i \in 1..Len(rows) : rows[i].value = x
<1> DEFINE n == RefStep(query)
           mn == query.start
           mx == RefStop(query)
           m == Len(rows)
<1>1. TypeOK /\ rows \in Seq(RowType) /\ m \in Nat
  BY DEF SInv, TInv, TypeOK
<1>2. /\ n \in Nat /\ n > 0 /\ mn \in Int /\ mx \in Int
      /\ Null \notin {query.start, query.stop, query.step}
  BY <1>1, Behaved, StepIsNat, Limits
<1>3. x \in mn..mx /\ (x - mn) % n = 0
  BY <1>2 DEF Members
<1>4. cur.iValue = At(m) /\ AtEof(cur)
  BY <1>1 DEF CursorInv
<1>5. /\ ~Descending => At(m) > mx
      /\ Descending => At(m) < mn
  BY <1>4 DEF AtEof, CursorInv
<1>6. At(m) \in Int
  BY <1>1, AtFacts
<1> HIDE DEF n, mn, mx, m
<1>7. x \in Int /\ x - mn \in Int
  BY <1>2, <1>3
<1>8. PICK k \in Int : x - mn = n * k
  BY <1>2, <1>3, <1>7, Multiple
<1>9. \E j \in Int : x = At(j)
  <2>1. CASE ~Descending
    <3>1. First = mn /\ Stride = n
      BY <2>1 DEF First, Stride, mn, n
    <3>2. At(k) = mn + k * n
      BY <3>1 DEF At
    <3>3. k * n = n * k
      BY <1>2
    <3>4. At(k) = mn + (x - mn)
      BY <1>8, <3>2, <3>3
    <3> QED  BY <1>2, <1>7, <3>4
  <2>2. CASE Descending
    <3>1. PICK d \in Nat : LastValue = mn + n * d
      BY <1>1, LastMember DEF mn, n
    <3>2. First = mn + n * d /\ Stride = -n
      BY <2>2, <3>1 DEF First, Stride, n
    <3>3. At(d - k) = (mn + n * d) + (d - k) * (-n)
      BY <3>2 DEF At
    <3>4. (d - k) * (-n) = n * k - n * d
      BY <1>2
    <3> DEFINE p == n * k
               q == n * d
    <3>5. p \in Int /\ q \in Int /\ At(d - k) = (mn + q) + (p - q) /\ p = x - mn
      BY <1>2, <1>8, <3>3, <3>4
    <3> HIDE DEF p, q
    <3>6. At(d - k) = x /\ d - k \in Int
      BY <1>2, <1>7, <3>5
    <3> QED  BY <3>6
  <2> QED  BY <2>1, <2>2
<1>10. PICK j \in Int : x = At(j)
  BY <1>9
<1>11. At(0) = First /\ First \in Int
  BY <1>1, AtFacts
<1>12. j >= 0
  <2> SUFFICES ASSUME j < 0 PROVE FALSE
    BY <1>10
  <2>1. /\ ~Descending => At(j) + n <= At(0)
        /\ Descending => At(0) + n <= At(j)
    BY <1>1, AtOrder DEF n
  <2>2. LastValue \in mn..mx /\ mx < LastValue + n
    BY <1>1, LastMember DEF mn, mx, n
  <2>3. CASE ~Descending
    <3>1. At(0) = mn
      BY <1>11, <2>3 DEF First, mn
    <3> QED  BY <1>2, <1>3, <1>7, <1>10, <2>1, <2>3, <3>1
  <2>4. CASE Descending
    <3>1. At(0) = LastValue
      BY <1>11, <2>4 DEF First
    <3> QED  BY <1>2, <1>3, <1>7, <1>10, <2>1, <2>2, <2>4, <3>1
  <2> QED  BY <2>3, <2>4
<1>13. j < m
  <2>1. CASE j = m
    BY <1>2, <1>3, <1>5, <1>7, <1>10, <2>1
  <2>2. CASE m < j
    <3>1. /\ ~Descending => At(m) + n <= At(j)
          /\ Descending => At(j) + n <= At(m)
      BY <1>1, <2>2, AtOrder DEF n
    <3> QED  BY <1>2, <1>3, <1>5, <1>6, <1>7, <1>10, <3>1
  <2> QED  BY <1>1, <1>10, <2>1, <2>2
<1>14. j + 1 \in 1..m /\ (j + 1) - 1 = j
  BY <1>1, <1>12, <1>13
<1>15. rows[j + 1].value = At((j + 1) - 1)
  BY <1>14 DEF CursorInv, m
<1> QED  BY <1>10, <1>14, <1>15 DEF m

\* Each member of a well-behaved series is returned exactly once, for integers
\* of any width, in either direction.
THEOREM EachMemberOnce == Spec => []AllMembersOnce
<1>1. SInv => AllMembersOnce
  <2> SUFFICES ASSUME SInv, phase = "eof", WellBehaved(query)
               PROVE  /\ {rows[i].value : i \in DOMAIN rows} = Members(query)
                      /\ \A i, j \in DOMAIN rows : rows[i].value = rows[j].value => i = j
    BY DEF AllMembersOnce
  <2>1. TypeOK /\ Planned /\ CursorInv /\ rows \in Seq(RowType)
    BY DEF SInv, TInv, TypeOK
  <2>2. DOMAIN rows = 1..Len(rows) /\ Len(rows) \in Nat
    BY <2>1
  <2>3. \A i \in DOMAIN rows : rows[i].value \in Members(query)
    BY <2>1, <2>2, RowIsMember
  <2>4. \A x \in Members(query) : \E i \in DOMAIN rows : rows[i].value = x
    BY <2>1, <2>2, MemberIsRow
  <2>5. ASSUME NEW i \in DOMAIN rows, NEW j \in DOMAIN rows, i < j
        PROVE  rows[i].value # rows[j].value
    <3> DEFINE a == i - 1
               b == j - 1
    <3>1. a \in Int /\ b \in Int /\ a < b
      BY <2>2, <2>5
    <3>2. rows[i].value = At(a) /\ rows[j].value = At(b)
      BY <2>1, <2>2 DEF CursorInv
    <3> HIDE DEF a, b
    <3>3. At(a) \in Int /\ At(b) \in Int /\ RefStep(query) \in Int /\ RefStep(query) > 0
      BY <2>1, <3>1, AtFacts, Behaved, StepIsNat
    <3>4. /\ ~Descending => At(a) + RefStep(query) <= At(b)
          /\ Descending => At(b) + RefStep(query) <= At(a)
      BY <2>1, <3>1, AtOrder
    <3> QED  BY <3>2, <3>3, <3>4
  <2>6. \A i, j \in DOMAIN rows : rows[i].value = rows[j].value => i = j
    <3> SUFFICES ASSUME NEW i \in DOMAIN rows, NEW j \in DOMAIN rows, rows[i].value = rows[j].value
                 PROVE  i = j
      OBVIOUS
    <3>1. ~(i < j) /\ ~(j < i)
      BY <2>5
    <3> QED  BY <2>2, <3>1
  <2> QED  BY <2>3, <2>4, <2>6
<1> QED  BY <1>1, SInvAlways, PTL

\* When the plan took the ORDER BY over, the rows come in that order at every
\* moment of the scan, whatever the sign of the step.
THEOREM RowsKeepTheOrder == Spec => []OrderKept
<1>1. SInv => OrderKept
  BY RowsInOrder
<1> QED  BY <1>1, SInvAlways, PTL
-----------------------------------------------------------------------------
(* Scans with a NULL argument.                                             *)

\* The scans whose remainder puts them on the row 1.
Lifted == Descending /\ iStep > 1

Outside == phase # "row" /\ rows = <<>> /\ AtEof(cur)

OnOne ==
    /\ Lifted /\ cur.iValue = 1 /\ cur.iRowid = 1
    /\ \/ phase = "moved" /\ rows = <<>>
       \/ /\ phase = "row"
          /\ rows = <<>> \/ (Len(rows) = 1 /\ rows[1].value = 1)

Past == /\ Lifted /\ phase # "row" /\ AtEof(cur)
        /\ Len(rows) = 1 /\ rows[1].value = 1

NullScan ==
    /\ cur.isDesc = Descending /\ cur.iStep = iStep
    /\ cur.mnValue = 1 /\ cur.mxValue = 0
    /\ Outside \/ OnOne \/ Past

NInv == /\ TInv
        /\ HasNull /\ phase \in {"row", "moved", "eof"} => NullScan

\* Where a descending scan of the empty range from 1 to 0 starts.
LEMMA LastOfNone ==
    ASSUME TypeOK, Planned, HasNull
    PROVE  LastValue = IF iStep > 1 THEN 1 ELSE 0
<1>1. mnValue = 1 /\ mxValue = 0
  BY DEF mnValue, mxValue
<1>2. iStep \in (1..MaxInt) \cup {MinInt}
  BY StepType
<1>3. CASE iStep = MinInt
  BY <1>1, <1>3, Limits DEF LastValue
<1>4. CASE iStep \in 1..MaxInt
  <2> DEFINE n == iStep
             d == mxValue - mnValue
  <2>1. n \in Nat /\ n > 0 /\ n = iStep
    BY <1>4, StepIsNat
  <2>2. d = -1 /\ -1 \in Int64
    BY <1>1, Limits DEF Int64
  <2>3. Wrap(d) = -1
    BY <2>2, WrapFits
  <2>4. LastValue = Wrap(0 - Remainder(-1, n))
    BY <1>1, <2>1, <2>3 DEF LastValue
  <2>5. Remainder(-1, n) = -(1 % n)
    BY DEF Remainder
  <2> HIDE DEF n, d
  <2>6. 1 % n = IF n > 1 THEN 1 ELSE 0
    <3>1. CASE n > 1
      <4>1. 1 \in 0..(n - 1)
        BY <2>1, <3>1
      <4> QED  BY <2>1, <3>1, <4>1, ModSmall
    <3>2. CASE n = 1
      <4>1. 0 \in 0..(n - 1) /\ 1 = n * 1 + 0
        BY <3>2
      <4> QED  BY <2>1, <3>2, <4>1, ModUnique
    <3> QED  BY <2>1, <3>1, <3>2
  <2>7. 0 - Remainder(-1, n) = IF n > 1 THEN 1 ELSE 0
    BY <2>5, <2>6
  <2> QED  BY <2>1, <2>4, <2>7, WrapFits, Limits
<1> QED  BY <1>2, <1>3, <1>4

LEMMA NullFixed ==
    ASSUME query' = query, plan' = plan
    PROVE  /\ HasNull' = HasNull /\ Lifted' = Lifted
           /\ Descending' = Descending /\ iStep' = iStep
BY DEF HasNull, Lifted, Descending, GivenStep, iStep

LEMMA NullFilter ==
    ASSUME TInv, seriesFilter, HasNull PROVE NullScan'
<1>1. /\ phase = "filter" /\ phase' = "moved"
      /\ query' = query /\ plan' = plan /\ rows' = rows
      /\ cur' = [isDesc |-> Descending, iRowid |-> 1,
                 iValue |-> IF Descending THEN LastValue ELSE mnValue,
                 mnValue |-> mnValue, mxValue |-> mxValue, iStep |-> iStep]
  BY DEF seriesFilter
<1>2. TypeOK /\ Planned /\ rows = <<>>
  BY <1>1 DEF TInv
<1>3. /\ cur'.isDesc = Descending /\ cur'.iStep = iStep /\ cur'.iRowid = 1
      /\ cur'.mnValue = 1 /\ cur'.mxValue = 0
      /\ cur'.iValue = IF Descending THEN LastValue ELSE 1
  BY <1>1 DEF mnValue, mxValue
<1>4. LastValue = IF iStep > 1 THEN 1 ELSE 0
  BY <1>2, LastOfNone
<1>5. CASE Lifted
  <2>1. cur'.iValue = 1
    BY <1>3, <1>4, <1>5 DEF Lifted
  <2>2. OnOne'
    BY <1>1, <1>2, <1>3, <1>5, <2>1, NullFixed DEF OnOne
  <2> QED  BY <1>1, <1>3, <2>2, NullFixed DEF NullScan
<1>6. CASE ~Lifted
  <2>1. AtEof(cur)'
    BY <1>3, <1>4, <1>6 DEF Lifted, AtEof
  <2>2. Outside'
    BY <1>1, <1>2, <2>1 DEF Outside
  <2> QED  BY <1>1, <1>3, <2>2, NullFixed DEF NullScan
<1> QED  BY <1>5, <1>6

LEMMA NullEof ==
    ASSUME NInv, seriesEof, HasNull PROVE NullScan'
<1>1. /\ phase = "moved" /\ phase' = IF AtEof(cur) THEN "eof" ELSE "row"
      /\ query' = query /\ plan' = plan /\ cur' = cur /\ rows' = rows
  BY DEF seriesEof
<1>2. NullScan
  BY <1>1 DEF NInv
<1>3. AtEof(cur)' = AtEof(cur)
  BY <1>1 DEF AtEof
<1>4. OnOne => ~AtEof(cur)
  BY <1>2 DEF OnOne, NullScan, Lifted, AtEof
<1>5. (Outside \/ OnOne \/ Past)'
  BY <1>1, <1>2, <1>3, <1>4, NullFixed DEF NullScan, Outside, OnOne, Past
<1> QED  BY <1>1, <1>2, <1>5, NullFixed DEF NullScan

LEMMA NullColumn ==
    ASSUME NInv, seriesColumn, HasNull PROVE NullScan'
<1>1. /\ phase = "row" /\ phase' = phase /\ Len(rows) < cur.iRowid
      /\ query' = query /\ plan' = plan /\ cur' = cur
      /\ rows' = Append(rows, Row(cur))
  BY DEF seriesColumn
<1>2. NullScan /\ OnOne
  BY <1>1 DEF NInv, NullScan, Outside, Past
<1>3. rows = <<>>
  BY <1>1, <1>2 DEF OnOne
<1> DEFINE r == Row(cur)
<1>4. r.value = 1
  BY <1>2 DEF OnOne, Row
<1> HIDE DEF r
<1>5. Len(rows') = 1 /\ rows'[1] = r
  BY <1>1, <1>3 DEF r
<1>6. OnOne'
  BY <1>1, <1>2, <1>4, <1>5, NullFixed DEF OnOne
<1> QED  BY <1>1, <1>2, <1>6, NullFixed DEF NullScan

LEMMA NullNext ==
    ASSUME NInv, seriesNext, HasNull PROVE NullScan'
<1> DEFINE v == IF cur.isDesc THEN cur.iValue - cur.iStep
                              ELSE cur.iValue + cur.iStep
<1>1. /\ phase = "row" /\ phase' = "moved" /\ Len(rows) = cur.iRowid
      /\ query' = query /\ plan' = plan /\ rows' = rows
      /\ cur' = [cur EXCEPT !.iValue = Wrap(v), !.iRowid = @ + 1]
  BY DEF seriesNext
<1>2. TypeOK /\ Planned /\ cur \in CursorType /\ NullScan /\ OnOne
  BY <1>1 DEF NInv, TInv, TypeOK, NullScan, Outside, Past
<1>3. Len(rows) = 1 /\ rows[1].value = 1
  BY <1>1, <1>2 DEF OnOne
<1>4. /\ cur'.iValue = Wrap(v)
      /\ cur'.isDesc = cur.isDesc /\ cur'.mnValue = cur.mnValue
      /\ cur'.mxValue = cur.mxValue /\ cur'.iStep = cur.iStep
  BY <1>1, <1>2 DEF CursorType
<1>5. v = 1 - iStep /\ Descending /\ iStep > 1
  BY <1>2 DEF NullScan, OnOne, Lifted
<1> HIDE DEF v
<1>6. iStep \in (1..MaxInt) \cup {MinInt}
  BY <1>2, StepType
<1>7. v \in Int64 /\ v < 1
  BY <1>5, <1>6, Limits DEF Int64
<1>8. cur'.iValue < 1
  BY <1>4, <1>7, WrapFits
<1>9. AtEof(cur)'
  BY <1>2, <1>4, <1>5, <1>8 DEF AtEof, NullScan
<1>10. Past'
  BY <1>1, <1>2, <1>3, <1>9, NullFixed DEF Past, OnOne
<1> QED  BY <1>1, <1>2, <1>4, <1>10, NullFixed DEF NullScan

LEMMA NInvNext == NInv /\ [Next]_vars => NInv'
<1> SUFFICES ASSUME NInv, [Next]_vars PROVE NInv'
  OBVIOUS
<1>1. TInv /\ TInv'
  BY TypeNext DEF NInv
<1>2. CASE seriesBestIndex
  BY <1>1, <1>2 DEF seriesBestIndex, NInv
<1>3. CASE seriesFilter
  <2>1. query' = query /\ plan' = plan
    BY <1>3 DEF seriesFilter
  <2> QED  BY <1>1, <1>3, <2>1, NullFilter, NullFixed DEF NInv
<1>4. CASE seriesEof
  <2>1. query' = query /\ plan' = plan
    BY <1>4 DEF seriesEof
  <2> QED  BY <1>1, <1>4, <2>1, NullEof, NullFixed DEF NInv
<1>5. CASE seriesColumn
  <2>1. query' = query /\ plan' = plan
    BY <1>5 DEF seriesColumn
  <2> QED  BY <1>1, <1>5, <2>1, NullColumn, NullFixed DEF NInv
<1>6. CASE seriesNext
  <2>1. query' = query /\ plan' = plan
    BY <1>6 DEF seriesNext
  <2> QED  BY <1>1, <1>6, <2>1, NullNext, NullFixed DEF NInv
<1>7. CASE UNCHANGED vars
  <2>1. query' = query /\ plan' = plan /\ phase' = phase /\ cur' = cur /\ rows' = rows
    BY <1>7 DEF vars
  <2>2. (NullScan' <=> NullScan) /\ (HasNull' <=> HasNull)
    BY <2>1, NullFixed DEF NullScan, Outside, OnOne, Past, AtEof
  <2> QED  BY <1>1, <2>1, <2>2 DEF NInv
<1> QED  BY <1>2, <1>3, <1>4, <1>5, <1>6, <1>7 DEF Next

\* A query with a NULL argument returns no row, or the row 1 alone in a
\* descending scan by a step above 1, at any width of the integers.
THEOREM NullIsAlmostEmpty == Spec => []NullGivesAtMostOne
<1>1. Init => NInv
  BY TypeInit DEF Init, NInv
<1>2. NInv => NullGivesAtMostOne
  BY DEF NInv, TInv, TypeOK, NullScan, Outside, OnOne, Past, Lifted,
         NullGivesAtMostOne
<1> QED  BY <1>1, <1>2, NInvNext, PTL DEF Spec
=============================================================================
