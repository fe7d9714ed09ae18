------------------------------- MODULE Series -------------------------------
(***************************************************************************)
(* One scan of the generate_series(start, stop, step) virtual table of     *)
(* ext/misc/series.c: the plan xBestIndex picks, the cursor xFilter sets   *)
(* up, and the loop of xEof, xColumn and xNext that SQLite drives.         *)
(* Integers are the signed ones up to MaxInt (2^63 - 1 in the code): as    *)
(* compiled for WebAssembly, arithmetic wraps.                             *)
(***************************************************************************)
EXTENDS Integers, Sequences

CONSTANTS
    MaxInt,         \* the greatest sqlite3_int64: 2^(width - 1) - 1
    DefaultStop,    \* 0xffffffff
    NoArg,          \* an argument the query leaves out
    NotEq,          \* a start constrained otherwise than by an equality
    Null,           \* SQL NULL
    Queries,        \* the queries to run
    MaxRows         \* bound: rows taken from one scan

MinInt == -MaxInt - 1
Int64 == MinInt..MaxInt

(* "order" is the ORDER BY value clause of the query; "usable" says that    *)
(* some plan knows the arguments before the scan begins.                   *)
QueryType == [start : Int64 \cup {NoArg, NotEq, Null},
              stop : Int64 \cup {NoArg, Null}, step : Int64 \cup {NoArg, Null},
              order : {"none", "asc", "desc"}, usable : BOOLEAN]

ASSUME SeriesAssumption ==
    /\ MaxInt \in Nat \ {0}
    /\ DefaultStop \in Int64
    /\ NoArg \notin Int64 /\ NotEq \notin Int64 /\ Null \notin Int64
    /\ NoArg # Null /\ NotEq # Null
    /\ Queries \subseteq QueryType
    /\ MaxRows \in Nat

VARIABLES
    query,      \* the query being run
    phase,      \* "plan", "filter", "row" (on a row), "moved" (after xNext),
                \* "eof", or "error" (there is no plan)
    plan,       \* idxNum, and whether the ORDER BY was taken over
    cur,        \* the series_cursor
    rows        \* the rows handed out so far

vars == <<query, phase, plan, cur, rows>>

Wrap(x) == ((x - MinInt) % (2 * (MaxInt + 1))) + MinInt

\* The remainder of C, which takes the sign of the dividend (n > 0).
Remainder(x, n) == IF x >= 0 THEN x % n ELSE -((-x) % n)

\* sqlite3_value_int64: NULL is 0.
Value(arg) == IF arg = Null THEN 0 ELSE arg

Cursor0 == [isDesc |-> FALSE, iRowid |-> 0, iValue |-> 0,
            mnValue |-> 0, mxValue |-> 0, iStep |-> 0]

Init ==
    /\ query \in Queries
    /\ phase = "plan"
    /\ plan = [start |-> FALSE, stop |-> FALSE, step |-> FALSE,
               desc |-> FALSE, asc |-> FALSE]
    /\ cur = Cursor0
    /\ rows = <<>>

\* A start must be there, and the arguments usable.  ORDER BY is taken over
\* only when both bounds are given.
seriesBestIndex ==
    LET first == query.start \in Int64 \cup {Null}
        bounded == first /\ query.stop # NoArg
        possible == query.start # NoArg /\ query.usable
    IN  /\ phase = "plan"
        /\ \/ ~possible /\ phase' = "error" /\ UNCHANGED plan
           \/ /\ possible /\ phase' = "filter"
              /\ plan' = [start |-> first, stop |-> query.stop # NoArg,
                          step |-> query.step # NoArg,
                          desc |-> bounded /\ query.order = "desc",
                          asc |-> bounded /\ query.order = "asc"]
        /\ UNCHANGED <<query, cur, rows>>

\* The step as given: 0 counts as 1, and a negative one is made positive and
\* turns the direction, unless ascending order was promised.
GivenStep == IF plan.step THEN Value(query.step) ELSE 1

\* Mutant: a negative step stays negative.
iStep_Signed == IF GivenStep = 0 THEN 1 ELSE GivenStep

iStep == IF GivenStep = 0 THEN 1
         ELSE IF GivenStep < 0 THEN Wrap(-GivenStep) ELSE GivenStep

\* Mutant: ORDER BY value ASC does not undo the turn.
Descending_Step == plan.desc \/ GivenStep < 0

Descending == plan.desc \/ (GivenStep < 0 /\ ~plan.asc)

\* Some constraint is NULL: the bounds are crossed so that no row is in them.
HasNull == Null \in {query.start, query.stop, query.step}

mnValue == IF HasNull THEN 1 ELSE IF plan.start THEN query.start ELSE 0
\* Mutant: only the lower bound is moved for a NULL.
mxValue_Given == IF plan.stop THEN Value(query.stop) ELSE DefaultStop

mxValue == IF HasNull THEN 0 ELSE IF plan.stop THEN query.stop ELSE DefaultStop

\* Mutant: a descending scan starts at stop, member or not.
LastValue_Stop == mxValue

\* The highest value of the series, where a descending scan starts.
LastValue ==
    IF iStep > 0
    THEN Wrap(mxValue - Remainder(Wrap(mxValue - mnValue), iStep))
    ELSE mxValue

seriesFilter ==
    /\ phase = "filter"
    /\ cur' = [isDesc |-> Descending, iRowid |-> 1,
               iValue |-> IF Descending THEN LastValue ELSE mnValue,
               mnValue |-> mnValue, mxValue |-> mxValue, iStep |-> iStep]
    /\ phase' = "moved"
    /\ UNCHANGED <<query, plan, rows>>

\* Mutant: the scan ends where it meets its bound exactly.
AtEof_Exact(c) == c.iValue = (IF c.isDesc THEN c.mnValue ELSE c.mxValue)

AtEof(c) == IF c.isDesc THEN c.iValue < c.mnValue ELSE c.iValue > c.mxValue

seriesEof ==
    /\ phase = "moved"
    /\ phase' = IF AtEof(cur) THEN "eof" ELSE "row"
    /\ UNCHANGED <<query, plan, cur, rows>>

\* The columns of the row the cursor is on.
Row(c) == [value |-> c.iValue, start |-> c.mnValue, stop |-> c.mxValue,
           step |-> c.iStep]

\* xColumn: the row is handed out.
seriesColumn ==
    /\ phase = "row"
    /\ Len(rows) < cur.iRowid /\ Len(rows) < MaxRows
    /\ rows' = Append(rows, Row(cur))
    /\ UNCHANGED <<query, phase, plan, cur>>

seriesNext ==
    /\ phase = "row"
    /\ Len(rows) = cur.iRowid
    /\ cur' = [cur EXCEPT
                 !.iValue = Wrap(IF cur.isDesc THEN @ - cur.iStep
                                               ELSE @ + cur.iStep),
                 !.iRowid = @ + 1]
    /\ phase' = "moved"
    /\ UNCHANGED <<query, plan, rows>>

Next == seriesBestIndex \/ seriesFilter \/ seriesEof \/ seriesColumn \/ seriesNext

Spec == Init /\ [][Next]_vars

\* SQLite's loop over a virtual table calls the cursor until xEof is true.
FairSpec == Spec /\ WF_vars(Next)
-----------------------------------------------------------------------------
(* Reference: what a series is, from the arguments alone.                  *)

Size(x) == IF x < 0 THEN -x ELSE x

RefStep(q) == IF q.step = NoArg \/ q.step = 0 THEN 1 ELSE Size(q.step)

RefStop(q) == IF q.stop = NoArg THEN DefaultStop ELSE q.stop

\* start, start + step, ... up to stop; nothing when an argument is NULL.
Members(q) ==
    IF Null \in {q.start, q.stop, q.step} THEN {}
    ELSE {x \in q.start..RefStop(q) : (x - q.start) % RefStep(q) = 0}

\* The scan is bounded and steps past no representable value: the bounds are
\* not crossed, and one step beyond either of them is still an integer.
WellBehaved(q) ==
    /\ q.usable /\ q.start \in Int64 /\ Null \notin {q.stop, q.step}
    /\ q.start <= RefStop(q)
    /\ RefStop(q) - q.start \in Int64
    /\ q.start - RefStep(q) \in Int64
    /\ RefStop(q) + RefStep(q) \in Int64
-----------------------------------------------------------------------------
(* Properties.                                                             *)

\* The step is never negative, but for the one integer that has no negative.
StepsType == (0..MaxInt) \cup {MinInt}

CursorType == [isDesc : BOOLEAN, iRowid : Nat, iValue : Int64,
               mnValue : Int64, mxValue : Int64, iStep : StepsType]

RowType == [value : Int64, start : Int64, stop : Int64, step : StepsType]

TypeOK ==
    /\ query \in Queries
    /\ phase \in {"plan", "filter", "row", "moved", "eof", "error"}
    /\ plan \in [start : BOOLEAN, stop : BOOLEAN, step : BOOLEAN,
                 desc : BOOLEAN, asc : BOOLEAN]
    /\ cur \in CursorType
    /\ rows \in Seq(RowType)

\* At the end of a well-behaved scan each member of the series was returned
\* exactly once, whichever direction it was scanned in: a descending scan
\* finds the last member even where stop is not one.
AllMembersOnce ==
    phase = "eof" /\ WellBehaved(query)
       => /\ {rows[i].value : i \in DOMAIN rows} = Members(query)
          /\ \A i, j \in DOMAIN rows : rows[i].value = rows[j].value => i = j

\* When the plan takes over the ORDER BY, SQLite does not sort: the scan
\* itself must return the rows in that order, whatever the sign of the step.
OrderKept ==
    WellBehaved(query) => \A i, j \in DOMAIN rows : i < j =>
        /\ plan.asc => rows[i].value < rows[j].value
        /\ plan.desc => rows[i].value > rows[j].value

\* "If any of the constraints have a NULL value, then return no rows"
\* (series.c:287).  The crossed bounds of seriesFilter keep that, but for a
\* descending scan by a step above 1, which its remainder puts on the row 1:
\* that row is all such a query ever returns.
NullGivesAtMostOne ==
    HasNull => \/ rows = <<>>
               \/ /\ Len(rows) = 1 /\ rows[1].value = 1
                  /\ Descending /\ iStep > 1

\* A well-behaved scan ends.
Terminates == (WellBehaved(query) /\ phase = "plan") ~> (phase = "eof")
=============================================================================
