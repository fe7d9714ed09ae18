------------------------------ MODULE MCSeries ------------------------------
(* Instances of Series for TLC.                                            *)
EXTENDS Series

\* Every query on the integers whose scan cannot run over the type.
BoundedQueries ==
    {q \in [start : MinInt..MaxInt, stop : (MinInt..MaxInt) \cup {NoArg},
            step : (MinInt..MaxInt) \cup {NoArg},
            order : {"none", "asc", "desc"}, usable : {TRUE}] : WellBehaved(q)}

\* Queries without a start, with one that is not an equality, and without a
\* usable plan.
OddQueries ==
    [start : {NoArg, NotEq, 1}, stop : {NoArg, 3}, step : {NoArg, -2},
     order : {"none", "desc"}, usable : BOOLEAN]

\* Queries with arguments that are NULL.
NullQueries ==
    {q \in [start : {1, Null}, stop : {3, NoArg, Null}, step : {MinInt, -7, -2, -1, 2, NoArg, Null},
            order : {"none", "asc", "desc"}, usable : {TRUE}] :
        Null \in {q.start, q.stop, q.step}}

AllQueries == BoundedQueries \cup OddQueries \cup NullQueries
=============================================================================
