----------------------------- MODULE MCStatement -----------------------------
(* An instance of Statement for TLC.                                       *)
EXTENDS Statement, TLC

Sql(kind, rows, conflict, returning) ==
    [kind |-> kind, rows |-> rows, onConflict |-> conflict,
     returning |-> returning, name |-> "a"]

Texts == {Sql("insert", <<1, 2>>, "abort", FALSE),
          Sql("insert", <<1>>, "fail", TRUE),
          Sql("select", <<>>, "abort", FALSE)}

Array(values) ==
    [named |-> FALSE,
     items |-> [i \in DOMAIN values |-> [param |-> i, value |-> values[i]]]]

Object(params, values) ==
    [named |-> TRUE,
     items |-> [i \in DOMAIN values |-> [param |-> params[i], value |-> values[i]]]]

\* Full, short, too long and partly bad lists; parameter 9 does not exist.
ArgLists == {Array(<<3>>), Array(<<4, 3>>), Array(<<3, Unsupported>>),
             Array(<<4, Null, 3>>),
             Object(<<2, 9>>, <<4, 3>>), Object(<<9, 1>>, <<Unsupported, 3>>)}
=============================================================================
