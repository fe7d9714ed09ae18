------------------------------- MODULE MCText -------------------------------
(* An instance of Text for TLC.                                            *)
EXTENDS Text

\* NUL, the ends of the ranges that take one, two and three bytes, the byte
\* order mark, the first and last lead and the last trail surrogate.
EdgeUnits ==
    {0, 127, 128, 2047, 2048, BOM, 65535, 55296, 56319, 57343}
=============================================================================
