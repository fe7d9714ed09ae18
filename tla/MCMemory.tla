------------------------------ MODULE MCMemory ------------------------------
(* An instance of Memory for TLC: one block free at first, so that the      *)
(* memory grows during every kind of call, up to a limit that is reached.   *)
EXTENDS Memory, TLC

Symmetry == Permutations(Conns) \cup Permutations(Stmts)
=============================================================================
