------------------------------ MODULE MCPager -------------------------------
(* Instances of Pager for TLC.                                             *)
EXTENDS Pager, TLC

PagerSymmetry == Permutations(Pagers)
=============================================================================
