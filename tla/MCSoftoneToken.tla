--------------------------- MODULE MCSoftoneToken ---------------------------
(* Four calls and as many flows as calls, so that no start is ever held   *)
(* back by the bound.                                                      *)
EXTENDS SoftoneToken, TLC

Symmetry == Permutations(Callers) \cup Permutations(Flows)
=============================================================================
