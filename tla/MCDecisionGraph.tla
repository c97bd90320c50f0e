--------------------------- MODULE MCDecisionGraph ---------------------------
(***************************************************************************)
(* The decision graph on small sets; passages and queries are exchangeable.*)
(***************************************************************************)
EXTENDS DecisionGraph, TLC

GraphSymmetry == Permutations(Claims) \cup Permutations(Queries) \cup Permutations(Passages)
=============================================================================
