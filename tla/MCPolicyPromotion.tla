------------------------- MODULE MCPolicyPromotion -------------------------
(***************************************************************************)
(* The writers and evaluations of MCPolicyCache, and what operators were   *)
(* told.                                                                   *)
(***************************************************************************)
EXTENDS PolicySaves, TLC

Symmetry == Permutations(Writers) \cup Permutations(Readers)
=============================================================================
