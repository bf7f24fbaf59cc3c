--------------------------- MODULE MCPolicyCache ---------------------------
(***************************************************************************)
(* Two writers and two evaluations.  Both writers may find no counter, so  *)
(* that one sets it back after the other's next write.                     *)
(***************************************************************************)
EXTENDS PolicyCache, TLC

Symmetry == Permutations(Writers) \cup Permutations(Readers)
=============================================================================
