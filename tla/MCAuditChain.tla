---------------------------- MODULE MCAuditChain ----------------------------
(***************************************************************************)
(* Two writers append up to three records over two retention periods.      *)
(***************************************************************************)
EXTENDS AuditChain, TLC

Symmetry == Permutations(Writers) \cup Permutations(Contents)
=============================================================================
