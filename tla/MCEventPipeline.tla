-------------------------- MODULE MCEventPipeline --------------------------
(***************************************************************************)
(* The agent's and the gateway's report of one call, or one report alone.  *)
(***************************************************************************)
EXTENDS EventPipeline, TLC

CONSTANTS e1, e2, call

OneCall == [e \in Events |-> call]
Tokens  == [e \in Events |-> IF e = e1 THEN 1 ELSE 2]

Symmetry == Permutations(Slots)
=============================================================================
