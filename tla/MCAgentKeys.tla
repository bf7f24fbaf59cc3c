----------------------------- MODULE MCAgentKeys -----------------------------
(* AgentKeys on one agent id that an install, a bootstrap token and an        *)
(* operator may take.  A mutation of the portal that reads an object saves it *)
(* before the clock ticks: a bound.                                           *)
EXTENDS AgentKeys, TLC

SavedWithinTick == now' # now => \A p \in Portals : portal[p].stage # "read"

Symmetry == Permutations(Requests)
==============================================================================
