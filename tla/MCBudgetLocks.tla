---------------------------- MODULE MCBudgetLocks ----------------------------
(***************************************************************************)
(* Three connections contend for two accounts and two request keys.        *)
(***************************************************************************)
EXTENDS BudgetLocks, TLC

Symmetry == Permutations(Requests) \cup Permutations(Transactions)
=============================================================================
