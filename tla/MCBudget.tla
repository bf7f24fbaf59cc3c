------------------------------ MODULE MCBudget ------------------------------
(***************************************************************************)
(* Two budgets, two requests over two months.  Both budgets can hold one   *)
(* request of the larger size; a cost of 3 is above every reservation.     *)
(***************************************************************************)
EXTENDS Budget, TLC

Symmetry == Permutations(Requests) \cup Permutations(Policies)
=============================================================================
