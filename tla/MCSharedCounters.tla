-------------------------- MODULE MCSharedCounters --------------------------
(* SharedCounters with a rule that warns, then steers, holds and blocks.     *)
EXTENDS SharedCounters, TLC

Ladder == {[count |-> 2, action |-> 5], [count |-> 3, action |-> 6]}

Symmetry == Permutations(Calls)
=============================================================================
