----------------------------- MODULE MCApproval -----------------------------
(***************************************************************************)
(* One call that one policy gates and one that two do; a held request, an  *)
(* approval issued ahead, and two workers racing to use either.            *)
(***************************************************************************)
EXTENDS Approval, TLC

CONSTANTS c1, c2, p1, p2

GatedCalls == (c1 :> {p1}) @@ (c2 :> {p1, p2})

Symmetry == Permutations(Workers)
=============================================================================
