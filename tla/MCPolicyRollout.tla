--------------------------- MODULE MCPolicyRollout ---------------------------
(* PolicyRollout on two policies that two change sets list in either order. *)
EXTENDS PolicyRollout, TLC

CONSTANTS p1, p2, c1, c2, edit1

EitherOrder == (c1 :> <<p1, p2>>) @@ (c2 :> <<p2, p1>>)

OnePolicy == [edit \in {edit1} |-> p1]

Symmetry == Permutations(Reviewers) \cup Permutations(Rollouts)
==============================================================================
