-------------------------- MODULE MCProjectOrdering --------------------------
(* ProjectOrdering for TLC: users are interchangeable.                      *)
EXTENDS ProjectOrdering, TLC

UserSymmetry == Permutations(User)
==============================================================================
