-------------------------- MODULE MCProjectRequests --------------------------
(* ProjectRequests for TLC: people and threads are interchangeable.         *)
EXTENDS ProjectRequests, TLC

Symmetry == Permutations(User) \cup Permutations(Slot)
==============================================================================
