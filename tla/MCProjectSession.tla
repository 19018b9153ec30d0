------------------------- MODULE MCProjectSession -------------------------
(* A small instance of ProjectSession. *)
EXTENDS ProjectSession, TLC

\* Projects are interchangeable.
Symmetry == Permutations(Roots) \cup Permutations(Jobs)

===========================================================================
