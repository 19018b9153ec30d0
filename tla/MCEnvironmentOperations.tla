----------------------- MODULE MCEnvironmentOperations -----------------------
(* Instances of EnvironmentOperations for TLC. *)
EXTENDS EnvironmentOperations, TLC

\* Nothing orders commands, request ids or environment contents.
Symmetry == Permutations(Commands) \cup Permutations(Requests) \cup Permutations(Evidences)

=============================================================================
