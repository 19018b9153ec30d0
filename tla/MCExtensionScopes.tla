------------------------ MODULE MCExtensionScopes ------------------------
(* A small instance of ExtensionScopes. *)
EXTENDS ExtensionScopes, TLC

Symmetry == Permutations(Projects) \cup Permutations(Workspaces) \cup Permutations(Roots)
            \cup Permutations(Callers) \cup Permutations(Clients)

==========================================================================
