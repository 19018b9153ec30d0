-------------------------- MODULE MCPluginLifecycle --------------------------
(* Instances of PluginLifecycle for TLC. *)
EXTENDS PluginLifecycle, TLC

\* Nothing orders package digests.
Symmetry == Permutations(Digests)

=============================================================================
