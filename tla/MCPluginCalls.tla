---------------------------- MODULE MCPluginCalls ---------------------------
(* The constants of the model-checking runs of PluginCalls.                *)
EXTENDS PluginCalls, TLC

Symmetry == Permutations(Grants) \cup Permutations(Calls)
=============================================================================
