-------------------------- MODULE MCAgentWorkspace --------------------------
(* Instances of AgentWorkspace for TLC. *)
EXTENDS AgentWorkspace, TLC

CONSTANTS t1, t2, t3, t4, c1, c2, c3

\* Turns of three Conversations; t3 is another turn in that of t2.
MCConvOf == [t \in Turns |-> CASE t = t1 -> c1 [] t \in {t2, t3} -> c2 [] OTHER -> c3]

\* Run ids are uuids: nothing orders them.  Used for safety only.
RunSymmetry == Permutations(Runs)

\* t1 and t4 are alone in their Conversations, t2 and t3 share one, and the state
\* holds no Conversation: renaming turns within a pair keeps every comparison of
\* ConvOf.
TurnSymmetry == Permutations({t1, t4}) \cup Permutations({t2, t3})

=============================================================================
