--------------------------- MODULE MCFileMutations ---------------------------
(* Instances of FileMutations for TLC. *)
EXTENDS FileMutations, TLC

CONSTANTS p1, p2, f1, x, y, z

\* Both proposals are about the one file.
MCPathOf == [p \in Proposals |-> f1]

\* p1 leaves y of any text but z; p2, which may be the create, only fits x (the
\* empty text) and leaves z, or y where there is no z.
MCEditOf == [p \in Proposals |-> [t \in Texts |->
               CASE p = p1 /\ t # z -> y
                 [] p = p2 /\ t = x -> IF z \in Texts THEN z ELSE y
                 [] OTHER -> Absent]]

Symmetry == Permutations(Mutations) \cup Permutations(Commands)

=============================================================================
