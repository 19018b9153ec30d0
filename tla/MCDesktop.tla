----------------------------- MODULE MCDesktop -----------------------------
(***************************************************************************)
(* Parts of the desktop that share no state with one another, checked in   *)
(* one run: a behaviour is one of a single part, the others rest in one of *)
(* their initial states, so the state spaces add up and do not multiply.   *)
(***************************************************************************)
EXTENDS StoreMigration, ProjectRecords, AgentHistory, ModelAccess, GitReview

CONSTANTS P1, P2, A, B, M, N

VARIABLE part    \* the part this behaviour is about

others(p) ==
    /\ p # "migration" => UNCHANGED migvars
    /\ p # "records" => UNCHANGED recvars
    /\ p # "history" => UNCHANGED histvars
    /\ p # "models" => UNCHANGED modelvars
    /\ p # "git" => UNCHANGED gitvars

Init ==
    /\ part \in {"migration", "records", "history", "models", "git"}
    /\ MigInit /\ (part # "migration" => db = EmptyDb)
    /\ RecInit /\ project_root = P1
    /\ HistInit /\ hroot = P1 /\ (part # "history" => convs = 0)
    /\ ModelInit /\ A \in settings.providers /\ settings.routes["agent.chat"] = M
    /\ part # "models" => settings = default_settings(A, M)
    /\ GitInit /\ open = P1
    /\ repo[P1].index \in {Base, <<1, 0>>}
    /\ repo[P1].work \in (IF repo[P1].head = NoFile THEN {Base} ELSE {Base, Theirs, NoFile})
    /\ part # "git" => repo[P1] = [head |-> Base, index |-> Base, work |-> Base, inst |-> 0, commit |-> 1]

Next ==
    /\ \/ part = "migration" /\ MigNext
       \/ part = "records" /\ RecNext
       \/ part = "history" /\ HistNext
       \/ part = "models" /\ ModelNext
       \/ part = "git" /\ GitNext
    /\ others(part)
    /\ UNCHANGED part

Spec == Init /\ [][Next]_<<part, migvars, recvars, histvars, modelvars, gitvars>>

MCRows == {<<"runs", 1>>, <<"agent_turns", 1>>, <<"agent_turns", 2>>,
           <<"approval_requests", 1>>, <<"plot_artifacts", 1>>}
MCVersions == 6 .. 14
=============================================================================
