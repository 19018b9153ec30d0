--------------------------- MODULE BrokerIdentity ---------------------------
(***************************************************************************)
(* The broker's notion of "which Workspace R, at which revision"           *)
(* (crates/rho-protocol, crates/rho-core).  The workspace and kernel UUIDs *)
(* are drawn together when a Workspace starts, so one number, the          *)
(* generation of the Workspace, stands for both.                           *)
(***************************************************************************)
EXTENDS Integers

\* OperationClass
OperationClasses == {"probe", "state_capable", "project_mutation", "state_and_project"}

\* WorkspaceIdentity
Identities == [kernel : Nat, seq : Nat, state : Nat, project : Nat]

\* WorkspaceIdentity::new
NewIdentity(g) == [kernel |-> g, seq |-> 0, state |-> 0, project |-> 0]

\* WorkspaceIdentity::apply, which BrokerState::complete and project_changed call
Apply(id, class) ==
    [id EXCEPT !.seq = @ + 1,
               !.state = IF class \in {"state_capable", "state_and_project"} THEN @ + 1 ELSE @,
               !.project = IF class \in {"project_mutation", "state_and_project"} THEN @ + 1 ELSE @]

\* WorkspaceIdentity::check with every expectation given, as both the
\* desktop and Agent R send them: kernel, then state, then project revision.
Check(id, expected) ==
    /\ expected.kernel = id.kernel
    /\ expected.state = id.state
    /\ expected.project = id.project

=============================================================================
