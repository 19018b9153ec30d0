--------------------------- MODULE ExtensionScopes ---------------------------
(***************************************************************************)
(* The scopes of the internal extension runtime (rho-extension-runtime,     *)
(* lifecycle.rs): one application scope, and candidates for the project and *)
(* the Workspace slot.  A candidate is built beside the current tree and    *)
(* published by compare-and-swap under publication_gate; what it replaces,  *)
(* or the candidate itself when it loses, is quiesced (routing and task     *)
(* admission closed, leases and tasks drained until a deadline) and its     *)
(* children and effects are disposed.  Calls into a scope hold a lease that *)
(* is counted between two looks at the routing flag, without any lock.      *)
(***************************************************************************)
EXTENDS FiniteSets, Naturals, Sequences

CONSTANTS
    App,         \* the application scope
    Projects,    \* project scopes; every build makes a new generation
    Workspaces,  \* Workspace scopes
    Roots,       \* project ids: a generation's id is the one of its root
    Callers,     \* operations of the desktop on the scope manager
    Clients,     \* calls into a scope, and tasks its plugins spawn
    None         \* no scope, no root, no caller

ASSUME ScopesAssumption ==
    /\ App \notin Projects \cup Workspaces /\ Projects \cap Workspaces = {}
    /\ None \notin {App} \cup Projects \cup Workspaces \cup Roots \cup Callers
    /\ Callers \cap ({App} \cup Projects \cup Workspaces) = {}

Candidates == Projects \cup Workspaces
Scopes == {App} \cup Candidates

VARIABLES
    state,     \* ScopeSnapshot.state; "none": not built yet
    routing,   \* RegistryInner.routing
    id,        \* the root a candidate is for (for a Workspace: parent_id)
    children,  \* ScopeSnapshot.children
    slot,      \* ScopeManager.project and workspace
    gate,      \* who holds publication_gate
    call,      \* the operations
    disposal,  \* quiesce_and_dispose of a scope, under its dispose_gate
    late,      \* a deadline of the disposal expired, or its future was dropped
    lease,     \* the clients
    down       \* shutdown was asked for

vars == <<state, routing, id, children, slot, gate, call, disposal, late, lease, down>>
manager == <<id, slot, gate, call, down>>

Ended == {"disposed", "failed"}
States == {"none", "ready", "active", "quiescing", "disposing"} \cup Ended

NoCall == [kind |-> "none", p |-> None, w |-> None, expP |-> None, expW |-> None, queue |-> <<>>]
CallKinds == {"none", "dispose", "switch", "workspace"}

\* by: the call or the parent scope that runs the disposal; kids: the children
\* still to be disposed.
Idle == [step |-> "idle", by |-> None, kids |-> {}]
NoLease == [scope |-> None, step |-> "none"]

TypeOK ==
    /\ state \in [Scopes -> States] /\ routing \in [Scopes -> BOOLEAN]
    /\ id \in [Candidates -> Roots \cup {None}]
    /\ children \in [Scopes -> SUBSET Candidates]
    /\ slot \in [project : Projects \cup {None}, workspace : Workspaces \cup {None}]
    /\ gate \in Callers \cup {None}
    /\ call \in [Callers -> [kind : CallKinds, p : Projects \cup {None},
                             w : Workspaces \cup {None}, expP : Projects \cup {None},
                             expW : Workspaces \cup {None}, queue : Seq(Scopes)]]
    /\ disposal \in [Scopes -> [step : {"idle", "drain", "children"},
                                by : Callers \cup Scopes \cup {None}, kids : SUBSET Candidates]]
    /\ late \in [Scopes -> BOOLEAN]
    /\ lease \in [Clients -> [scope : Scopes \cup {None},
                              step : {"none", "looked", "counted", "granted", "task"}]]
    /\ down \in BOOLEAN

Init ==
    /\ state = [s \in Scopes |-> IF s = App THEN "active" ELSE "none"]
    /\ routing = [s \in Scopes |-> s = App]
    /\ id = [s \in Candidates |-> None]
    /\ children = [s \in Scopes |-> {}]
    /\ slot = [project |-> None, workspace |-> None]
    /\ gate = None /\ call = [c \in Callers |-> NoCall]
    /\ disposal = [s \in Scopes |-> Idle] /\ late = [s \in Scopes |-> FALSE]
    /\ lease = [c \in Clients |-> NoLease] /\ down = FALSE

Current == {App, slot.project, slot.workspace}

-----------------------------------------------------------------------------
(* Calls and tasks of a scope.                                             *)

ClientStep(c, l) ==
    /\ lease' = [lease EXCEPT ![c] = l]
    /\ UNCHANGED <<state, routing, children, disposal, late>> /\ UNCHANGED manager

\* RegistryHub::lease looks at routing, counts itself, and looks again.  The
\* scope was current when the caller loaded it and may be stale by now.
LeaseLooks(c) ==
    \E s \in Scopes : /\ lease[c].step = "none" /\ routing[s]
                      /\ ClientStep(c, [scope |-> s, step |-> "looked"])

LeaseCounts(c) ==
    lease[c].step = "looked" /\ ClientStep(c, [lease[c] EXCEPT !.step = "counted"])

\* Mutant: the second look is left out.
LeaseRechecks_Not(c) ==
    /\ lease[c].step = "counted" /\ ClientStep(c, [lease[c] EXCEPT !.step = "granted"])

LeaseRechecks(c) ==
    /\ lease[c].step = "counted"
    /\ ClientStep(c, IF routing[lease[c].scope] THEN [lease[c] EXCEPT !.step = "granted"] ELSE NoLease)

\* ScopedTaskTracker::spawn: admission is one look under a lock, open from the
\* build of the candidate on.
SpawnTask(c) ==
    \E s \in Scopes : /\ lease[c].step = "none" /\ state[s] \in {"ready", "active"}
                      /\ ClientStep(c, [scope |-> s, step |-> "task"])

\* The handler has returned and the lease is dropped, or the task has ended.
ClientEnds(c) == lease[c].step \in {"granted", "task"} /\ ClientStep(c, NoLease)

Holders(s) == {c \in Clients : lease[c].scope = s /\ lease[c].step \in {"counted", "granted", "task"}}

-----------------------------------------------------------------------------
(* ScopeSnapshot::quiesce_and_dispose.                                     *)

\* begin_quiesce closes routing and admission; a scope that is past ready and
\* active keeps its state.
Quiesced(st, s) == [st EXCEPT ![s] = IF @ \in {"ready", "active"} THEN "quiescing" ELSE @]

\* Whoever waits for the disposal of s: a call with s at the head of its queue,
\* or the parent that disposes its children.
Wants(o, s) == IF o \in Callers THEN call[o].queue # <<>> /\ Head(call[o].queue) = s
               ELSE disposal[o].step = "children" /\ s \in disposal[o].kids

DisposalStep(s, d) ==
    /\ disposal' = [disposal EXCEPT ![s] = d]
    /\ UNCHANGED <<children, lease>> /\ UNCHANGED manager

BeginDispose(o, s) ==
    /\ Wants(o, s) /\ disposal[s].step = "idle" /\ state[s] \notin Ended
    /\ o \in Scopes => \A k \in disposal[o].kids : disposal[k].by # o
    /\ state' = Quiesced(state, s) /\ routing' = [routing EXCEPT ![s] = FALSE]
    /\ DisposalStep(s, [step |-> "drain", by |-> o, kids |-> {}])
    /\ UNCHANGED late

Drained(s) ==
    /\ disposal[s].step = "drain" /\ Holders(s) = {}
    /\ state' = [state EXCEPT ![s] = "disposing"]
    /\ DisposalStep(s, [disposal[s] EXCEPT !.step = "children", !.kids = children[s]])
    /\ UNCHANGED <<routing, late>>

\* Mutant: nothing ends the wait for the leases.
DrainTimesOut_Never(s) == FALSE /\ UNCHANGED vars

DrainTimesOut(s) ==
    /\ disposal[s].step = "drain" /\ Holders(s) # {}
    /\ state' = [state EXCEPT ![s] = "disposing"] /\ late' = [late EXCEPT ![s] = TRUE]
    /\ DisposalStep(s, [disposal[s] EXCEPT !.step = "children", !.kids = children[s]])
    /\ UNCHANGED routing

\* The disposals that are part of the one of k: dropping its future drops them,
\* and what k owns is not reached any more.
Within(k) == {k} \cup {s \in Scopes : disposal[s].by = k}

\* A child has its report, or its share of the deadline is over and its future is
\* dropped where it stands.  Only a scope that is itself a child can have used up
\* its share before the child was begun.
ChildReports(s, k) ==
    /\ disposal[s].step = "children" /\ k \in disposal[s].kids /\ state[k] \in Ended
    /\ late' = [late EXCEPT ![s] = @ \/ state[k] = "failed"]
    /\ DisposalStep(s, [disposal[s] EXCEPT !.kids = @ \ {k}])
    /\ UNCHANGED <<state, routing>>

ChildTimesOut(s, k) ==
    /\ disposal[s].step = "children" /\ k \in disposal[s].kids /\ state[k] \notin Ended
    /\ disposal[k].step = "idle" => disposal[s].by \in Scopes /\ late[s]
    /\ LET dropped == IF disposal[k].by = s THEN Within(k) ELSE {}
       IN /\ disposal' = [t \in Scopes |-> IF t = s THEN [disposal[s] EXCEPT !.kids = @ \ {k}]
                                           ELSE IF t \in dropped THEN Idle ELSE disposal[t]]
          /\ late' = [t \in Scopes |-> late[t] \/ t \in {s, k} \cup dropped \cup children[k]]
    /\ UNCHANGED <<state, routing, children, lease>> /\ UNCHANGED manager

\* EffectStack::dispose runs the disposers, newest first, each within a deadline;
\* the report is kept and every later call gets it.
EffectsDisposed(s) ==
    /\ disposal[s].step = "children" /\ disposal[s].kids = {}
    /\ \E ok \in BOOLEAN :
        state' = [state EXCEPT ![s] = IF ok /\ ~late[s] THEN "disposed" ELSE "failed"]
    /\ DisposalStep(s, Idle)
    /\ UNCHANGED <<routing, late>>

-----------------------------------------------------------------------------
(* ScopeManager and its callers.                                           *)

NotDisposing == UNCHANGED <<disposal, late, lease>>

\* next_identity: one scope that was never built.
Fresh(kind) ==
    LET unused == {s \in kind : state[s] = "none"}
    IN IF unused = {} THEN {} ELSE {CHOOSE s \in unused : TRUE}

\* build_project_candidate and build_workspace_candidate: a new generation, whose
\* plugins' activation may fail and be rolled back on the spot.  The caller
\* remembers what it expects to replace.
Build(c, s, root, new) ==
    /\ state' = [state EXCEPT ![s] = "ready"] /\ id' = [id EXCEPT ![s] = root]
    /\ \/ call' = [call EXCEPT ![c] = new]
       \/ call' = [call EXCEPT ![c] = [NoCall EXCEPT !.kind = "dispose",
                                                     !.queue = IF new.p \in {s, None} THEN <<s>> ELSE <<s, new.p>>]]
    /\ UNCHANGED <<routing, children, slot, gate, down>> /\ NotDisposing

PrepareProject(c) ==
    /\ call[c].kind = "none" /\ ~down
    /\ \E p \in Fresh(Projects) : \E r \in Roots :
        Build(c, p, r, [NoCall EXCEPT !.kind = "switch", !.p = p, !.expP = slot.project,
                                      !.expW = slot.workspace])

\* A switch adds a Workspace candidate to its project candidate; a start builds
\* one for the current project.
PrepareWorkspace(c) ==
    \E w \in Fresh(Workspaces) :
        \/ /\ call[c].kind = "switch" /\ call[c].w = None
           /\ Build(c, w, id[call[c].p], [call[c] EXCEPT !.w = w])
        \/ /\ call[c].kind = "none" /\ ~down /\ slot.project # None
           /\ Build(c, w, id[slot.project], [NoCall EXCEPT !.kind = "workspace", !.w = w,
                                                           !.expW = slot.workspace])

\* A failed switch rolls its candidates back, without the publication gate.
Rollback(c) ==
    /\ call[c].kind = "switch"
    /\ call' = [call EXCEPT ![c] = [NoCall EXCEPT !.kind = "dispose",
                                        !.queue = IF call[c].w = None THEN <<call[c].p>> ELSE <<call[c].w, call[c].p>>]]
    /\ UNCHANGED <<state, routing, id, children, slot, gate, down>> /\ NotDisposing

\* The gate is kept until the queue of scopes to dispose is empty.
Holding(c, queue) ==
    /\ gate' = IF queue = <<>> THEN None ELSE c
    /\ call' = [call EXCEPT ![c] = IF queue = <<>> THEN NoCall
                                   ELSE [NoCall EXCEPT !.kind = "dispose", !.queue = queue]]
    /\ UNCHANGED <<id, down>> /\ NotDisposing

Replaced(s) == IF s = None THEN <<>> ELSE <<s>>

\* mark_active of the candidates, begin_quiesce of what they replace.
Activate(new, previous) ==
    /\ state' = [s \in Scopes |-> IF s \in new THEN "active"
                                  ELSE IF s = previous THEN Quiesced(state, s)[s] ELSE state[s]]
    /\ routing' = [s \in Scopes |-> (routing[s] \/ s \in new) /\ s # previous]

Reject(c, queue) == Holding(c, queue) /\ UNCHANGED <<state, routing, children, slot>>

PublishProject(c) ==
    /\ gate = None /\ call[c].kind = "switch" /\ call[c].w = None
    /\ LET p == call[c].p
       IN \/ /\ slot.workspace # None \/ slot.project # call[c].expP
             /\ Reject(c, <<p>>)
          \/ /\ slot.workspace = None /\ slot.project = call[c].expP
             /\ slot' = [slot EXCEPT !.project = p]
             /\ children' = [children EXCEPT ![App] = (@ \ {call[c].expP}) \cup {p}]
             /\ Activate({p}, call[c].expP)
             /\ Holding(c, Replaced(call[c].expP))

PublishWorkspace(c) ==
    /\ gate = None /\ call[c].kind = "workspace"
    /\ LET w == call[c].w
           fits == slot.project # None /\ id[w] = id[slot.project] /\ slot.workspace = call[c].expW
       IN \/ ~fits /\ Reject(c, <<w>>)
          \/ /\ fits
             /\ slot' = [slot EXCEPT !.workspace = w]
             /\ children' = [children EXCEPT ![slot.project] = (@ \ {call[c].expW}) \cup {w}]
             /\ Activate({w}, call[c].expW)
             /\ Holding(c, Replaced(call[c].expW))

\* Mutant: the new project does not own its Workspace scope.
PublishTree_Detached(c) ==
    /\ gate = None /\ call[c].kind = "switch" /\ call[c].w # None
    /\ LET p == call[c].p
           w == call[c].w
       IN /\ slot.project = call[c].expP /\ slot.workspace = call[c].expW
          /\ slot' = [project |-> p, workspace |-> w]
          /\ children' = [children EXCEPT ![App] = (@ \ {call[c].expP}) \cup {p}]
          /\ Activate({p, w}, call[c].expP)
          /\ Holding(c, Replaced(call[c].expP))

\* Both slots or none: the replaced Workspace scope is disposed as a child of the
\* replaced project scope.
PublishTree(c) ==
    /\ gate = None /\ call[c].kind = "switch" /\ call[c].w # None
    /\ LET p == call[c].p
           w == call[c].w
           owned == [children EXCEPT ![p] = @ \cup {w}]
       IN \/ /\ slot.project # call[c].expP \/ slot.workspace # call[c].expW
             /\ children' = owned /\ Holding(c, <<w, p>>)
             /\ UNCHANGED <<state, routing, slot>>
          \/ /\ slot.project = call[c].expP /\ slot.workspace = call[c].expW
             /\ slot' = [project |-> p, workspace |-> w]
             /\ children' = [owned EXCEPT ![App] = (@ \ {call[c].expP}) \cup {p}]
             /\ Activate({p, w}, call[c].expP)
             /\ Holding(c, Replaced(call[c].expP))

\* clear_project refuses while there is a Workspace scope; clear_workspace takes it
\* out of the current project.
ClearProject(c) ==
    /\ gate = None /\ call[c].kind = "none" /\ ~down
    /\ slot.project # None /\ slot.workspace = None
    /\ slot' = [slot EXCEPT !.project = None]
    /\ children' = [children EXCEPT ![App] = @ \ {slot.project}]
    /\ Activate({}, slot.project) /\ Holding(c, <<slot.project>>)

ClearWorkspace(c) ==
    /\ gate = None /\ call[c].kind = "none" /\ ~down /\ slot.workspace # None
    /\ slot' = [slot EXCEPT !.workspace = None]
    /\ children' = IF slot.project = None THEN children
                   ELSE [children EXCEPT ![slot.project] = @ \ {slot.workspace}]
    /\ Activate({}, slot.workspace) /\ Holding(c, <<slot.workspace>>)

\* shutdown runs when no other operation is under way (project_transition_gate),
\* and none begins after it.
Shutdown(c) ==
    /\ gate = None /\ ~down /\ \A d \in Callers : call[d].kind = "none"
    /\ down' = TRUE /\ gate' = c
    /\ call' = [call EXCEPT ![c] = [NoCall EXCEPT !.kind = "dispose", !.queue = <<App>>]]
    /\ UNCHANGED <<state, routing, id, children, slot>> /\ NotDisposing

\* The scope at the head of the queue has its report; the last one ends the call.
DisposeReported(c) ==
    /\ call[c].kind = "dispose" /\ state[Head(call[c].queue)] \in Ended
    /\ LET rest == Tail(call[c].queue)
       IN /\ call' = [call EXCEPT ![c] = IF rest = <<>> THEN NoCall ELSE [@ EXCEPT !.queue = rest]]
          /\ gate' = IF gate = c /\ rest = <<>> THEN None ELSE gate
    /\ UNCHANGED <<state, routing, id, children, slot, down>> /\ NotDisposing

ClientNext ==
    \E c \in Clients : LeaseLooks(c) \/ LeaseCounts(c) \/ LeaseRechecks(c) \/ SpawnTask(c) \/ ClientEnds(c)

DisposeNext ==
    \E s \in Scopes :
        \/ \E o \in Callers \cup Scopes : BeginDispose(o, s)
        \/ Drained(s) \/ DrainTimesOut(s) \/ EffectsDisposed(s)
        \/ \E k \in Candidates : ChildReports(s, k) \/ ChildTimesOut(s, k)

CallNext ==
    \E c \in Callers :
        \/ PrepareProject(c) \/ PrepareWorkspace(c) \/ Rollback(c)
        \/ PublishProject(c) \/ PublishWorkspace(c) \/ PublishTree(c)
        \/ ClearProject(c) \/ ClearWorkspace(c) \/ Shutdown(c)

CallEnds == \E c \in Callers : DisposeReported(c)

Next == ClientNext \/ DisposeNext \/ CallNext \/ CallEnds

\* The runtime goes on with disposals and returns from them; nothing makes a
\* client end, and nobody has to call.
Spec == Init /\ [][Next]_vars /\ WF_vars(DisposeNext \/ CallEnds)

-----------------------------------------------------------------------------
\* No effect of a scope is disposed under a call that was let in or a task, unless
\* a deadline expired: the two looks of lease() close the window between a
\* caller's first look and the count the drain waits for (RegistryHub::lease,
\* begin_quiesce, wait_for_idle).
CallsKeepEffects ==
    \A c \in Clients :
        lease[c].step \in {"granted", "task"} =>
            LET s == lease[c].scope IN state[s] \in {"ready", "active", "quiescing"} \/ late[s]

\* A scope that is neither current nor in the hands of a caller is closed and
\* disposed, but for what an expired deadline left; after a shutdown that also
\* holds of the current ones (publish_with, publish_project_tree, clear_*,
\* replace_child, quiesce_and_dispose).
NothingLeftBehind ==
    gate = None =>
        \A s \in Scopes :
            /\ \A c \in Callers : call[c].kind = "none"
            /\ s \notin Current \/ down
            => /\ state[s] \in Ended \cup {"none"} \/ late[s]
               /\ routing[s] => down

\* An operation gives publication_gate back, whatever the calls into a scope and
\* its tasks do (the deadlines of quiesce_and_dispose).
OperationsEnd == gate # None ~> gate = None

=============================================================================
