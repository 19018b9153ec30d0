------------------------ MODULE WorkspaceReferences ------------------------
(***************************************************************************)
(* The references a plugin inspects Workspace objects by                   *)
(* (plugin_workspace.rs) and a workspace.r.inspect call over them          *)
(* (invoke_workspace_plugin of workspace_plugins.rs).  A reference is       *)
(* issued from a snapshot and bound to the project, the Workspace identity *)
(* and the shape of the object; between the steps of a call R goes on      *)
(* running, is restarted, and the project changes.                         *)
(*                                                                         *)
(* A shape stands for name, classes, type and preview kind, of which the   *)
(* code takes a digest.                                                    *)
(***************************************************************************)
EXTENDS Integers, FiniteSets

CONSTANTS
    Names, Shapes,      \* of objects
    Roots,              \* projects
    MaxIds,             \* bound: references ever issued
    MaxEvents           \* bound: changes of the Workspace or the project

ASSUME ReferencesAssumption == IsFiniteSet(Names)

MAX_WORKSPACE_OBJECT_REFERENCES == 2    \* stands for 2000
MAX_SNAPSHOT_OBJECTS == 1               \* stands for 200

VARIABLES
    wroot, ws,     \* the project, and the identity of the Workspace
    objects,       \* its objects: name -> shape
    past,          \* history: what was ever true of an object
    refs,          \* the registry: id -> record
    ids,           \* ids given out
    snap,          \* a snapshot on its way to the registry, or NoSnap
    insp,          \* the call
    events

refvars == <<wroot, ws, objects, past, refs, ids, snap, insp, events>>

NoSnap == [at |-> "none"]
Identity == [kernel |-> 1, state |-> 0, project |-> 0]
NoCall == [step |-> "idle"]

Truths(r, w, o) == {<<r, w, n, o[n]>> : n \in Names}

RefInit ==
    /\ wroot \in Roots /\ ws = Identity
    /\ objects \in [Names -> Shapes]
    /\ past = Truths(wroot, ws, objects)
    /\ refs = [i \in {} |-> 0] /\ ids = 0
    /\ snap = NoSnap /\ insp = NoCall /\ events = 0

(***************************************************************************)
(* The Workspace                                                           *)
(***************************************************************************)

Becomes(r, w, o) ==
    /\ events < MaxEvents /\ events' = events + 1
    /\ wroot' = r /\ ws' = w /\ objects' = o
    /\ past' = past \cup Truths(r, w, o)
    /\ UNCHANGED <<ids, snap, insp>>

\* A mutation raises the state revision.
RunCode ==
    \E n \in Names : \E s \in Shapes :
        Becomes(wroot, [ws EXCEPT !.state = @ + 1], [objects EXCEPT ![n] = s]) /\ UNCHANGED refs

\* An R callback changes an object outside every request.
Callback ==
    \E n \in Names : \E s \in Shapes \ {objects[n]} :
        Becomes(wroot, ws, [objects EXCEPT ![n] = s]) /\ UNCHANGED refs

\* A restart starts a kernel of its own.
RestartKernel ==
    \E o \in [Names -> Shapes] : Becomes(wroot, [ws EXCEPT !.kernel = @ + 1, !.state = 0], o) /\ UNCHANGED refs

invalidate_project(r) == refs' = [i \in {j \in DOMAIN refs : refs[j].root # r} |-> refs[i]]

\* Another project: the references of the old one are forgotten.
ChangeProject ==
    \E r \in Roots \ {wroot} :
        Becomes(r, [ws EXCEPT !.project = @ + 1], objects) /\ invalidate_project(wroot)

(***************************************************************************)
(* Issuing                                                                 *)
(***************************************************************************)

\* The lineage without the revisions.
same_workspace_lineage_KernelOnly(l, r) == l.kernel = r.kernel

same_workspace_lineage(l, r) ==
    l.kernel = r.kernel /\ l.state = r.state /\ l.project = r.project

still == UNCHANGED <<wroot, ws, objects, past, insp, events>>

\* A caller takes its context, then has a snapshot made.
TakeContext == snap = NoSnap /\ snap' = [at |-> "asked", root |-> wroot, ws |-> ws] /\ UNCHANGED <<refs, ids>> /\ still

TakeSnapshot ==
    /\ snap.at = "asked"
    /\ \E ns \in SUBSET Names :
          snap' = [at |-> "taken", root |-> snap.root, ws |-> snap.ws, seen |-> ws,
                   objects |-> [n \in ns |-> objects[n]]]
    /\ UNCHANGED <<refs, ids>> /\ still

\* The ids of the objects of a snapshot.
Numbered(ns) == CHOOSE f \in [ids + 1 .. ids + Cardinality(ns) -> ns] : \A x \in ns : \E i \in DOMAIN f : f[i] = x

\* All of the objects get a reference, bound to the context, or none does: a
\* snapshot of another identity, one that is too large and one with a
\* duplicate or malformed object are refused.
issue_from_snapshot ==
    /\ snap.at = "taken" /\ snap' = NoSnap
    /\ \/ LET ns == DOMAIN snap.objects
              at == Numbered(ns)
          IN  /\ same_workspace_lineage(snap.seen, snap.ws)
              /\ Cardinality(ns) <= MAX_SNAPSHOT_OBJECTS
              /\ Cardinality(DOMAIN refs) + Cardinality(ns) <= MAX_WORKSPACE_OBJECT_REFERENCES
              /\ ids + Cardinality(ns) <= MaxIds
              /\ ids' = ids + Cardinality(ns)
              /\ refs' = [i \in DOMAIN refs \cup DOMAIN at |->
                             IF i \in DOMAIN refs THEN refs[i]
                             ELSE [root |-> snap.root, ws |-> snap.ws, name |-> at[i], shape |-> snap.objects[at[i]]]]
       \/ UNCHANGED <<refs, ids>>
    /\ still

\* The references a plugin is shown.
list_for_context(r, w) ==
    {i \in DOMAIN refs : refs[i].root = r /\ same_workspace_lineage(refs[i].ws, w)}

invalidate_workspace ==
    /\ refs' = [i \in {j \in DOMAIN refs : refs[j].ws # ws} |-> refs[i]]
    /\ refs' # refs
    /\ UNCHANGED <<ids, snap>> /\ still

(***************************************************************************)
(* A call                                                                  *)
(***************************************************************************)

rest == UNCHANGED <<wroot, ws, objects, past, refs, ids, snap, events>>

\* The call begins with the context of its caller and shows the guest its
\* references.
BeginInspect ==
    /\ insp = NoCall
    /\ insp' = [step |-> "guest", root |-> wroot, ws |-> ws, shown |-> list_for_context(wroot, ws)]
    /\ rest

Refused == insp' = NoCall /\ rest

\* prepare: the reference is known, of this project and this identity.  The
\* context is the one the call began with.
prepare(i) ==
    /\ insp.step = "guest"
    /\ IF i \in DOMAIN refs /\ refs[i].root = insp.root /\ same_workspace_lineage(refs[i].ws, insp.ws)
       THEN \E op \in {"metadata", "preview"} :
               insp' = [step |-> "prepared", root |-> insp.root, ws |-> insp.ws, record |-> refs[i], op |-> op] /\ rest
       ELSE Refused

\* dispatch: under the lock of the context the coordinator refuses a stale
\* expectation, runs the inspection and reads the identity.
DispatchInspection ==
    /\ insp.step = "prepared"
    /\ IF same_workspace_lineage(insp.ws, ws)
       THEN insp' = [step |-> "answered", root |-> insp.root, ws |-> insp.ws, record |-> insp.record,
                     op |-> insp.op, response |-> objects[insp.record.name], at |-> ws] /\ rest
       ELSE Refused

\* finish: record and response are of the identity after the dispatch, the
\* object has the shape its reference was issued for, and what is projected
\* fits its bound.
finish ==
    /\ insp.step = "answered"
    /\ \/ /\ same_workspace_lineage(insp.record.ws, insp.at)
          /\ insp.response = insp.record.shape
          /\ insp' = [insp EXCEPT !.step = "projected"] /\ rest
       \/ ~(same_workspace_lineage(insp.record.ws, insp.at) /\ insp.response = insp.record.shape) /\ Refused
       \/ insp.op = "preview" /\ Refused       \* ResultTooLarge, MalformedResult

\* The value is told; the call goes on with the guest.
DeliverInspection ==
    /\ insp.step = "projected"
    /\ insp' = [insp EXCEPT !.step = "delivered"]
    /\ rest

EndInspection == insp.step = "delivered" /\ Refused

RefNext ==
    \/ RunCode
    \/ Callback
    \/ RestartKernel
    \/ ChangeProject
    \/ TakeContext
    \/ TakeSnapshot
    \/ issue_from_snapshot
    \/ invalidate_workspace
    \/ BeginInspect
    \/ \E i \in 1 .. MaxIds : prepare(i)
    \/ DispatchInspection
    \/ finish
    \/ DeliverInspection
    \/ EndInspection

RefSpec == RefInit /\ [][RefNext]_refvars

(***************************************************************************)
(* Properties                                                              *)
(***************************************************************************)

\* A value told for a reference is of what the reference was issued for: the
\* same project, kernel and revisions, and the shape the object had then; and
\* the registry, within its limit, holds no reference that was never true.
ValuesAreOfTheirReference ==
    /\ insp.step \in {"projected", "delivered"} =>
          /\ insp.record.root = insp.root
          /\ insp.record.ws = insp.at
          /\ insp.response = insp.record.shape
    /\ \A i \in DOMAIN refs : <<refs[i].root, refs[i].ws, refs[i].name, refs[i].shape>> \in past
    /\ Cardinality(DOMAIN refs) <= MAX_WORKSPACE_OBJECT_REFERENCES
=============================================================================
