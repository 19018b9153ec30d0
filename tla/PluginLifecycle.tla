--------------------------- MODULE PluginLifecycle ---------------------------
(***************************************************************************)
(* Enabling, updating, rolling back, disabling, uninstalling and restoring *)
(* one Workspace plugin, and its reconciliation after a restart            *)
(* (desktop/src-tauri/src/workspace_plugins.rs), over the durable rows of  *)
(* PluginStore and the package files                                       *)
(* (crates/rho-server/src/plugin_package_trash.rs, plugin_retention.rs).   *)
(*                                                                         *)
(* The lane is the call that holds the registry's mutex; the gate is the   *)
(* call that holds project_transition_gate.  Every store write is a step,  *)
(* may fail without effect, and the process may die between two steps.     *)
(***************************************************************************)
EXTENDS PluginStore

CONSTANTS
    MaxEdits,     \* bound on the user's changes of the package in the project
    MaxFaults     \* bound on failing writes and process deaths

ASSUME LifecycleAssumption == MaxEdits \in Nat /\ MaxFaults \in Nat

VARIABLES
    active,     \* RegistryState::active: the running host of the plugin
    pend,       \* RegistryState::pending: an activation that waits for permissions
    asked,      \* the digest an enable discovered before it takes the mutex
    lane,       \* the call that holds the registry's mutex
    gate,       \* the call that holds the project gate
    block,      \* persist_recovery_block: no, wanted, or the transition it requested
    dead,       \* a crashed host whose crash is not recorded yet
    source,     \* the package in the project's plugin directory
    cache,      \* the packages in the package cache
    trash,      \* the trash directory of each key
    purging,    \* the quarantined directory of each key
    marker,     \* purge markers
    edits, faults

memVars == <<active, pend, asked, lane, block, dead>>
fileVars == <<source, cache, trash, purging, marker>>
vars == <<storeVars, memVars, gate, fileVars, edits, faults>>

Host(d, n) == [digest |-> d, host |-> n]
NoHost == Host(None, 0)

Pending(op, i, d) == [op |-> op, i |-> i, digest |-> d, answer |-> "open"]
NoPending == [op |-> "none", i |-> 0, digest |-> None, answer |-> "open"]

Call(op, step, i, d) == [op |-> op, step |-> step, i |-> i, digest |-> d]
Idle == Call("none", "none", 0, None)

NoBlock == [state |-> "no", i |-> 0]
WantBlock == [state |-> "wanted", i |-> 0]

Recoveries == {"recover", "recache"}       \* reactivation from the project, from the cache
Activations == {"enable", "retry"} \cup Recoveries \cup Replacements
Teardowns == {"disable"} \cup Boundaries
LaneSteps == {"none", "preflight", "cache", "plan", "allocate", "grants", "candidate", "swap",
              "commit", "close", "request", "routing_closed", "calls_drained",
              "handles_revoked", "contributions_disposed", "host_disposed", "completed",
              "uncertain", "judge", "reactivate", "blocking"}
GateSteps == {"none", "disable", "disabling", "recheck", "request", "move", "record", "complete",
              "restore", "mark", "rename", "delete", "purged", "teardown", "tearing", "files",
              "purges", "discover", "judging"}

\* The types of the state.
TypeOK ==
    /\ row \in Rows
    /\ trans \in [Ids -> Transitions]
    /\ tomb \in [Ids -> Tombstones]
    /\ crashes \in 0 .. CrashLimit
    /\ active \in [digest : Optional, host : Nat]
    /\ pend \in [op : Activations \cup {"none"}, i : Refs, digest : Optional,
                 answer : {"open", "granted", "denied"}]
    /\ asked \in Optional
    /\ lane \in [op : Activations \cup Teardowns \cup {"none"}, step : LaneSteps, i : Refs,
                 digest : Optional]
    /\ gate \in [op : {"none", "uninstall", "restore", "purge", "reconcile"} \cup Boundaries,
                 step : GateSteps, i : Refs, digest : Optional]
    /\ block \in [state : {"no", "wanted", "requested"}, i : Refs]
    /\ dead \in [digest : Optional, host : Nat]
    /\ source \in Optional
    /\ cache \subseteq Digests
    /\ trash \in [Ids -> Optional]
    /\ purging \in [Ids -> {"none", "whole", "partial"}]
    /\ marker \subseteq Ids
    /\ edits \in 0 .. MaxEdits
    /\ faults \in 0 .. MaxFaults

Init ==
    /\ StoreInit
    /\ active = NoHost /\ pend = NoPending /\ asked = None
    /\ lane = Idle /\ gate = Idle /\ block = NoBlock /\ dead = NoHost
    /\ source \in Digests /\ cache = {}
    /\ trash = [i \in Ids |-> None]
    /\ purging = [i \in Ids |-> "none"]
    /\ marker = {}
    /\ edits = 0 /\ faults = 0

-----------------------------------------------------------------------------
(* Helpers *)

Goto(step) == lane' = [lane EXCEPT !.step = step]
Fault == faults < MaxFaults /\ faults' = faults + 1
NoFault == UNCHANGED faults
KeepFiles == UNCHANGED fileVars
KeepRest == UNCHANGED <<asked, block, dead, gate, edits>>
NextId == Cardinality(Requested) + 1

\* failure_observed_state, and what each call records when it fails early
FailureState(op) ==
    CASE op = "retry" -> "crashed"
      [] op = "upgrade" -> "update_pending"
      [] op = "rollback" -> "rollback_pending"
      [] OTHER -> "disabled"

\* Failures that are recorded on the transition, by the step that failed.  Of the others
\* the transition stays open.
Recorded(op, step) ==
    CASE step = "preflight" -> "open"
      [] step = "cache" -> CASE op \in Recoveries -> "blocked"
                             [] op = "rollback" -> "open"
                             [] OTHER -> FailureState(op)
      [] step = "plan" -> IF op \in Recoveries THEN "blocked" ELSE FailureState(op)
      [] step \in {"allocate", "grants"} ->
             IF op \in Replacements THEN "update_pending" ELSE FailureState(op)
      [] step = "candidate" -> IF op \in Replacements THEN "open" ELSE FailureState(op)
      [] step = "swap" -> IF op \in Replacements THEN "update_pending" ELSE "open"
      [] OTHER -> "open"

\* The observed state of the phases before the candidate
Preparing(op) == IF op = "rollback" THEN "rollback_pending" ELSE "resolving"

-----------------------------------------------------------------------------
(* The call that activates a package: one phase of its transition a step *)

Step(step, next, A) ==
    /\ lane.op \in Activations /\ lane.step = step
    /\ A
    /\ Goto(next) /\ NoFault /\ KeepRest

Preflight == Step("preflight", "cache",
    /\ Advance(lane.i, "requested", "preflight", "running", Preparing(lane.op), 0)
    /\ UNCHANGED <<active, pend, fileVars>>)

FromSource == lane.op \notin {"rollback", "recache"}
Preparable == IF FromSource THEN source = lane.digest ELSE lane.digest \in cache

\* prepare_exact copies the package of the project; load_exact reads what is cached
Prepare == Step("cache", "plan",
    /\ Preparable
    /\ cache' = cache \cup {lane.digest}
    /\ Advance(lane.i, "preflight", "backup_prepared", "running", Preparing(lane.op), 0)
    /\ UNCHANGED <<active, pend, source, trash, purging, marker>>)

\* The permissions the durable grants do not cover are asked for; the mutex is released
Ask ==
    /\ lane.op \in Activations /\ lane.step = "plan"
    /\ pend' = Pending(IF lane.op \in Recoveries THEN "enable" ELSE lane.op, lane.i, lane.digest)
    /\ lane' = Idle
    /\ UNCHANGED <<storeVars, active, fileVars>> /\ NoFault /\ KeepRest

Planned == Step("plan", "allocate", UNCHANGED <<storeVars, active, pend, fileVars>>)

AllocateGeneration == Step("allocate", "grants",
    Allocate(lane.i) /\ UNCHANGED <<active, pend, fileVars>>)

GrantsReady == Step("grants", "candidate",
    /\ Advance(lane.i, "backup_prepared", "grants_ready", "running", "resolving", 0)
    /\ UNCHANGED <<active, pend, fileVars>>)

\* The host runs and holds its handles; it is journaled before it is routable
CandidateActivated == Step("candidate", "swap",
    /\ Advance(lane.i, "grants_ready", "candidate_activated", "running", "activating", row.gen)
    /\ UNCHANGED <<active, pend, fileVars>>)

\* Contributions are published and the registry's pointer swapped, then journaled
SwapPointer == Step("swap", "commit",
    /\ active' = Host(lane.digest, row.gen)
    /\ Advance(lane.i, "candidate_activated", "pointer_swapped", "running", "activating", row.gen)
    /\ UNCHANGED <<pend, fileVars>>)

\* The terminal write.  A replacement ignores the outcome Stale
Commit ==
    /\ lane.op \in Activations /\ lane.step = "commit"
    /\ IF lane.op \in Replacements
       THEN \/ CompleteReplacement(lane.i, row.gen)
            \/ ~Replaceable(lane.i) /\ UNCHANGED storeVars
       ELSE Accept(lane.i, lane.digest, row.gen)
    /\ pend' = NoPending /\ lane' = Idle
    /\ UNCHANGED <<active, fileVars>> /\ NoFault /\ KeepRest

\* The heartbeat monitor closes a transition without the mutex: its next write is stale
StaleStep ==
    /\ ~IsOpen(lane.i) /\ lane.step # "plan"
    /\ ~(lane.op \in Replacements /\ lane.step = "commit")

\* A step fails: a write is refused, the package changed or the host does not start.  What
\* the call then records may fail as well.  A route that was published is closed.
ActivationFails ==
    /\ lane.op \in Activations /\ lane.step \notin {"judge", "reactivate", "blocking"}
    /\ Fault \/ (NoFault /\ (StaleStep \/ (lane.step = "cache" /\ ~Preparable)))
    /\ \/ UNCHANGED storeVars
       \/ /\ Recorded(lane.op, lane.step) # "open"
          /\ Fail(lane.i, Recorded(lane.op, lane.step), FALSE)
    /\ active' = IF lane.step \in {"swap", "commit"} THEN NoHost ELSE active
    /\ pend' = NoPending /\ lane' = Idle
    /\ KeepFiles /\ KeepRest

\* The old host does not quiesce, or the contributions are refused: nothing was published
PublishFails ==
    /\ lane.op \in Activations /\ lane.step = "swap"
    /\ Fault
    /\ \/ UNCHANGED storeVars
       \/ Fail(lane.i, IF lane.op \in Replacements THEN "update_pending" ELSE FailureState(lane.op),
               FALSE)
    /\ lane' = Idle /\ pend' = NoPending
    /\ UNCHANGED <<active, fileVars>> /\ KeepRest

-----------------------------------------------------------------------------
(* The calls that start it *)

Locks == lane = Idle
Reconciling(step) == gate.op = "reconcile" /\ gate.step = step
KeepOthers == UNCHANGED <<fileVars, block, dead, gate, edits>>

\* A call that was refused, or whose first write was
Refused == UNCHANGED <<storeVars, lane>>

Begin(op, kind, old, d) ==
    /\ Request(NextId, kind, old, d)
    /\ lane' = Call(op, "preflight", NextId, d)

\* request_enable discovers and records the package before it takes the mutex
EnableDiscovers ==
    /\ asked = None /\ source # None
    /\ Discover(source)
    /\ asked' = source
    /\ UNCHANGED <<active, pend, lane>> /\ KeepOthers /\ NoFault

AlreadyEnabled(d) ==
    /\ active.digest = d /\ row.accepted = d
    /\ row.desired = "enabled" /\ row.observed = "active"
ChangedSince(d) == row.accepted \notin {None, d} \/ active.digest \notin {None, d}

\* The rest of request_enable: the running host is stopped before the transition is requested
Enable ==
    /\ Locks /\ asked # None
    /\ asked' = None
    /\ IF AlreadyEnabled(asked) \/ ChangedSince(asked) \/ pend.digest = asked
       THEN Refused /\ UNCHANGED <<active, pend>>
       ELSE /\ active' = NoHost /\ pend' = NoPending
            /\ IF Requestable("enable", None, asked) THEN Begin("enable", "enable", None, asked)
                                                     ELSE Refused
    /\ KeepOthers /\ NoFault

\* retry
Retry ==
    /\ Locks
    /\ row.desired = "enabled" /\ row.observed = "crashed"
    /\ active = NoHost /\ row.accepted # None /\ source = row.accepted
    /\ Begin("retry", "retry", None, source)
    /\ UNCHANGED <<active, pend, asked>> /\ KeepOthers /\ NoFault

\* request_update, with the pointers the interface showed
Update ==
    /\ Locks /\ gate = Idle
    /\ row.desired = "enabled" /\ row.observed = "update_pending"
    /\ row.accepted # None /\ row.pending # None /\ source = row.pending
    /\ active.digest = row.accepted /\ pend = NoPending
    /\ Begin("upgrade", "upgrade", row.accepted, source)
    /\ UNCHANGED <<active, pend, asked>> /\ KeepOthers /\ NoFault

\* request_rollback
Rollback ==
    /\ Locks /\ gate = Idle
    /\ row.desired = "enabled" /\ row.observed = "active"
    /\ row.accepted # None /\ source = row.accepted /\ row.rollback \in cache
    /\ active.digest = row.accepted /\ pend = NoPending
    /\ Begin("rollback", "rollback", row.accepted, row.rollback)
    /\ UNCHANGED <<active, pend, asked>> /\ KeepOthers /\ NoFault

\* respond, first half: the user's decision on the last open request is stored
Answer(decision) ==
    /\ pend # NoPending /\ pend.answer = "open"
    /\ pend' = [pend EXCEPT !.answer = decision]
    /\ UNCHANGED <<storeVars, active, asked, lane>> /\ KeepOthers /\ NoFault

\* The package a pending activation was reviewed for is still there
StillReviewed ==
    IF pend.op = "rollback" THEN source = trans[pend.i].old /\ pend.digest \in cache
                            ELSE source = pend.digest

\* try_activate_pending
ActivatePending ==
    /\ Locks /\ pend.answer # "open"
    /\ pend' = NoPending
    /\ CASE pend.answer = "denied" ->
               lane' = Idle /\ Fail(pend.i, FailureState(pend.op), FALSE)
         [] pend.answer = "granted" /\ ~StillReviewed ->
               /\ lane' = Idle
               /\ Fail(pend.i, IF pend.op = "rollback" THEN "rollback_pending"
                                                      ELSE "update_pending", FALSE)
         [] OTHER ->
               /\ UNCHANGED storeVars
               /\ lane' = IF pend.op \in Replacements /\ active.digest # trans[pend.i].old
                          THEN Idle
                          ELSE Call(pend.op, "allocate", pend.i, pend.digest)
    /\ UNCHANGED <<active, asked>> /\ KeepOthers /\ NoFault

-----------------------------------------------------------------------------
(* teardown_plugin: disable, project_teardown and shutdown *)

AlreadyTornDown(kind) ==
    /\ active = NoHost /\ pend = NoPending
    /\ IF kind = "disable"
       THEN row.desired = "disabled" /\ row.observed \in {"disabled", "stopped"}
       ELSE row.observed = "stopped"

\* A call of the gate that waits for a teardown goes on when it ends
GateResumes ==
    gate' = CASE gate.step = "disabling" -> [gate EXCEPT !.step = "recheck"]
              [] gate.step = "tearing" -> Call("reconcile", "files", 0, None)
              [] OTHER -> gate
TeardownEnds == lane' = Idle /\ GateResumes
TeardownFrame == UNCHANGED <<asked, block, dead, fileVars, edits>>

\* The open transition of the plugin is failed before the new one is requested
BeginTeardown(kind) ==
    /\ Locks /\ row.known
    /\ ~AlreadyTornDown(kind)
    /\ lane' = Call(kind, IF IsOpen(row.tr) THEN "close" ELSE "request", row.tr, None)

Disable ==
    /\ BeginTeardown("disable")
    /\ UNCHANGED <<storeVars, active, pend, gate>> /\ TeardownFrame /\ NoFault

CloseOpen ==
    /\ lane.op \in Teardowns /\ lane.step = "close"
    /\ Fail(lane.i, "disabled", FALSE)
    /\ Goto("request")
    /\ UNCHANGED <<active, pend, gate>> /\ TeardownFrame /\ NoFault

\* The transition is durable before the registry forgets the plugin
RequestTeardown ==
    /\ lane.op \in Teardowns /\ lane.step = "request"
    /\ Request(NextId, lane.op, row.accepted, None)
    /\ lane' = Call(lane.op, "routing_closed", NextId, None)
    /\ active' = NoHost /\ pend' = NoPending
    /\ UNCHANGED gate /\ TeardownFrame /\ NoFault

\* The phases, the state each shows and the next one
Teardown == [routing_closed |-> [from |-> "requested", shows |-> "quiescing", next |-> "calls_drained"],
             calls_drained |-> [from |-> "routing_closed", shows |-> "quiescing",
                                next |-> "handles_revoked"],
             handles_revoked |-> [from |-> "calls_drained", shows |-> "disposing",
                                  next |-> "contributions_disposed"],
             contributions_disposed |-> [from |-> "handles_revoked", shows |-> "disposing",
                                         next |-> "host_disposed"],
             host_disposed |-> [from |-> "contributions_disposed", shows |-> "stopped",
                                next |-> "completed"]]

TeardownPhase ==
    /\ lane.op \in Teardowns /\ lane.step \in DOMAIN Teardown
    /\ LET phase == Teardown[lane.step] IN
          /\ Advance(lane.i, phase.from, lane.step, "running", phase.shows, 0)
          /\ Goto(phase.next)
    /\ UNCHANGED <<active, pend, gate>> /\ TeardownFrame /\ NoFault

TeardownCompletes ==
    /\ lane.op \in Teardowns /\ lane.step = "completed"
    /\ Advance(lane.i, "host_disposed", "completed", "completed",
               IF lane.op = "disable" THEN "disabled" ELSE "stopped", 0)
    /\ TeardownEnds
    /\ UNCHANGED <<active, pend>> /\ TeardownFrame /\ NoFault

\* A phase is not journaled: the later ones are stale, and the call reports uncertainty
TeardownUncertain ==
    /\ lane.op \in Teardowns /\ lane.step \in DOMAIN Teardown \cup {"completed"}
    /\ Fault \/ (~IsOpen(lane.i) /\ NoFault)
    /\ Goto("uncertain")
    /\ UNCHANGED <<storeVars, active, pend, gate>> /\ TeardownFrame

RecordUncertain ==
    /\ lane.op \in Teardowns /\ lane.step = "uncertain"
    /\ \/ Advance(lane.i, trans[lane.i].phase, "durable_committed", "completion_uncertain",
                  "stopped", 0)
       \/ UNCHANGED storeVars
    /\ TeardownEnds
    /\ UNCHANGED <<active, pend>> /\ TeardownFrame /\ NoFault

\* An error outside the journal: disable returns it, a boundary forces the route closed
TeardownRefused ==
    /\ lane.op \in Teardowns /\ lane.step \in {"close", "request", "handles_revoked"}
    /\ \/ Fault
       \/ lane.step = "request" /\ ~Requestable(lane.op, row.accepted, None) /\ NoFault
    /\ lane' = Idle
    /\ IF lane.op = "disable"
       THEN /\ UNCHANGED <<active, pend>>
            /\ gate' = IF gate.step = "disabling" THEN Idle ELSE gate
       ELSE active' = NoHost /\ pend' = NoPending /\ GateResumes
    /\ UNCHANGED storeVars /\ TeardownFrame

-----------------------------------------------------------------------------
(* Calls under the project gate: uninstall and restore *)

GateGoto(step) == gate' = [gate EXCEPT !.step = step]
GateFrame == UNCHANGED <<active, pend, asked, block, dead, edits>>

\* uninstall of the digest the user confirmed
Uninstall ==
    /\ gate = Idle
    /\ row.known /\ row.accepted # None /\ row.desired # "uninstalled"
    /\ gate' = Call("uninstall", "disable", 0, row.accepted)
    /\ UNCHANGED <<storeVars, lane>> /\ GateFrame /\ KeepFiles /\ NoFault

\* It disables first; a teardown that is already over is not repeated
UninstallDisables ==
    /\ gate.step = "disable" /\ Locks
    /\ \/ BeginTeardown("disable") /\ GateGoto("disabling")
       \/ /\ AlreadyTornDown("disable") /\ UNCHANGED lane
          /\ gate' = IF IsOpen(row.tr) THEN Idle ELSE [gate EXCEPT !.step = "recheck"]
    /\ UNCHANGED storeVars /\ GateFrame /\ KeepFiles /\ NoFault

\* The package and the row are read again ...
UninstallRechecks ==
    /\ gate.step = "recheck"
    /\ gate' = IF /\ source = gate.digest /\ row.accepted = gate.digest
                  /\ row.desired = "disabled" /\ row.observed \in {"disabled", "stopped"}
               THEN [gate EXCEPT !.step = "request"]
               ELSE Idle
    /\ UNCHANGED <<storeVars, lane>> /\ GateFrame /\ KeepFiles /\ NoFault

\* ... before the transition is requested
UninstallRequests ==
    /\ gate.op = "uninstall" /\ gate.step = "request"
    /\ \/ /\ Request(NextId, "uninstall", gate.digest, None)
          /\ gate' = Call("uninstall", "move", NextId, gate.digest)
       \/ ~Requestable("uninstall", gate.digest, None) /\ gate' = Idle /\ UNCHANGED storeVars
    /\ UNCHANGED lane /\ GateFrame /\ KeepFiles /\ NoFault

Movable(i, d) == source = d /\ trash[i] = None
Moved(i, d) == source = None /\ trash[i] = d

\* move_exact: one rename
MoveExact ==
    /\ gate.step = "move"
    /\ \/ /\ Movable(gate.i, gate.digest)
          /\ trash' = [trash EXCEPT ![gate.i] = source] /\ source' = None
          /\ UNCHANGED <<cache, purging, marker>>
       \/ Moved(gate.i, gate.digest) /\ KeepFiles
    /\ gate' = [gate EXCEPT !.step = IF trans[gate.i].phase = "package_moved" THEN "complete"
                                                                              ELSE "record"]
    /\ UNCHANGED <<storeVars, lane>> /\ GateFrame /\ NoFault

RecordMoved ==
    /\ gate.step = "record"
    /\ Advance(gate.i, "requested", "package_moved", "running", "disposing", 0)
    /\ GateGoto("complete")
    /\ UNCHANGED lane /\ GateFrame /\ KeepFiles /\ NoFault

\* After a recovery the reconciliation goes on
GateDone(step) == gate' = IF gate.op = "reconcile" THEN Call("reconcile", step, 0, None) ELSE Idle

FinishUninstall ==
    /\ gate.step = "complete" /\ gate.op \in {"uninstall", "reconcile"}
    /\ CompleteUninstall(gate.i)
    /\ GateDone("files")
    /\ UNCHANGED lane /\ GateFrame /\ KeepFiles /\ NoFault

\* A step of an uninstall fails, or finds the package or the transition changed: the user's
\* call returns the error, a recovery records that it is required
UninstallFails ==
    /\ gate.op \in {"uninstall", "reconcile"} /\ gate.step \in {"move", "record", "complete"}
    /\ \/ Fault
       \/ NoFault /\ CASE gate.step = "move" -> ~Movable(gate.i, gate.digest) /\ ~Moved(gate.i, gate.digest)
                       [] gate.step = "record" ->
                              ~Advanceable(gate.i, "requested", "package_moved")
                       [] OTHER -> ~UninstallReady(gate.i)
    /\ IF gate.op = "uninstall"
       THEN gate' = Idle /\ UNCHANGED storeVars
       ELSE /\ gate' = Call("reconcile", "purges", 0, None)
            /\ RequireRecovery(gate.i) \/ UNCHANGED storeVars
    /\ UNCHANGED lane /\ GateFrame /\ KeepFiles

Restorable(i) ==
    /\ Kept(i) /\ tomb[i].retention = "recoverable"
    /\ Uninstalled /\ row.accepted = tomb[i].digest

\* restore looks at the registry and releases its mutex again
Restore(i) ==
    /\ gate = Idle /\ Locks
    /\ Restorable(i) /\ active = NoHost /\ pend = NoPending
    /\ gate' = Call("restore", "restore", i, tomb[i].digest)
    /\ UNCHANGED <<storeVars, lane>> /\ GateFrame /\ KeepFiles /\ NoFault

InTrash(i, d) == source = None /\ trash[i] = d
InProject(i, d) == source = d /\ trash[i] = None

\* restore_exact, the mirror of move_exact
RestoreExact ==
    /\ gate.step = "restore"
    /\ \/ /\ InTrash(gate.i, gate.digest)
          /\ source' = gate.digest /\ trash' = [trash EXCEPT ![gate.i] = None]
          /\ UNCHANGED <<cache, purging, marker>> /\ GateGoto("complete")
       \/ InProject(gate.i, gate.digest) /\ KeepFiles /\ GateGoto("complete")
       \/ /\ ~InTrash(gate.i, gate.digest) /\ ~InProject(gate.i, gate.digest)
          /\ KeepFiles /\ gate' = Idle
    /\ UNCHANGED <<storeVars, lane>> /\ GateFrame /\ NoFault

FinishRestore ==
    /\ gate.op = "restore" /\ gate.step = "complete"
    /\ \/ CompleteRestore(gate.i) /\ NoFault
       \/ UNCHANGED storeVars /\ (Fault \/ (~Restorable(gate.i) /\ NoFault))
    /\ gate' = Idle
    /\ UNCHANGED lane /\ GateFrame /\ KeepFiles

-----------------------------------------------------------------------------
(* Retention: plugin_retention.rs and purge_exact *)

ExpireTombstone(i) ==
    /\ Expire(i)
    /\ UNCHANGED <<memVars, gate, fileVars, edits>> /\ NoFault

\* purge_exact_tombstone
Purge(i) ==
    /\ IF gate = Idle THEN tomb[i].retention = "expired"
                     ELSE Reconciling("purges") /\ tomb[i].retention = "purge_pending"
    /\ RequestPurge(i)
    /\ gate' = [gate EXCEPT !.op = IF gate = Idle THEN "purge" ELSE @, !.step = "mark", !.i = i]
    /\ UNCHANGED lane /\ GateFrame /\ KeepFiles /\ NoFault

\* Fault variant: the quarantined directory is removed without a marker.
PurgeMarks_None ==
    /\ gate.step = "mark" /\ source = None
    /\ trash[gate.i] # None /\ purging[gate.i] = "none" /\ GateGoto("rename") /\ UNCHANGED marker
    /\ UNCHANGED <<storeVars, lane, source, cache, trash, purging>> /\ GateFrame /\ NoFault

\* purge_exact: the marker is written before the directory is renamed; a later call goes on
\* from what it finds
PurgeMarks ==
    /\ gate.step = "mark" /\ source = None
    /\ \/ /\ trash[gate.i] # None /\ purging[gate.i] = "none"
          /\ marker' = marker \cup {gate.i} /\ GateGoto("rename")
       \/ /\ trash[gate.i] = None /\ gate.i \in marker
          /\ GateGoto(IF purging[gate.i] = "none" THEN "purged" ELSE "delete")
          /\ UNCHANGED marker
    /\ UNCHANGED <<storeVars, lane, source, cache, trash, purging>> /\ GateFrame /\ NoFault

PurgeRenames ==
    /\ gate.step = "rename"
    /\ purging' = [purging EXCEPT ![gate.i] = "whole"] /\ trash' = [trash EXCEPT ![gate.i] = None]
    /\ GateGoto("delete")
    /\ UNCHANGED <<storeVars, lane, source, cache, marker>> /\ GateFrame /\ NoFault

\* The tree goes file by file
PurgeDeletes ==
    /\ gate.step = "delete"
    /\ \/ /\ purging[gate.i] = "whole" /\ UNCHANGED gate
          /\ purging' = [purging EXCEPT ![gate.i] = "partial"]
       \/ /\ purging[gate.i] = "partial" /\ GateGoto("purged")
          /\ purging' = [purging EXCEPT ![gate.i] = "none"]
    /\ UNCHANGED <<storeVars, lane, source, cache, trash, marker>> /\ GateFrame /\ NoFault

FinishPurge ==
    /\ gate.step = "purged"
    /\ CompletePurge(gate.i)
    /\ GateDone("purges")
    /\ UNCHANGED lane /\ GateFrame /\ KeepFiles /\ NoFault

\* Any step returns an error, also because the user put a package back
PurgeFails ==
    /\ gate.step \in {"mark", "rename", "delete", "purged"}
    /\ Fault \/ (gate.step = "mark" /\ source # None /\ NoFault)
    /\ GateDone("discover")
    /\ UNCHANGED <<storeVars, lane>> /\ GateFrame /\ KeepFiles

-----------------------------------------------------------------------------
(* Boundaries and restarts *)

\* teardown_project before a Workspace restart, a project switch or the exit
Boundary(kind) ==
    /\ gate = Idle
    /\ gate' = IF row.known /\ (row.desired # "uninstalled" \/ active # NoHost \/ pend # NoPending)
               THEN Call(kind, "teardown", 0, None)
               ELSE Call("reconcile", "files", 0, None)
    /\ UNCHANGED <<storeVars, lane>> /\ GateFrame /\ KeepFiles /\ NoFault

BoundaryTearsDown ==
    /\ gate.step = "teardown" /\ Locks
    /\ \/ BeginTeardown(gate.op) /\ GateGoto("tearing")
       \/ AlreadyTornDown(gate.op) /\ gate' = Call("reconcile", "files", 0, None) /\ UNCHANGED lane
    /\ UNCHANGED storeVars /\ GateFrame /\ KeepFiles /\ NoFault

\* The process dies: what is in memory is lost, and the next start reconciles
Die ==
    /\ Fault
    /\ active' = NoHost /\ pend' = NoPending /\ asked' = None /\ lane' = Idle
    /\ block' = NoBlock /\ dead' = NoHost
    /\ gate' = Call("reconcile", "files", 0, None)
    /\ UNCHANGED <<storeVars, fileVars, edits>>

OpenOf(kinds) == {i \in OpenIds : trans[i].kind \in kinds}
AwaitPurge == {i \in Ids : Kept(i) /\ tomb[i].retention = "purge_pending"}

\* recover_project_plugin_files: an interrupted uninstall is finished
RecoverUninstall ==
    /\ Reconciling("files")
    /\ \E i \in OpenOf({"uninstall"}) :
          IF row.desired = "uninstalled" /\ row.accepted = trans[i].old /\ row.tr = i
          THEN gate' = Call("reconcile", "move", i, trans[i].old) /\ UNCHANGED storeVars
          ELSE gate' = Call("reconcile", "purges", 0, None) /\ RequireRecovery(i)
    /\ UNCHANGED lane /\ GateFrame /\ KeepFiles /\ NoFault

\* ... and an interrupted replacement is closed
RecoverReplacement ==
    /\ Reconciling("files")
    /\ \E i \in OpenOf(Replacements) : Fail(i, "disabled", TRUE)
    /\ UNCHANGED <<gate, lane>> /\ GateFrame /\ KeepFiles /\ NoFault

\* Files, purges and discovery follow each other; a recovery that fails stops none of them
RecoveryGoesOn ==
    /\ \/ /\ Reconciling("files") /\ GateGoto("purges")
          /\ Fault \/ (OpenOf({"uninstall"} \cup Replacements) = {} /\ NoFault)
       \/ /\ Reconciling("purges") /\ GateGoto("discover")
          /\ Fault \/ (AwaitPurge = {} /\ NoFault)
    /\ UNCHANGED <<storeVars, lane>> /\ GateFrame /\ KeepFiles

\* Discovery; an enabled plugin without its package is blocked
ReconcileDiscovers ==
    /\ Reconciling("discover") /\ Locks
    /\ IF source # None
       THEN /\ Discover(source) /\ gate' = Call("reconcile", "judging", 0, source)
            /\ lane' = Call("recover", "judge", 0, source)
            /\ UNCHANGED <<active, block>>
       ELSE /\ gate' = Idle /\ UNCHANGED storeVars
            /\ IF row.desired = "enabled"
               THEN /\ active' = NoHost /\ block' = WantBlock
                    /\ lane' = Call("recover", "blocking", 0, None)
               ELSE UNCHANGED <<active, lane, block>>
    /\ block = NoBlock
    /\ UNCHANGED <<pend, asked, dead, edits>> /\ KeepFiles /\ NoFault

\* The plugin directory cannot be read, or the store cannot: the first closes every route
DiscoveryFails ==
    /\ Reconciling("discover") /\ Locks /\ block = NoBlock /\ Fault
    /\ gate' = Idle
    /\ \/ UNCHANGED <<active, pend, block>>
       \/ /\ active' = NoHost /\ pend' = NoPending
          /\ block' = IF row.desired = "enabled" THEN WantBlock ELSE NoBlock
    /\ UNCHANGED <<storeVars, lane, asked, dead, edits>> /\ KeepFiles

\* The last transition proves that the plugin was stopped on purpose
StoppedByBoundary ==
    /\ row.observed = "stopped" /\ row.tr # 0
    /\ trans[row.tr].kind \in Boundaries /\ trans[row.tr].status = "completed"

InterruptedReplacement(d) ==
    /\ row.tr # 0 /\ trans[row.tr].kind \in Replacements
    /\ trans[row.tr].reconciled /\ trans[row.tr].old = row.accepted /\ trans[row.tr].cand = d

FromCache(d) ==
    /\ row.accepted \notin {None, d}
    /\ row.rollback = d \/ InterruptedReplacement(d)

\* What reconcile_discovered_plugin makes of the row and the package in the project
Verdict(d) ==
    CASE row.desired # "enabled" -> "skip"
      [] row.desired = "enabled" /\ row.observed \in {"crashed", "blocked"} -> "skip"
      [] row.desired = "enabled" /\ row.observed = "active" /\ active.digest = d
           /\ row.accepted = d -> "keep"
      [] OTHER ->
         CASE row.accepted = None ->
                IF IsOpen(row.tr) /\ row.pending = d THEN "reactivate" ELSE "skip"
           [] row.accepted \notin {None, d} /\ ~FromCache(d) -> "skip"
           [] FromCache(d) -> IF row.accepted \in cache THEN "reactivate" ELSE "error"
           [] OTHER -> IF row.observed = "active" \/ IsOpen(row.tr) \/ StoppedByBoundary
                       THEN "reactivate" ELSE "block"

Judge ==
    /\ lane.op = "recover" /\ lane.step = "judge"
    /\ LET verdict == Verdict(lane.digest)
           examined == row.desired = "enabled" /\ row.observed \notin {"crashed", "blocked"}
                       /\ verdict # "keep"
       IN /\ active' = IF verdict \in {"keep", "error"} THEN active ELSE NoHost
          /\ block' = IF verdict = "block" THEN WantBlock ELSE block
          \* an open transition of an enabled plugin is closed before anything else
          /\ IF examined THEN Fail(row.tr, "disabled", TRUE) ELSE UNCHANGED storeVars
          /\ IF verdict = "reactivate"
             THEN /\ UNCHANGED gate
                  /\ lane' = Call(IF FromCache(lane.digest) THEN "recache" ELSE "recover",
                                  "reactivate", 0, Or(row.accepted, lane.digest))
             ELSE /\ gate' = Idle
                  /\ lane' = IF verdict = "block" THEN Call("recover", "blocking", 0, None) ELSE Idle
    /\ UNCHANGED <<pend, asked, dead, edits>> /\ KeepFiles /\ NoFault

\* prepare_recovery_enable_transition
Reactivate ==
    /\ lane.op \in Recoveries /\ lane.step = "reactivate"
    /\ gate' = Idle
    /\ IF Requestable("enable", None, lane.digest)
       THEN Begin(lane.op, "enable", None, lane.digest)
       ELSE lane' = Idle /\ UNCHANGED storeVars
    /\ UNCHANGED <<active, pend, asked, block, dead, edits>> /\ KeepFiles /\ NoFault

\* reconcile_project calls it with the mutex, the heartbeat monitor without
BlockEnds == block' = NoBlock /\ lane' = IF lane.step = "blocking" THEN Idle ELSE lane
BlockFrame == UNCHANGED <<active, pend, asked, dead, gate, edits>> /\ KeepFiles

\* persist_recovery_block: the open transition is failed, or one made and failed
PersistBlock ==
    /\ block = WantBlock
    /\ IF row.observed = "blocked" THEN BlockEnds /\ UNCHANGED storeVars
       ELSE IF IsOpen(row.tr) THEN BlockEnds /\ Fail(row.tr, "blocked", FALSE)
       ELSE /\ block' = [state |-> "requested", i |-> NextId] /\ UNCHANGED lane
            /\ Request(NextId, "enable", None, Or(row.accepted, row.pending))
    /\ BlockFrame /\ NoFault

FinishBlock ==
    /\ block.state = "requested"
    /\ BlockEnds /\ Fail(block.i, "blocked", FALSE)
    /\ BlockFrame /\ NoFault

BlockFails ==
    /\ block # NoBlock /\ Fault
    /\ BlockEnds
    /\ UNCHANGED storeVars /\ BlockFrame

-----------------------------------------------------------------------------
(* Hosts that fail, and the user's changes of the package *)

\* sweep_project_heartbeats and persist_crash_if_needed close the route under the mutex ...
HostFails ==
    /\ Locks /\ active # NoHost /\ dead = NoHost
    /\ dead' = active /\ active' = NoHost
    /\ UNCHANGED <<storeVars, pend, asked, lane, block, gate, edits>> /\ KeepFiles /\ NoFault

\* ... and record the crash after it was released
CrashRecorded ==
    /\ dead # NoHost
    /\ dead' = NoHost
    /\ \/ RecordCrash(dead.digest, dead.host) /\ UNCHANGED block /\ NoFault
       \/ /\ ~(row.desired = "enabled" /\ row.accepted = dead.digest /\ row.host = dead.host)
          /\ UNCHANGED <<storeVars, block>> /\ NoFault
       \/ UNCHANGED storeVars /\ Fault /\ block = NoBlock /\ block' = WantBlock
    /\ UNCHANGED <<active, pend, asked, lane, gate, edits>> /\ KeepFiles

TenMinutes == Forget /\ UNCHANGED <<memVars, gate, fileVars, edits>> /\ NoFault

Edit(d) ==
    /\ edits < MaxEdits /\ edits' = edits + 1
    /\ d # source /\ source' = d
    /\ UNCHANGED <<storeVars, memVars, gate, cache, trash, purging, marker>> /\ NoFault

-----------------------------------------------------------------------------
LaneStep ==
    \/ Preflight \/ Prepare \/ Ask \/ Planned \/ AllocateGeneration \/ GrantsReady
    \/ CandidateActivated \/ SwapPointer \/ Commit
    \/ CloseOpen \/ RequestTeardown \/ TeardownPhase \/ TeardownCompletes \/ RecordUncertain
    \/ Judge \/ Reactivate \/ PersistBlock \/ FinishBlock

GateStep ==
    \/ UninstallDisables \/ UninstallRechecks \/ UninstallRequests \/ MoveExact \/ RecordMoved
    \/ FinishUninstall \/ UninstallFails \/ RestoreExact \/ FinishRestore
    \/ PurgeMarks \/ PurgeRenames \/ PurgeDeletes \/ FinishPurge \/ PurgeFails
    \/ BoundaryTearsDown \/ RecoverUninstall \/ RecoverReplacement \/ RecoveryGoesOn
    \/ ReconcileDiscovers

Calls ==
    \/ EnableDiscovers \/ Enable \/ Retry \/ Update \/ Rollback \/ Disable \/ Uninstall
    \/ \E d \in {"granted", "denied"} : Answer(d)
    \/ ActivatePending
    \/ \E i \in Ids : Restore(i) \/ ExpireTombstone(i) \/ Purge(i)
    \/ \E kind \in Boundaries : Boundary(kind)
    \/ \E d \in Optional : Edit(d)

Failures ==
    \/ ActivationFails \/ PublishFails \/ TeardownUncertain \/ TeardownRefused
    \/ DiscoveryFails \/ BlockFails \/ Die
    \/ HostFails \/ CrashRecorded \/ TenMinutes

Next == LaneStep \/ GateStep \/ Calls \/ Failures

Spec == Init /\ [][Next]_vars

-----------------------------------------------------------------------------
(* What the plugin list shows *)

\* Waiting requests of the shown digest, and a purge that was asked and did not end
Waits(d) == pend.op # "none" /\ pend.answer = "open" /\ pend.digest = d
Purging == \E i \in Ids : Kept(i) /\ tomb[i].retention = "purge_pending"

\* plugin_view, for a package that is in the project.  A blocked row is shown as blocked or
\* as recovery_required by its error code: both say that nothing of it runs.  denied tells
\* whether a request of this digest was denied.
plugin_view(denied) ==
    IF Purging THEN "recovery_required"
    ELSE IF active.digest = source /\ row.desired = "enabled" /\ row.observed = "active"
            /\ row.accepted = source THEN "enabled"
    ELSE IF Waits(source) THEN "permission_required"
    ELSE IF row.desired = "enabled" /\ row.accepted \notin {None, source} THEN "update_pending"
    ELSE IF row.desired = "enabled" /\ row.observed \in {"resolving", "activating"} THEN "enabling"
    ELSE IF denied THEN "denied"
    ELSE IF row.observed \in {"update_pending", "blocked", "crashed", "uninstalled"}
         THEN row.observed ELSE "disabled"

\* missing_workspace_plugin_view
missing_workspace_plugin_view ==
    IF Purging THEN "recovery_required"
    ELSE IF row.observed \in {"crashed", "update_pending", "uninstalled"} THEN row.observed
    ELSE "blocked"

\* list: a row without a package is shown when it should run or tells why it does not
list(denied) ==
    IF source # None THEN plugin_view(denied)
    ELSE IF row.known /\ (row.desired = "enabled"
                          \/ row.observed \in {"blocked", "crashed", "update_pending", "uninstalled"})
         THEN missing_workspace_plugin_view
         ELSE "absent"

-----------------------------------------------------------------------------
(* Properties *)

\* A plugin the user disabled, or that was restored, neither runs nor waits for a permission
\* that would start it, whatever failed on the way.
DisabledMeansStopped ==
    lane = Idle /\ row.desired = "disabled" => active = NoHost /\ pend = NoPending

\* A plugin that the list shows as crashed is, as its message says, non-routable: no host of
\* it runs, whichever enable, update or restart came between the crash and its record.
CrashedMeansStopped ==
    \A denied \in BOOLEAN : list(denied) = "crashed" => active = NoHost

\* No host runs of a plugin that is disabled or shown as crashed.
StoppedMeansStopped == DisabledMeansStopped /\ CrashedMeansStopped

\* What uninstall answers: the package "is uninstalled, non-routable, and has no durable
\* grant".  No host runs of a plugin whose row says that it is uninstalled.
UninstalledMeansStopped == Uninstalled => active = NoHost

\* Where the package of an id is, and what the store says of it.
Place(i) ==
    IF trash[i] # None \/ purging[i] = "whole" THEN "trash"
    ELSE IF purging[i] = "partial" \/ i \in marker THEN "gone"
    ELSE IF tomb[i].digest = None THEN "project" ELSE "returned"

RecordOf(i) ==
    IF tomb[i].digest = None THEN "none"
    ELSE IF tomb[i].deleted THEN "discarded"
    ELSE IF tomb[i].restored THEN "returned"
    ELSE CASE tomb[i].retention = "recoverable" -> "kept"
           [] tomb[i].retention = "expired" -> "expired"
           [] OTHER -> "discarding"

Custody == INSTANCE PackageCustody WITH
    Packages <- Ids, place <- [i \in Ids |-> Place(i)], recorded <- [i \in Ids |-> RecordOf(i)]

\* Uninstall, restore and purge keep the promises of PackageCustody over the steps they really
\* take, with failures and deaths between them: one place for a package, one return or one
\* end, nothing discarded before its retention ended, nothing recorded before it is so.
CustodySpec == Custody!Spec

=============================================================================
