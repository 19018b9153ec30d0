--------------------------- MODULE ProjectSession ---------------------------
(***************************************************************************)
(* One project is open at a time, and six places say which: the user       *)
(* interface's root, the store's active_project_root, the working directory *)
(* of Workspace R, the watcher, the extension host's project scope and the  *)
(* last opened project on disk.  A switch changes them one by one under     *)
(* project_transition_gate, undoes what it can when a step fails, and runs   *)
(* beside commands that do not take the gate: code from the console and     *)
(* document renders, which take only the lock of the coordinator's context  *)
(* (the lane).  Restarts, closing the application and the native updater    *)
(* are the other holders of the gate; the process may die at any step.      *)
(***************************************************************************)
EXTENDS FiniteSets, Naturals

CONSTANTS
    Roots,      \* normalized project roots
    Jobs,       \* render jobs; a job's id is also the id of its run
    Consoles,   \* calls of execute_r
    None,       \* no root, no holder, no value
    MaxDeaths,  \* bound on deaths of the process
    MaxFaults   \* bound on failed steps

ASSUME SessionAssumption ==
    /\ Roots # {}
    /\ Jobs \cap Consoles = {}
    /\ None \notin Roots /\ None \notin Jobs \cup Consoles
    /\ MaxDeaths \in Nat /\ MaxFaults \in Nat

Runs == Jobs \cup Consoles

VARIABLES
    root,     \* [ui, store, cwd, watch, ext, plug, last |-> a root or None]
    up,       \* a Workspace session and its context exist
    lane,     \* who holds the lock of the context
    op,       \* what the holder of project_transition_gate is doing
    closing,  \* AppState.shutdown_started, and on whose behalf
    job,      \* AppState.render_jobs, and the task of each job
    poll,     \* a render_job_status between its read of the run and its update
    run,      \* the rows of runs, and what a run executes in
    work,     \* the project of the Agent work admitted under the gate
    update,   \* the bytes an update downloaded, and the installed application
    torn,     \* a failed synchronisation left Workspace R in the other project
    fatal,    \* a failed switch could not be undone: "restart is required"
    deaths, faults

vars == <<root, up, lane, op, closing, job, poll, run, work, update, torn, fatal,
          deaths, faults>>

TerminalJob == {"completed", "failed", "interrupted"}
JobStates == {"none", "submitted", "running", "cancel_requested", "expired"} \cup TerminalJob
RunStates == {"none", "running", "completed", "failed", "interrupted"}

\* The task of a job: queued for the lane, executing, or back from dispatch with
\* an outcome and the lane still in its hands.
TaskSteps == {"none", "queued", "executing", "returned", "ended"}
RenderOutcomes == {"ok", "r_error", "error"}

NoOp == [kind |-> "none", step |-> "none", to |-> None, from |-> None, jobs |-> {}]
Down == [NoOp EXCEPT !.kind = "down"]

\* early: submitted while no switch was under way; old: the task outlived a
\* restart and works on the session and context of before.
NoJob == [st |-> "none", root |-> None, task |-> "none", cancel |-> FALSE,
          out |-> "ok", old |-> FALSE, early |-> FALSE]
NoRun == [st |-> "none", root |-> None, cancel |-> FALSE]

NoUpdate == [target |-> "current", backup |-> FALSE, bytes |-> "none"]

OpKinds == {"none", "switch", "restart", "start", "close", "install", "down"}
OpSteps == {"none", "prepare", "sync", "candidate", "store", "last", "publish", "resync",
            "restore", "drain", "launch", "settle", "preserve", "replace", "open"}

\* The types of the state.
TypeOK ==
    /\ root \in [{"ui", "store", "cwd", "watch", "ext", "plug", "last"} -> Roots \cup {None}]
    /\ up \in BOOLEAN /\ torn \in BOOLEAN /\ fatal \in BOOLEAN
    /\ closing \in {"no", "close", "install"}
    /\ lane \in Runs \cup {None}
    /\ op \in [kind : OpKinds, step : OpSteps, to : Roots \cup {None},
               from : [ui : Roots, store : Roots] \cup {None}, jobs : SUBSET Jobs]
    /\ job \in [Jobs -> [st : JobStates, root : Roots \cup {None}, task : TaskSteps,
                         cancel : BOOLEAN, out : RenderOutcomes, old : BOOLEAN, early : BOOLEAN]]
    /\ poll \in [Jobs -> RunStates \cup {"idle"}]
    /\ run \in [Runs -> [st : RunStates, root : Roots \cup {None}, cancel : BOOLEAN]]
    /\ work \in Roots \cup {None}
    /\ update \in [target : {"current", "new", "forged", "gone"},
                   backup : BOOLEAN, bytes : {"none", "signed", "forged"}]
    /\ deaths \in 0..MaxDeaths /\ faults \in 0..MaxFaults

\* The desktop has just started on the last opened project: Workspace R is in a
\* directory of its own until the user interface opens the project.
Init ==
    /\ \E p \in Roots : root = [ui |-> p, store |-> p, cwd |-> None, watch |-> None,
                                ext |-> p, plug |-> p, last |-> p]
    /\ up = TRUE /\ lane = None /\ op = NoOp /\ closing = "no"
    /\ job = [j \in Jobs |-> NoJob] /\ poll = [j \in Jobs |-> "idle"]
    /\ run = [r \in Runs |-> NoRun] /\ work = None
    /\ update = NoUpdate
    /\ torn = FALSE /\ fatal = FALSE /\ deaths = 0 /\ faults = 0

Alive == op.kind # "down"
GateFree == op.kind = "none"

\* A step that may fail takes one of the bounded faults to do so.
Fails == faults < MaxFaults /\ faults' = faults + 1

-----------------------------------------------------------------------------
(* Code from the console and document renders: no gate, only the lane.     *)

\* dispatch_workspace_request records a run in the store's active project and
\* executes it wherever Workspace R is.
Created == [NoRun EXCEPT !.st = "running", !.root = root.store]

\* The end of a dispatch: the row is finished whatever it says by now.  How R
\* code ends, by itself or by an interrupt, is open.
Finished(r, out) ==
    [r EXCEPT !.st = CASE out = "ok" -> "completed"
                       [] out = "r_error" -> "failed"
                       [] out = "error" -> IF r.cancel THEN "interrupted" ELSE "failed",
              !.cancel = FALSE]

ExecuteR(u) ==
    /\ Alive /\ up /\ lane = None /\ run[u].st = "none"
    /\ run' = [run EXCEPT ![u] = Created]
    /\ lane' = u
    /\ UNCHANGED <<root, up, op, closing, job, poll, work, update, torn, fatal, deaths, faults>>

\* The row of a console's run is finished and asked for no more.
ExecuteREnds(u) ==
    /\ Alive /\ lane = u
    /\ run' = [run EXCEPT ![u] = NoRun]
    /\ lane' = None
    /\ UNCHANGED <<root, up, op, closing, job, poll, work, update, torn, fatal, deaths, faults>>

\* request_run_interrupt, for a run of the project the user interface shows.
RequestRunInterrupt(r) ==
    /\ Alive /\ up /\ run[r].st = "running" /\ run[r].root = root.ui
    /\ run' = [run EXCEPT ![r].cancel = TRUE]
    /\ UNCHANGED <<root, up, lane, op, closing, job, poll, work, update, torn, fatal, deaths,
                   faults>>

JobStep == /\ Alive
           /\ UNCHANGED <<root, up, op, closing, work, update, torn, fatal, deaths, faults>>

\* finish_render_job: a terminal job keeps its outcome.
FinishJob(j, st) == IF j.st \in TerminalJob \cup {"expired"} THEN j ELSE [j EXCEPT !.st = st]

\* reconcile_render_job: a run that is not terminal counts as one that never ran.
Reconciled(j, status) ==
    FinishJob(j, CASE status = "completed" -> "completed"
                   [] status = "failed" -> "failed"
                   [] OTHER -> "interrupted")

\* The task takes the session and the context that exist at the submission.
RenderDocumentJob(j) ==
    /\ job[j].st = "none"
    /\ LET new == [NoJob EXCEPT !.st = "submitted", !.root = root.ui, !.task = "queued",
                                !.early = op.kind # "switch" /\ ~fatal]
       IN job' = [job EXCEPT ![j] = IF up THEN new
                                    ELSE [new EXCEPT !.st = "failed", !.task = "ended"]]
    /\ UNCHANGED <<lane, poll, run>>
    /\ JobStep

\* The task has the lane: its own context's, which is not everybody's lane any
\* more when the task outlived a restart.
HasLane(j) == IF job[j].old THEN \A k \in Jobs \ {j} : ~(job[k].old /\ job[k].task \in {"executing", "returned"})
              ELSE lane = None

RenderStarts(j) ==
    /\ job[j].task = "queued" /\ HasLane(j)
    /\ \/ /\ job[j].st = "cancel_requested"
          /\ job' = [job EXCEPT ![j] = [FinishJob(@, "interrupted") EXCEPT !.task = "ended"]]
          /\ UNCHANGED <<run, lane>>
       \/ /\ job[j].st # "cancel_requested"
          /\ job' = [job EXCEPT ![j].st = "running", ![j].task = "executing"]
          /\ run' = [run EXCEPT ![j] = Created]
          /\ lane' = IF job[j].old THEN lane ELSE j
    /\ UNCHANGED poll
    /\ JobStep

RenderReturns(j) ==
    /\ job[j].task = "executing"
    /\ \E out \in RenderOutcomes :
        /\ run' = [run EXCEPT ![j] = Finished(run[j], out)]
        /\ job' = [job EXCEPT ![j].task = "returned", ![j].out = out]
    /\ UNCHANGED <<lane, poll>>
    /\ JobStep

RenderEnds(j) ==
    /\ job[j].task = "returned"
    /\ LET st == CASE job[j].out = "ok" -> "completed"
                   [] job[j].out = "r_error" -> "failed"
                   [] OTHER -> IF job[j].st = "cancel_requested" THEN "interrupted" ELSE "failed"
       IN job' = [job EXCEPT ![j] = [FinishJob(@, st) EXCEPT !.task = "ended", !.out = "ok",
                                                             !.old = FALSE]]
    /\ lane' = IF lane = j THEN None ELSE lane
    /\ UNCHANGED <<run, poll>>
    /\ JobStep

\* Only the open project's jobs can be read or cancelled.
Listed(j) == job[j].root = root.ui /\ job[j].st \notin {"none", "expired"}

\* render_job_status reads the run with the jobs unlocked and updates the job
\* from what it read; it drops terminal jobs of more than five minutes ago.  A
\* job that has no run yet or is terminal stays as it is.
RenderJobStatus(j) ==
    /\ Listed(j) /\ poll[j] = "idle"
    /\ \/ /\ job[j].st \notin TerminalJob /\ run[j].st # "none" /\ run[j].root = job[j].root
          /\ poll' = [poll EXCEPT ![j] = run[j].st]
          /\ UNCHANGED job
       \/ /\ job[j].st \in TerminalJob
          /\ job' = [job EXCEPT ![j].st = "expired"]
          /\ UNCHANGED poll
    /\ UNCHANGED <<lane, run>>
    /\ JobStep

RenderJobStatusReads(j) ==
    /\ poll[j] # "idle"
    /\ job' = [job EXCEPT ![j] = Reconciled(@, poll[j])]
    /\ poll' = [poll EXCEPT ![j] = "idle"]
    /\ UNCHANGED <<lane, run>>
    /\ JobStep

\* cancel_render_job marks the job, and a running one it then interrupts after
\* it has released the jobs.
CancelRenderJob(j) ==
    /\ Listed(j) /\ job[j].st \in {"submitted", "running"}
    /\ job' = [job EXCEPT ![j].st = "cancel_requested", ![j].cancel = job[j].st = "running"]
    /\ UNCHANGED <<lane, run, poll>>
    /\ JobStep

CancelRenderInterrupts(j) ==
    /\ job[j].cancel
    /\ job' = [job EXCEPT ![j].cancel = FALSE]
    /\ run' = [run EXCEPT ![j].cancel = @ \/ (run[j].root = job[j].root /\ run[j].st = "running")]
    /\ UNCHANGED <<lane, poll>>
    /\ JobStep

-----------------------------------------------------------------------------
(* project_transition_gate: the switch.                                    *)

GateStep(k, step) == op.kind = k /\ op.step = step
Goto(step) == op' = [op EXCEPT !.step = step]
Release == op' = NoOp

\* Agent turns, their approvals and file claims are admitted under the gate.
AdmitWork ==
    /\ GateFree /\ up /\ work = None /\ closing = "no"
    /\ work' = root.ui
    /\ UNCHANGED <<root, up, lane, op, closing, job, poll, run, update, torn, fatal, deaths, faults>>

WorkEnds ==
    /\ Alive /\ work # None /\ work' = None
    /\ UNCHANGED <<root, up, lane, op, closing, job, poll, run, update, torn, fatal, deaths, faults>>

\* What only the switch changes: the roots and the marks of a failed one.
SwitchStep(step) ==
    /\ GateStep("switch", step)
    /\ UNCHANGED <<up, lane, closing, job, poll, run, work, update, deaths>>

\* Mutant: a render that waits for the lane does not block a switch.
Blocked_RunsOnly ==
    \/ \E r \in Runs : run[r].st = "running" /\ run[r].root = root.store
    \/ work # None

\* project_switch_blocker: runs and renders of the store's project, and any
\* Agent work.
Blocked ==
    \/ \E r \in Runs : run[r].st = "running" /\ run[r].root = root.store
    \/ \E j \in Jobs : /\ job[j].root = root.store
                       /\ job[j].st \in {"submitted", "running", "cancel_requested"}
    \/ work # None

SwitchProject(to) ==
    /\ GateFree /\ closing = "no" /\ ~Blocked
    /\ op' = [NoOp EXCEPT !.kind = "switch", !.step = "prepare", !.to = to,
                          !.from = [ui |-> root.ui, store |-> root.store]]
    /\ UNCHANGED <<root, up, lane, closing, job, poll, run, work, update, torn, fatal, deaths,
                   faults>>

\* The extension host builds the target's project scope before anything changes.
SwitchPrepares ==
    /\ SwitchStep("prepare") /\ UNCHANGED <<root, torn, fatal>>
    /\ \/ Goto("sync") /\ UNCHANGED faults
       \/ Release /\ Fails

\* sync_workspace_project_root under the lane: setwd in Workspace R, then the
\* recovery of the target's file mutations.  It may fail before or after setwd,
\* and a setwd that R refuses counts as a success: the result is not looked at.
SyncResults(to) ==
    IF faults < MaxFaults THEN [ok : BOOLEAN, cwd : {to, root.cwd}] ELSE {[ok |-> TRUE, cwd |-> to]}

\* Workspace R has to end up in one project; torn says that it did not.
Enter(r, to, owner) ==
    /\ root' = [root EXCEPT !.cwd = r.cwd]
    /\ torn' = (r.cwd \notin {owner, None})
    /\ faults' = IF r = [ok |-> TRUE, cwd |-> to] THEN faults ELSE faults + 1

SwitchSyncs ==
    /\ SwitchStep("sync") /\ UNCHANGED fatal
    /\ \/ ~up /\ Release /\ UNCHANGED <<root, torn, faults>>
       \/ /\ up /\ lane = None
          /\ \E r \in SyncResults(op.to) :
              IF r.ok THEN Goto("candidate") /\ Enter(r, op.to, op.to)
              ELSE Release /\ Enter(r, op.to, root.ui)

\* A step that may fail, and then hands over to recover_failed_project_switch.
\* The plugins are torn down before the first change of the store.
SwitchTries(step, next, new) ==
    /\ SwitchStep(step) /\ UNCHANGED <<torn, fatal>>
    /\ LET left == IF step = "store" /\ op.to # op.from.ui THEN None ELSE root.plug
       IN \/ root' = [new EXCEPT !.plug = left] /\ Goto(next) /\ UNCHANGED faults
          \/ root' = [root EXCEPT !.plug = left] /\ Fails /\ Goto("resync")

\* BuildTarget: the target's Workspace scope and its watcher, not yet used.
BuildTarget == SwitchTries("candidate", "store", root)
SetStoreRoot == SwitchTries("store", "last", [root EXCEPT !.store = op.to])
SaveLastOpened == SwitchTries("last", "publish", [root EXCEPT !.last = op.to])

\* From here nothing fails: the interface's root, the watcher, the extension
\* scopes, the plugins.
PublishSwitch ==
    /\ SwitchStep("publish") /\ UNCHANGED faults
    /\ root' = [root EXCEPT !.ui = op.to, !.watch = op.to, !.ext = op.to, !.plug = op.to]
    /\ fatal' = FALSE /\ UNCHANGED torn
    /\ Release

\* recover_failed_project_switch: Workspace R goes back, then the store; a
\* failure of either is fatal.
RecoverSyncs ==
    /\ SwitchStep("resync") /\ up /\ lane = None
    /\ \E r \in SyncResults(op.from.ui) :
        /\ Enter(r, op.from.ui, op.from.ui)
        /\ IF r.ok THEN Goto("restore") /\ UNCHANGED fatal ELSE Release /\ fatal' = TRUE

\* Mutant: the store keeps the target's root.
RecoverRestores_Workspace ==
    /\ SwitchStep("restore") /\ UNCHANGED <<torn, fatal, faults>>
    /\ root' = [root EXCEPT !.plug = op.from.ui] /\ Release


RecoverRestores ==
    /\ SwitchStep("restore") /\ UNCHANGED torn
    /\ \/ /\ root' = [root EXCEPT !.store = op.from.store, !.plug = op.from.ui]
          /\ Release /\ UNCHANGED <<fatal, faults>>
       \/ Fails /\ fatal' = TRUE /\ Release /\ UNCHANGED root

-----------------------------------------------------------------------------
(* The other holders of the gate: restart, start, close, install.          *)

OpenJobs == {j \in Jobs : job[j].root = root.ui /\ job[j].st \in {"submitted", "running", "cancel_requested"}}

\* restart_workspace: the plugins are torn down, the project's open renders
\* marked and their tasks aborted, the active run marked, session and context
\* taken away and the session interrupted.
RestartWorkspace ==
    /\ GateFree /\ closing = "no"
    /\ work' = None /\ up' = FALSE
    /\ root' = [root EXCEPT !.plug = None]
    /\ job' = [j \in Jobs |->
                 IF j \in OpenJobs
                 THEN [job[j] EXCEPT !.st = "cancel_requested", !.task = "ended", !.out = "ok"]
                 ELSE job[j]]
    /\ LET active == {r \in Jobs : run[r].st = "running" /\ run[r].root = root.ui}
       IN run' = [r \in Runs |-> [run[r] EXCEPT !.cancel = @ \/ r \in active]]
    /\ lane' = IF lane \in OpenJobs THEN None ELSE lane
    /\ op' = [NoOp EXCEPT !.kind = "restart", !.step = "drain", !.jobs = OpenJobs]
    /\ UNCHANGED <<closing, poll, update, torn, fatal, deaths, faults>>

\* The old context's lock, or fifteen seconds and everything is put back.
RestartDrains ==
    /\ GateStep("restart", "drain")
    /\ \/ lane = None /\ Goto("launch") /\ UNCHANGED up
       \/ lane # None /\ up' = TRUE /\ Release
    /\ UNCHANGED <<root, lane, closing, job, poll, run, work, update, torn, fatal, deaths, faults>>

WorkspaceStart ==
    /\ GateFree /\ ~up /\ closing = "no"
    /\ op' = [NoOp EXCEPT !.kind = "start", !.step = "launch"]
    /\ UNCHANGED <<root, up, lane, closing, job, poll, run, work, update, torn, fatal, deaths,
                   faults>>

\* start_workspace: a new session, the store bound to the interface's project,
\* and every run of before that still reads running becomes interrupted.
Launch ==
    /\ op.kind \in {"restart", "start"} /\ op.step = "launch"
    /\ UNCHANGED <<closing, poll, work, update, fatal, deaths>>
    /\ \/ Fails /\ Release /\ UNCHANGED <<root, up, lane, job, run, torn>>
       \/ /\ up' = TRUE /\ lane' = None /\ torn' = FALSE
          /\ root' = [root EXCEPT !.store = root.ui, !.cwd = None, !.ext = root.ui,
                                  !.plug = root.ui]
          /\ run' = [r \in Runs |-> IF r \in Consoles THEN NoRun
                                    ELSE IF run[r].st = "running"
                                    THEN [run[r] EXCEPT !.st = "interrupted", !.cancel = FALSE]
                                    ELSE run[r]]
          /\ job' = [j \in Jobs |-> [job[j] EXCEPT !.old = @ \/ job[j].task \in {"queued", "executing", "returned"}]]
          /\ IF op.kind = "restart" THEN Goto("settle") ELSE Release
          /\ UNCHANGED faults

\* finalize_workspace_start: Workspace R enters the project, and the renders the
\* restart stopped are settled from their runs.
RestartSettles ==
    /\ GateStep("restart", "settle") /\ lane = None
    /\ UNCHANGED <<up, lane, closing, poll, run, work, update, deaths>>
    /\ Release
    /\ \E r \in SyncResults(root.ui) :
        /\ Enter(r, root.ui, root.ui)
        /\ fatal' = (fatal /\ ~r.ok)
        /\ job' = [j \in Jobs |->
                     IF r.ok /\ j \in op.jobs
                     THEN Reconciled(job[j], IF run[j].root = root.ui THEN run[j].st ELSE "none")
                     ELSE job[j]]

\* The process is gone: what it had in memory is lost, the store and the disk
\* stay.
ProcessEnds ==
    /\ op' = Down /\ up' = FALSE /\ lane' = None /\ closing' = "no" /\ work' = None
    /\ root' = [root EXCEPT !.ui = root.last, !.cwd = None, !.watch = None, !.ext = None,
                            !.plug = None]
    /\ job' = [j \in Jobs |-> IF job[j].st = "none" THEN NoJob
                              ELSE [NoJob EXCEPT !.st = "expired", !.root = job[j].root,
                                                 !.task = "ended", !.early = job[j].early]]
    /\ poll' = [j \in Jobs |-> "idle"] /\ torn' = FALSE /\ fatal' = FALSE

\* The last window is closed, or a verified update is to be installed: both set
\* shutdown_started before they wait for the gate.
CloseRequested ==
    /\ Alive /\ closing = "no" /\ closing' = "close"
    /\ UNCHANGED <<root, up, lane, op, job, poll, run, work, update, torn, fatal, deaths, faults>>

UpdateStep == UNCHANGED <<root, up, lane, op, job, poll, run, work, torn, fatal, deaths, faults>>

\* Mutant: a download is taken as it comes.
Verified_Always(bytes) == bytes \in {"signed", "forged"}

\* download_and_verify_native_update takes the update a check has offered: only
\* what the bundled key signed passes.
Verified(bytes) == bytes = "signed"

InstallNativeUpdate ==
    /\ Alive /\ closing = "no" /\ update = NoUpdate
    /\ \E bytes \in {"signed", "forged"} :
        /\ Verified(bytes)
        /\ update' = [update EXCEPT !.bytes = bytes]
    /\ closing' = "install"
    /\ UpdateStep

\* shutdown_application: it fails only while it stops Agent work, and then the
\* installer gives the application back while a closing one exits all the same.
BeginShutdown ==
    /\ GateFree /\ closing # "no"
    /\ \/ /\ work' = None /\ up' = FALSE
          /\ root' = [root EXCEPT !.plug = None, !.watch = None, !.ext = None]
          /\ op' = [NoOp EXCEPT !.kind = closing, !.step = "drain"]
          /\ UNCHANGED <<lane, closing, job, poll, run, torn, fatal, update, faults>>
       \/ /\ Fails /\ closing = "close" /\ ProcessEnds /\ UNCHANGED <<run, update>>
       \/ /\ Fails /\ closing = "install"
          /\ closing' = "no" /\ update' = NoUpdate
          /\ UNCHANGED <<root, up, lane, op, job, poll, run, work, torn, fatal>>
    /\ UNCHANGED deaths

\* The lane, or five seconds; the session is ended either way.
ShutdownDrains ==
    /\ op.step = "drain" /\ UNCHANGED <<run, update, deaths, faults>>
    /\ \/ op.kind = "close" /\ ProcessEnds
       \/ /\ op.kind = "install" /\ Goto("preserve")
          /\ UNCHANGED <<root, up, lane, closing, job, poll, work, torn, fatal>>

\* A step of the installer, and its last one.
InstallStep(step) == GateStep("install", step) /\ UNCHANGED <<run, deaths>>
InstallGoesOn(step) ==
    /\ Goto(step)
    /\ UNCHANGED <<root, up, lane, closing, job, poll, work, torn, fatal, faults>>

\* The installed application is moved aside, the staged one moved in; what the
\* failed second rename left is undone, or cannot be.
PreserveApp ==
    /\ InstallStep("preserve")
    /\ \/ update' = [update EXCEPT !.target = "gone", !.backup = TRUE] /\ InstallGoesOn("replace")
       \/ Fails /\ ProcessEnds /\ UNCHANGED update

Installed == IF update.bytes = "signed" THEN "new" ELSE "forged"

ReplaceApp ==
    /\ InstallStep("replace")
    /\ \/ update' = [update EXCEPT !.target = Installed] /\ InstallGoesOn("open")
       \/ /\ Fails /\ ProcessEnds
          /\ update' \in {update, [update EXCEPT !.target = "current", !.backup = FALSE]}

\* The new application is launched and the backup removed, or it is removed and
\* the backup moved back, or that fails too.
OpenApp ==
    /\ InstallStep("open") /\ ProcessEnds
    /\ \/ update' = [update EXCEPT !.backup = FALSE] /\ UNCHANGED faults
       \/ /\ Fails
          /\ update' \in {[update EXCEPT !.target = "current", !.backup = FALSE],
                          [update EXCEPT !.target = "gone"]}

-----------------------------------------------------------------------------
Die ==
    /\ Alive /\ deaths < MaxDeaths /\ deaths' = deaths + 1
    /\ ProcessEnds
    /\ UNCHANGED <<run, update, faults>>

\* The next start shows the last opened project and has no Workspace yet; it runs
\* whatever application is in place.
Relaunch ==
    /\ op.kind = "down" /\ update.target # "gone"
    /\ op' = NoOp /\ update' = NoUpdate
    /\ UNCHANGED <<root, up, lane, closing, job, poll, run, work, torn, fatal, deaths, faults>>

SwitchNext ==
    \/ \E to \in Roots : SwitchProject(to)
    \/ SwitchPrepares \/ SwitchSyncs \/ BuildTarget \/ SetStoreRoot \/ SaveLastOpened
    \/ PublishSwitch \/ RecoverSyncs \/ RecoverRestores

RenderNext ==
    \E j \in Jobs :
        \/ RenderDocumentJob(j) \/ RenderStarts(j) \/ RenderReturns(j) \/ RenderEnds(j)
        \/ RenderJobStatus(j) \/ RenderJobStatusReads(j)
        \/ CancelRenderJob(j) \/ CancelRenderInterrupts(j)

GateNext ==
    \/ RestartWorkspace \/ RestartDrains \/ RestartSettles
    \/ WorkspaceStart \/ Launch
    \/ CloseRequested \/ InstallNativeUpdate \/ BeginShutdown
    \/ ShutdownDrains \/ PreserveApp \/ ReplaceApp \/ OpenApp

Next ==
    \/ SwitchNext \/ RenderNext \/ GateNext
    \/ \E u \in Consoles : ExecuteR(u) \/ ExecuteREnds(u)
    \/ \E j \in Jobs : RequestRunInterrupt(j)
    \/ AdmitWork \/ WorkEnds \/ Die \/ Relaunch

Spec == Init /\ [][Next]_vars

-----------------------------------------------------------------------------
\* Whenever no transition is under way and none failed beyond repair, the roots
\* the switch changed one by one name one project again: the interface, the
\* store, the last opened project on disk, the watcher, the extension scope and
\* the Agent work of the registry, and Workspace R unless a setwd went wrong
\* (switch_project_with_watcher_factory, recover_failed_project_switch).
ProjectsAgree ==
    GateFree /\ ~fatal =>
        /\ root.last = root.ui
        /\ up => root.store = root.ui
        /\ {root.watch, root.ext, root.plug} \subseteq {root.ui, None}
        /\ work \in {root.ui, None}
        /\ root.cwd \in {root.ui, None} \/ torn

\* A render that was submitted with no switch under way is recorded in the
\* project it was submitted for: the queue of the lane never carries it into
\* another project (project_switch_blocker).
EarlyRendersStay ==
    \A j \in Jobs : job[j].early /\ run[j].st # "none" => run[j].root = job[j].root

\* A job that reads completed has a run that completed, whatever a status call
\* read while the task went on, a cancel marked or a restart settled
\* (finish_render_job, reconcile_render_job, restart_workspace).
CompletedRendersRan ==
    \A j \in Jobs : job[j].st = "completed" => run[j].st = "completed"

\* A render is recorded where it was asked for and reads completed only if it was.
RendersTellRuns == EarlyRendersStay /\ CompletedRendersRan

\* The application on disk is the old one or one that was verified, and while
\* neither is in its place the old one waits beside it
\* (install_verified_native_update and the two renames of each platform).
AppRecoverable ==
    /\ update.target # "forged"
    /\ update.target = "gone" => update.backup

=============================================================================
