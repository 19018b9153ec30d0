--------------------------- MODULE DesktopProofs ---------------------------
(***************************************************************************)
(* What holds of the parts of the desktop for every value of their          *)
(* constants: the open project, the renders and the installer; the          *)
(* migration of the store and its records; the Conversations, the model     *)
(* settings and the Git review.                                             *)
(***************************************************************************)
EXTENDS ProjectSession, StoreMigration, ProjectRecords, AgentHistory, ModelAccess, GitReview,
        FiniteSetTheorems, WellFoundedInduction, TLAPS


-----------------------------------------------------------------------------
(* ProjectSession *)

SwitchSteps == {"prepare", "sync", "candidate", "store", "last", "publish", "resync", "restore"}

IsOp(o) == o = [kind |-> o.kind, step |-> o.step, to |-> o.to, from |-> o.from, jobs |-> o.jobs]

\* What each holder of the gate is at.
OpInv ==
    /\ IsOp(op) /\ op.kind \in OpKinds
    /\ op.kind = "none" => op.step = "none"
    /\ op.kind = "down" => op.step = "none"
    /\ op.kind = "switch" => op.step \in SwitchSteps /\ op.to \in Roots
    /\ op.kind = "restart" => op.step \in {"drain", "launch", "settle"}
    /\ op.kind = "start" => op.step = "launch"
    /\ op.kind = "close" => op.step = "drain"
    /\ op.kind = "install" => op.step \in {"drain", "preserve", "replace", "open"}

RootPlaces == {"ui", "store", "cwd", "watch", "ext", "plug", "last"}

\* The places that always name a project, and those that follow the interface.
PlacesInv ==
    /\ root \in [RootPlaces -> Roots \cup {None}]
    /\ root.ui \in Roots /\ root.store \in Roots /\ root.last \in Roots
    /\ root.watch \in {root.ui, None} /\ root.ext \in {root.ui, None} /\ root.plug \in {root.ui, None}
    /\ work \in {root.ui, None}
    /\ op.kind = "switch" => work = None

\* How far a switch has come, and what it can go back to.
SwitchInv ==
    /\ torn \in BOOLEAN /\ fatal \in BOOLEAN /\ up \in BOOLEAN
    /\ op.kind = "switch" =>
          /\ op.from.ui = root.ui /\ op.from.store \in Roots
          /\ up /\ ~fatal => op.from.store = root.ui
          /\ op.step \in {"prepare", "sync", "candidate", "store"} => root.store = op.from.store
          /\ op.step \in {"last", "publish"} => root.store = op.to
          /\ op.step \notin {"prepare", "sync"} => up
          /\ op.step = "publish" => root.last = op.to
    /\ ~(op.kind = "switch" /\ op.step = "publish") => root.last = root.ui
    /\ op.kind = "switch" /\ op.step \in {"candidate", "store", "last", "publish"} =>
          root.cwd \in {op.to, None} \/ torn
    /\ ~(op.kind = "switch" /\ op.step \in {"candidate", "store", "last", "publish", "resync"}) =>
          root.cwd \in {root.ui, None} \/ torn

LiveTask == {"queued", "executing", "returned"}

\* The store follows the interface while a Workspace is up; when it does not, because
\* the process died in a switch, nothing of before is at work.
StoreInv ==
    /\ op.kind # "switch" /\ up /\ ~fatal => root.store = root.ui
    /\ op.kind = "restart" /\ op.step = "settle" => root.store = root.ui /\ up
    /\ ~up /\ ~fatal /\ root.store # root.ui =>
          lane = None /\ \A j \in Jobs : job[j].task \notin LiveTask

\* The renders a restart will settle have ended.
SettleInv == op.kind = "restart" => \A j \in op.jobs : job[j].task = "ended"

AgreeInv == OpInv /\ PlacesInv /\ SwitchInv /\ StoreInv /\ SettleInv

\* A job, its run and what a status call has read of it: a job waits for the lane before
\* its run exists, and one submitted with no switch under way keeps switches away while
\* it waits.
Fits(n, r, p) ==
    /\ n.st = "none" => n.task = "none" /\ r.st = "none"
    /\ n.task = "none" => n.st = "none"
    /\ n.task = "queued" => r.st = "none" /\ p = "idle" /\ n.st \in {"submitted", "cancel_requested"}
    /\ n.task = "executing" => r.st \in {"running", "interrupted"}
    /\ n.task = "returned" /\ n.out = "ok" => r.st = "completed"
    /\ p # "idle" => r.st # "none"
    /\ p = "completed" => r.st = "completed"
    /\ n.st = "completed" => r.st = "completed"
    /\ n.early /\ r.st # "none" => r.root = n.root
    /\ n.early /\ n.task = "queued" =>
          op.kind # "switch" /\ ~fatal /\ n.root = root.ui /\ root.store = root.ui

RenderInv == \A j \in Jobs : Fits(job[j], run[j], poll[j])

\* The application on disk, by step of the installer.
UpdateInv ==
    /\ update = [target |-> update.target, backup |-> update.backup, bytes |-> update.bytes]
    /\ update.target # "forged" /\ (update.target = "gone" => update.backup)
    /\ closing = "install" \/ op.kind = "install" => update.bytes = "signed"
    /\ op.kind = "install" /\ op.step \in {"replace", "open"} => update.backup
    /\ op.kind = "install" /\ op.step = "open" => update.target # "gone"
    /\ op.kind = "down" => closing = "no"

SessionInv == TypeOK /\ AgreeInv /\ RenderInv /\ UpdateInv

-----------------------------------------------------------------------------
\* Types of the records, and what a step of one job needs

JobRec == [st : JobStates, root : Roots \cup {None}, task : TaskSteps,
           cancel : BOOLEAN, out : RenderOutcomes, old : BOOLEAN, early : BOOLEAN]
RunRec == [st : RunStates, root : Roots \cup {None}, cancel : BOOLEAN]
PollRec == RunStates \cup {"idle"}

LEMMA SessionTypes ==
  ASSUME TypeOK
  PROVE  job \in [Jobs -> JobRec] /\ run \in [Runs -> RunRec] /\ poll \in [Jobs -> PollRec] /\ lane \in Runs \cup {None}
BY DEF TypeOK, JobRec, RunRec, PollRec

\* Nothing that is not at work begins to be while there is no Workspace, and what has
\* ended never.
Quiet ==
    /\ ~up => /\ lane' \in {None, lane} \/ \E k \in Jobs : job[k].task \in LiveTask
              /\ \A k \in Jobs : job'[k].task \in LiveTask => job[k].task \in LiveTask
    /\ \A k \in Jobs : job[k].task = "ended" => job'[k].task = "ended"

Aside == UNCHANGED <<root, up, op, closing, work, update, torn, fatal, deaths, faults>>

\* Steps of the lane: renders and console code.
LEMMA LaneFrame ==
  ASSUME SessionInv, Aside, Quiet, RenderInv', lane' \in Runs \cup {None},
         job' \in [Jobs -> JobRec], run' \in [Runs -> RunRec], poll' \in [Jobs -> PollRec]
  PROVE  SessionInv'
<1>1. TypeOK'
  BY DEF SessionInv, Aside, TypeOK, JobRec, RunRec, PollRec
<1>2. OpInv' /\ PlacesInv' /\ SwitchInv' /\ UpdateInv'
  BY DEF SessionInv, AgreeInv, Aside, OpInv, PlacesInv, SwitchInv, UpdateInv
<1>3. StoreInv'
  BY DEF SessionInv, AgreeInv, Aside, StoreInv, Quiet
<1>4. SettleInv'
  <2>1. op \in [kind : OpKinds, step : OpSteps, to : Roots \cup {None},
               from : [ui : Roots, store : Roots] \cup {None}, jobs : SUBSET Jobs]
    BY DEF SessionInv, TypeOK
  <2>2. op.jobs \subseteq Jobs
    BY <2>1
  <2>. QED BY <2>2 DEF SessionInv, AgreeInv, Aside, SettleInv, Quiet
<1>. QED BY <1>1, <1>2, <1>3, <1>4 DEF SessionInv, AgreeInv

\* A step about one job.
Touches(j, n, r, p) ==
    /\ job' = [job EXCEPT ![j] = n] /\ run' = [run EXCEPT ![j] = r] /\ poll' = [poll EXCEPT ![j] = p]
    /\ n \in JobRec /\ r \in RunRec /\ p \in PollRec /\ Fits(n, r, p)

LEMMA JobFrame ==
  ASSUME SessionInv, Aside, lane' \in Runs \cup {None}, NEW j \in Jobs, NEW n, NEW r, NEW p, Touches(j, n, r, p),
         ~up => /\ lane' \in {None, lane} \/ job[j].task \in LiveTask
                /\ n.task \in LiveTask => job[j].task \in LiveTask,
         job[j].task = "ended" => n.task = "ended"
  PROVE  SessionInv'
<1>1. job \in [Jobs -> JobRec] /\ run \in [Runs -> RunRec] /\ poll \in [Jobs -> PollRec]
  BY SessionTypes DEF SessionInv
<1>2. /\ job' \in [Jobs -> JobRec] /\ run' \in [Runs -> RunRec] /\ poll' \in [Jobs -> PollRec]
      /\ job'[j] = n /\ run'[j] = r /\ poll'[j] = p
      /\ \A k \in Jobs : k # j => job'[k] = job[k] /\ run'[k] = run[k] /\ poll'[k] = poll[k]
  BY <1>1 DEF Touches, Runs
<1>4. ASSUME NEW k \in Jobs PROVE Fits(job[k], run[k], poll[k])'
  <2>1. CASE k = j
    BY <1>2, <2>1 DEF Touches, Fits, Aside
  <2>2. CASE k # j
    BY <1>2, <2>2 DEF SessionInv, RenderInv, Fits, Aside
  <2>. QED BY <2>1, <2>2
<1>5. RenderInv'
  BY <1>4 DEF RenderInv
<1>6. Quiet
  BY <1>2 DEF Quiet
<1>. QED BY <1>2, <1>5, <1>6, LaneFrame

LEMMA SubmitSteps ==
  ASSUME SessionInv, NEW j \in Jobs, RenderDocumentJob(j)
  PROVE  SessionInv'
<1>1. job \in [Jobs -> JobRec] /\ run \in [Runs -> RunRec] /\ poll \in [Jobs -> PollRec] /\ lane \in Runs \cup {None}
  BY SessionTypes DEF SessionInv
<1>2. /\ Aside /\ Alive /\ lane' = lane /\ job[j].st = "none" /\ run' = [run EXCEPT ![j] = run[j]]
      /\ poll' = [poll EXCEPT ![j] = poll[j]]
  BY <1>1 DEF RenderDocumentJob, JobStep, Aside, Runs
<1>3. PICK n : n = [st |-> IF up THEN "submitted" ELSE "failed", root |-> root.ui,
                    task |-> IF up THEN "queued" ELSE "ended", cancel |-> FALSE, out |-> "ok", old |-> FALSE,
                    early |-> op.kind # "switch" /\ ~fatal]
  OBVIOUS
<1>4. job' = [job EXCEPT ![j] = n]
  <2>1. PICK new : new = [NoJob EXCEPT !.st = "submitted", !.root = root.ui, !.task = "queued",
                                       !.early = op.kind # "switch" /\ ~fatal]
    OBVIOUS
  <2>2. job' = [job EXCEPT ![j] = IF up THEN new ELSE [new EXCEPT !.st = "failed", !.task = "ended"]]
    BY <2>1 DEF RenderDocumentJob
  <2>3. new = [st |-> "submitted", root |-> root.ui, task |-> "queued", cancel |-> FALSE, out |-> "ok", old |-> FALSE,
               early |-> op.kind # "switch" /\ ~fatal]
    BY <2>1 DEF NoJob
  <2>4. CASE up
    <3>1. n = new
      BY <1>3, <2>3, <2>4
    <3>. QED BY <2>2, <2>4, <3>1
  <2>5. CASE ~up
    <3>1. n = [st |-> "failed", root |-> root.ui, task |-> "ended", cancel |-> FALSE, out |-> "ok", old |-> FALSE,
               early |-> op.kind # "switch" /\ ~fatal]
      BY <1>3, <2>5
    <3>2. PICK m : m = [new EXCEPT !.st = "failed", !.task = "ended"]
      OBVIOUS
    <3>3. m = [st |-> "failed", root |-> root.ui, task |-> "ended", cancel |-> FALSE, out |-> "ok", old |-> FALSE,
               early |-> op.kind # "switch" /\ ~fatal]
      BY <2>3, <3>2
    <3>. QED BY <2>2, <2>5, <3>1, <3>2, <3>3
  <2>. QED BY <2>4, <2>5
<1>5. root.ui \in Roots /\ up \in BOOLEAN /\ fatal \in BOOLEAN /\ (op.kind # "switch" /\ up /\ ~fatal => root.store = root.ui)
  BY DEF SessionInv, AgreeInv, PlacesInv, SwitchInv, StoreInv
<1>6. n \in JobRec
  BY <1>3, <1>5 DEF JobRec, JobStates, TaskSteps, RenderOutcomes, TerminalJob
<1>7. run[j].st = "none" /\ poll[j] = "idle" /\ job[j].task = "none"
  BY <1>2 DEF SessionInv, RenderInv, Fits
<1>8. Fits(n, run[j], poll[j])
  BY <1>3, <1>5, <1>7 DEF Fits
<1>9. Touches(j, n, run[j], poll[j])
  BY <1>1, <1>2, <1>4, <1>6, <1>8 DEF Touches, Runs
<1>10. ~up => n.task = "ended"
  BY <1>3
<1>. QED BY <1>1, <1>2, <1>7, <1>9, <1>10, JobFrame DEF LiveTask
LEMMA CreatedIs == Created = [st |-> "running", root |-> root.store, cancel |-> FALSE]
<1>1. PICK x : x = root.store
  OBVIOUS
<1>2. Created = [NoRun EXCEPT !.st = "running", !.root = x]
  BY <1>1 DEF Created
<1>3. PICK c : c = [NoRun EXCEPT !.st = "running", !.root = x]
  OBVIOUS
<1>4. c = [st |-> "running", root |-> x, cancel |-> FALSE]
  BY <1>3 DEF NoRun
<1>. QED BY <1>1, <1>2, <1>3, <1>4

LEMMA RenderStartSteps ==
  ASSUME SessionInv, NEW j \in Jobs, RenderStarts(j)
  PROVE  SessionInv'
<1>1. job \in [Jobs -> JobRec] /\ run \in [Runs -> RunRec] /\ poll \in [Jobs -> PollRec] /\ lane \in Runs \cup {None}
  BY SessionTypes DEF SessionInv
<1>2. Aside /\ job[j].task = "queued" /\ poll' = [poll EXCEPT ![j] = poll[j]] /\ job[j] \in JobRec /\ run[j] \in RunRec
  BY <1>1 DEF RenderStarts, JobStep, Aside, Runs
<1>3. Fits(job[j], run[j], poll[j]) /\ poll[j] \in PollRec
  BY <1>1 DEF SessionInv, RenderInv
<1>4. root.store \in Roots
  BY DEF SessionInv, AgreeInv, PlacesInv
<1>5. CASE job[j].st = "cancel_requested" /\ UNCHANGED <<run, lane>>
           /\ job' = [job EXCEPT ![j] = [FinishJob(@, "interrupted") EXCEPT !.task = "ended"]]
  <2>1. PICK n : n = [job[j] EXCEPT !.st = "interrupted", !.task = "ended"]
    OBVIOUS
  <2>2. n \in JobRec /\ n.st = "interrupted" /\ n.task = "ended" /\ n.early = job[j].early /\ n.root = job[j].root
    BY <1>2, <2>1 DEF JobRec, JobStates, TaskSteps, TerminalJob
  <2>3. job' = [job EXCEPT ![j] = n] /\ run' = [run EXCEPT ![j] = run[j]]
    BY <1>1, <1>2, <1>5, <2>1 DEF FinishJob, TerminalJob, Runs, JobRec
  <2>4. Touches(j, n, run[j], poll[j])
    BY <1>2, <1>3, <2>2, <2>3 DEF Touches, Fits
  <2>. QED BY <1>1, <1>2, <1>5, <2>2, <2>4, JobFrame DEF LiveTask
<1>6. CASE job[j].st # "cancel_requested" /\ job' = [job EXCEPT ![j].st = "running", ![j].task = "executing"]
           /\ run' = [run EXCEPT ![j] = Created] /\ lane' \in {lane, j}
  <2>1. PICK n : n = [job[j] EXCEPT !.st = "running", !.task = "executing"]
    OBVIOUS
  <2>2. n \in JobRec /\ n.st = "running" /\ n.task = "executing" /\ n.early = job[j].early /\ n.root = job[j].root
    BY <1>2, <2>1 DEF JobRec, JobStates, TaskSteps, TerminalJob
  <2>3. PICK r : r = [st |-> "running", root |-> root.store, cancel |-> FALSE]
    OBVIOUS
  <2>4. r \in RunRec /\ r.st = "running" /\ r.root = root.store
    BY <1>4, <2>3 DEF RunRec, RunStates
  <2>5. job' = [job EXCEPT ![j] = n]
    BY <1>1, <1>2, <1>6, <2>1
  <2>8. run' = [run EXCEPT ![j] = r]
    BY <1>6, <2>3, CreatedIs
  <2>6. Touches(j, n, r, poll[j])
    BY <1>2, <1>3, <2>2, <2>4, <2>5, <2>8 DEF Touches, Fits
  <2>7. lane' \in Runs \cup {None}
    BY <1>1, <1>6 DEF Runs
  <2>. QED BY <1>2, <2>6, <2>7, JobFrame DEF LiveTask
<1>. QED BY <1>5, <1>6 DEF RenderStarts

LEMMA RenderReturnSteps ==
  ASSUME SessionInv, NEW j \in Jobs, RenderReturns(j)
  PROVE  SessionInv'
<1>1. job \in [Jobs -> JobRec] /\ run \in [Runs -> RunRec] /\ poll \in [Jobs -> PollRec] /\ lane \in Runs \cup {None}
  BY SessionTypes DEF SessionInv
<1>2. Aside /\ job[j].task = "executing" /\ poll' = [poll EXCEPT ![j] = poll[j]] /\ job[j] \in JobRec /\ run[j] \in RunRec /\ lane' = lane
  BY <1>1 DEF RenderReturns, JobStep, Aside, Runs
<1>3. Fits(job[j], run[j], poll[j]) /\ poll[j] \in PollRec
  BY <1>1 DEF SessionInv, RenderInv
<1>4. PICK out \in RenderOutcomes : /\ run' = [run EXCEPT ![j] = Finished(run[j], out)]
                              /\ job' = [job EXCEPT ![j].task = "returned", ![j].out = out]
  BY DEF RenderReturns
<1>5. PICK n : n = [job[j] EXCEPT !.task = "returned", !.out = out]
  OBVIOUS
<1>6. n \in JobRec /\ n.st = job[j].st /\ n.task = "returned" /\ n.out = out /\ n.early = job[j].early /\ n.root = job[j].root
  BY <1>2, <1>5 DEF JobRec, TaskSteps
<1>7. PICK r : r = Finished(run[j], out)
  OBVIOUS
<1>8. r \in RunRec /\ r.root = run[j].root /\ r.st \in {"completed", "failed", "interrupted"} /\ (out = "ok" => r.st = "completed")
  BY <1>2, <1>7 DEF Finished, RunRec, RunStates, RenderOutcomes
<1>9. job' = [job EXCEPT ![j] = n] /\ run' = [run EXCEPT ![j] = r]
  BY <1>1, <1>2, <1>4, <1>5, <1>7
<1>10. poll[j] # "completed" /\ job[j].st # "completed" /\ job[j].st # "none"
  BY <1>2, <1>3 DEF Fits
<1>11. Touches(j, n, r, poll[j])
  BY <1>2, <1>3, <1>6, <1>8, <1>9, <1>10 DEF Touches, Fits
<1>. QED BY <1>1, <1>2, <1>11, JobFrame DEF LiveTask

LEMMA RenderEndSteps ==
  ASSUME SessionInv, NEW j \in Jobs, RenderEnds(j)
  PROVE  SessionInv'
<1>1. job \in [Jobs -> JobRec] /\ run \in [Runs -> RunRec] /\ poll \in [Jobs -> PollRec] /\ lane \in Runs \cup {None}
  BY SessionTypes DEF SessionInv
<1>2. /\ Aside /\ job[j].task = "returned" /\ poll' = [poll EXCEPT ![j] = poll[j]] /\ run' = [run EXCEPT ![j] = run[j]]
      /\ job[j] \in JobRec /\ run[j] \in RunRec /\ lane' \in {lane, None}
  BY <1>1 DEF RenderEnds, JobStep, Aside, Runs
<1>3. Fits(job[j], run[j], poll[j]) /\ poll[j] \in PollRec
  BY <1>1 DEF SessionInv, RenderInv
<1>4. PICK st : /\ st \in {"completed", "failed", "interrupted"} /\ (st = "completed" => job[j].out = "ok")
                /\ job' = [job EXCEPT ![j] = [FinishJob(@, st) EXCEPT !.task = "ended", !.out = "ok", !.old = FALSE]]
  BY <1>2 DEF RenderEnds
<1>5. PICK n : n = [FinishJob(job[j], st) EXCEPT !.task = "ended", !.out = "ok", !.old = FALSE]
  OBVIOUS
<1>6. /\ n \in JobRec /\ n.st \in {job[j].st, st} /\ n.task = "ended" /\ n.early = job[j].early /\ n.root = job[j].root
  BY <1>2, <1>4, <1>5 DEF JobRec, TaskSteps, JobStates, TerminalJob, RenderOutcomes, FinishJob
<1>7. job' = [job EXCEPT ![j] = n]
  BY <1>1, <1>4, <1>5
<1>8. job[j].st # "none" /\ st # "none" /\ (st = "completed" => run[j].st = "completed")
  BY <1>2, <1>3, <1>4 DEF Fits
<1>9. Touches(j, n, run[j], poll[j])
  BY <1>2, <1>3, <1>6, <1>7, <1>8 DEF Touches, Fits
<1>10. lane' \in Runs \cup {None}
  BY <1>1, <1>2
<1>. QED BY <1>2, <1>6, <1>9, <1>10, JobFrame DEF LiveTask

\* A step that changes one job and leaves its run and its status call alone.
LEMMA StatusSteps ==
  ASSUME SessionInv, NEW j \in Jobs, RenderJobStatus(j) \/ RenderJobStatusReads(j)
  PROVE  SessionInv'
<1>1. job \in [Jobs -> JobRec] /\ run \in [Runs -> RunRec] /\ poll \in [Jobs -> PollRec] /\ lane \in Runs \cup {None}
  BY SessionTypes DEF SessionInv
<1>2. Aside /\ run' = [run EXCEPT ![j] = run[j]] /\ job[j] \in JobRec /\ run[j] \in RunRec /\ lane' = lane
  BY <1>1 DEF RenderJobStatus, RenderJobStatusReads, JobStep, Aside, Runs
<1>3. Fits(job[j], run[j], poll[j]) /\ poll[j] \in PollRec
  BY <1>1 DEF SessionInv, RenderInv
<1>4. CASE RenderJobStatus(j) /\ job[j].st \notin TerminalJob
  <2>1. run[j].st # "none" /\ poll' = [poll EXCEPT ![j] = run[j].st] /\ job' = [job EXCEPT ![j] = job[j]] /\ job[j].st # "none"
    BY <1>1, <1>4 DEF RenderJobStatus, Listed
  <2>2. run[j].st \in PollRec
    BY <1>2 DEF RunRec, PollRec
  <2>3. Touches(j, job[j], run[j], run[j].st)
    BY <1>2, <1>3, <2>1, <2>2 DEF Touches, Fits
  <2>. QED BY <1>1, <1>2, <2>3, JobFrame
<1>5. CASE RenderJobStatus(j) /\ job[j].st \in TerminalJob
  <2>1. poll' = [poll EXCEPT ![j] = poll[j]] /\ job' = [job EXCEPT ![j].st = "expired"]
    BY <1>1, <1>5 DEF RenderJobStatus
  <2>2. PICK n : n = [job[j] EXCEPT !.st = "expired"]
    OBVIOUS
  <2>3. /\ n \in JobRec /\ n.st = "expired" /\ n.task = job[j].task /\ n.early = job[j].early /\ n.root = job[j].root
        /\ n.out = job[j].out
    BY <1>2, <2>2 DEF JobRec, JobStates
  <2>4. job' = [job EXCEPT ![j] = n]
    BY <1>1, <2>1, <2>2
  <2>5. job[j].task # "none" /\ job[j].task # "queued"
    BY <1>3, <1>5 DEF Fits, TerminalJob
  <2>6. Touches(j, n, run[j], poll[j])
    BY <1>2, <1>3, <2>1, <2>3, <2>4, <2>5 DEF Touches, Fits
  <2>. QED BY <1>1, <1>2, <2>3, <2>6, JobFrame
<1>6. CASE RenderJobStatusReads(j)
  <2>1. poll[j] # "idle" /\ poll' = [poll EXCEPT ![j] = "idle"] /\ job' = [job EXCEPT ![j] = Reconciled(@, poll[j])]
    BY <1>6 DEF RenderJobStatusReads
  <2>2. PICK n : n = Reconciled(job[j], poll[j])
    OBVIOUS
  <2>3. /\ n \in JobRec /\ n.st \in {job[j].st, "completed", "failed", "interrupted"} /\ n.task = job[j].task
        /\ n.early = job[j].early /\ n.root = job[j].root /\ n.out = job[j].out
        /\ (n.st = "completed" => job[j].st = "completed" \/ poll[j] = "completed")
    BY <1>2, <2>2 DEF JobRec, JobStates, TerminalJob, Reconciled, FinishJob
  <2>4. job' = [job EXCEPT ![j] = n]
    BY <1>1, <2>1, <2>2
  <2>5. job[j].task # "none" /\ job[j].task # "queued" /\ "idle" \in PollRec /\ job[j].st # "none"
    BY <1>3, <2>1 DEF Fits, PollRec
  <2>6. Touches(j, n, run[j], "idle")
    BY <1>2, <1>3, <2>1, <2>3, <2>4, <2>5 DEF Touches, Fits
  <2>. QED BY <1>1, <1>2, <2>3, <2>6, JobFrame
<1>. QED BY <1>4, <1>5, <1>6

LEMMA CancelSteps ==
  ASSUME SessionInv, NEW j \in Jobs, CancelRenderJob(j) \/ CancelRenderInterrupts(j)
  PROVE  SessionInv'
<1>1. job \in [Jobs -> JobRec] /\ run \in [Runs -> RunRec] /\ poll \in [Jobs -> PollRec] /\ lane \in Runs \cup {None}
  BY SessionTypes DEF SessionInv
<1>2. Aside /\ poll' = [poll EXCEPT ![j] = poll[j]] /\ job[j] \in JobRec /\ run[j] \in RunRec /\ lane' = lane
  BY <1>1 DEF CancelRenderJob, CancelRenderInterrupts, JobStep, Aside, Runs
<1>3. Fits(job[j], run[j], poll[j]) /\ poll[j] \in PollRec
  BY <1>1 DEF SessionInv, RenderInv
<1>4. CASE CancelRenderJob(j)
  <2>1. /\ job' = [job EXCEPT ![j].st = "cancel_requested", ![j].cancel = job[j].st = "running"]
        /\ run' = [run EXCEPT ![j] = run[j]] /\ job[j].st \in {"submitted", "running"}
    BY <1>1, <1>4 DEF CancelRenderJob, Runs
  <2>2. PICK b : b = (job[j].st = "running")
    OBVIOUS
  <2>3. PICK n : n = [job[j] EXCEPT !.st = "cancel_requested", !.cancel = b]
    OBVIOUS
  <2>4. /\ n \in JobRec /\ n.st = "cancel_requested" /\ n.task = job[j].task /\ n.early = job[j].early
        /\ n.root = job[j].root /\ n.out = job[j].out
    BY <1>2, <2>2, <2>3 DEF JobRec, JobStates
  <2>5. job' = [job EXCEPT ![j] = n]
    BY <1>1, <2>1, <2>2, <2>3
  <2>6. Touches(j, n, run[j], poll[j])
    BY <1>2, <1>3, <2>1, <2>4, <2>5 DEF Touches, Fits
  <2>. QED BY <1>1, <1>2, <2>4, <2>6, JobFrame
<1>5. CASE CancelRenderInterrupts(j)
  <2>1. PICK b : /\ b \in BOOLEAN /\ job' = [job EXCEPT ![j].cancel = FALSE] /\ run' = [run EXCEPT ![j].cancel = b]
    <3>1. PICK b : b = (run[j].cancel \/ (run[j].root = job[j].root /\ run[j].st = "running"))
      OBVIOUS
    <3>2. b \in BOOLEAN
      BY <3>1
    <3>. QED BY <1>1, <1>5, <3>1, <3>2 DEF CancelRenderInterrupts
  <2>2. PICK n : n = [job[j] EXCEPT !.cancel = FALSE]
    OBVIOUS
  <2>3. /\ n \in JobRec /\ n.st = job[j].st /\ n.task = job[j].task /\ n.early = job[j].early
        /\ n.root = job[j].root /\ n.out = job[j].out
    BY <1>2, <2>2 DEF JobRec
  <2>4. PICK r : r = [run[j] EXCEPT !.cancel = b]
    OBVIOUS
  <2>5. r \in RunRec /\ r.st = run[j].st /\ r.root = run[j].root
    BY <1>2, <2>1, <2>4 DEF RunRec
  <2>6. job' = [job EXCEPT ![j] = n] /\ run' = [run EXCEPT ![j] = r]
    BY <1>1, <2>1, <2>2, <2>4 DEF Runs
  <2>7. Touches(j, n, r, poll[j])
    BY <1>2, <1>3, <2>3, <2>5, <2>6 DEF Touches, Fits
  <2>. QED BY <1>1, <1>2, <2>3, <2>7, JobFrame
<1>. QED BY <1>4, <1>5

LEMMA InterruptSteps ==
  ASSUME SessionInv, NEW j \in Jobs, RequestRunInterrupt(j)
  PROVE  SessionInv'
<1>1. job \in [Jobs -> JobRec] /\ run \in [Runs -> RunRec] /\ poll \in [Jobs -> PollRec] /\ lane \in Runs \cup {None}
  BY SessionTypes DEF SessionInv
<1>2. /\ Aside /\ poll' = [poll EXCEPT ![j] = poll[j]] /\ job' = [job EXCEPT ![j] = job[j]]
      /\ job[j] \in JobRec /\ run[j] \in RunRec /\ lane' = lane /\ run' = [run EXCEPT ![j].cancel = TRUE]
  BY <1>1 DEF RequestRunInterrupt, Aside, Runs
<1>3. Fits(job[j], run[j], poll[j]) /\ poll[j] \in PollRec
  BY <1>1 DEF SessionInv, RenderInv
<1>4. PICK r : r = [run[j] EXCEPT !.cancel = TRUE]
  OBVIOUS
<1>5. r \in RunRec /\ r.st = run[j].st /\ r.root = run[j].root
  BY <1>2, <1>4 DEF RunRec
<1>6. run' = [run EXCEPT ![j] = r]
  BY <1>1, <1>2, <1>4 DEF Runs
<1>7. Touches(j, job[j], r, poll[j])
  BY <1>2, <1>3, <1>5, <1>6 DEF Touches, Fits
<1>. QED BY <1>1, <1>2, <1>7, JobFrame

LEMMA ConsoleSteps ==
  ASSUME SessionInv, NEW u \in Consoles, ExecuteR(u) \/ ExecuteREnds(u)
  PROVE  SessionInv'
<1>1. job \in [Jobs -> JobRec] /\ run \in [Runs -> RunRec] /\ poll \in [Jobs -> PollRec] /\ lane \in Runs \cup {None}
  BY SessionTypes DEF SessionInv
<1>2. PICK r : /\ Aside /\ r \in {Created, NoRun} /\ run' = [run EXCEPT ![u] = r] /\ UNCHANGED <<job, poll>>
               /\ lane' \in {u, None} /\ (~up => lane' = None)
  BY DEF ExecuteR, ExecuteREnds, Aside
<1>3. Created \in RunRec /\ NoRun \in RunRec
  <2>1. root.store \in Roots
    BY DEF SessionInv, AgreeInv, PlacesInv
  <2>2. PICK c : c = [st |-> "running", root |-> root.store, cancel |-> FALSE]
    OBVIOUS
  <2>3. c \in RunRec
    BY <2>1, <2>2 DEF RunRec, RunStates
  <2>4. NoRun \in RunRec
    BY DEF NoRun, RunRec, RunStates
  <2>. QED BY <2>2, <2>3, <2>4, CreatedIs
<1>4. run' \in [Runs -> RunRec] /\ \A k \in Jobs : run'[k] = run[k]
  <2>1. \A k \in Jobs : k # u /\ k \in Runs
    BY SessionAssumption DEF Runs
  <2>2. r \in RunRec
    BY <1>2, <1>3
  <2>. QED BY <1>1, <1>2, <2>1, <2>2
<1>5. RenderInv'
  <2>1. ASSUME NEW k \in Jobs PROVE Fits(job[k], run[k], poll[k])'
    BY <1>2, <1>4 DEF SessionInv, RenderInv, Fits, Aside
  <2>. QED BY <2>1 DEF RenderInv
<1>6. Quiet /\ lane' \in Runs \cup {None}
  BY <1>2 DEF Quiet, Runs, Aside
<1>. QED BY <1>1, <1>2, <1>4, <1>5, <1>6, LaneFrame

-----------------------------------------------------------------------------
(* The switch *)

FromRec == [ui : Roots, store : Roots]
OpRec == [kind : OpKinds, step : OpSteps, to : Roots \cup {None}, from : FromRec \cup {None}, jobs : SUBSET Jobs]

LEMMA OpTypes ==
  ASSUME TypeOK
  PROVE  op \in OpRec /\ faults \in 0 .. MaxFaults
BY DEF TypeOK, OpRec, FromRec

LEMMA NoOpIs ==
  /\ NoOp \in OpRec /\ IsOp(NoOp) /\ NoOp.kind = "none" /\ NoOp.step = "none"
  /\ Down \in OpRec /\ IsOp(Down) /\ Down.kind = "down" /\ Down.step = "none"
<1>1. NoOp \in OpRec /\ IsOp(NoOp) /\ NoOp.kind = "none" /\ NoOp.step = "none"
  BY DEF NoOp, OpRec, IsOp, OpKinds, OpSteps
<1>2. PICK d : d = [NoOp EXCEPT !.kind = "down"]
  OBVIOUS
<1>3. d \in OpRec /\ IsOp(d) /\ d.kind = "down" /\ d.step = "none"
  BY <1>2 DEF NoOp, OpRec, IsOp, OpKinds, OpSteps
<1>. QED BY <1>1, <1>2, <1>3 DEF Down

LEMMA GotoIs ==
  ASSUME op \in OpRec, NEW s \in OpSteps, Goto(s)
  PROVE  /\ op' \in OpRec /\ IsOp(op') /\ op'.kind = op.kind /\ op'.step = s /\ op'.to = op.to
         /\ op'.from = op.from /\ op'.jobs = op.jobs
<1>1. PICK o : o = [op EXCEPT !.step = s]
  OBVIOUS
<1>2. /\ o \in OpRec /\ IsOp(o) /\ o.kind = op.kind /\ o.step = s /\ o.to = op.to
      /\ o.from = op.from /\ o.jobs = op.jobs
  BY <1>1 DEF OpRec, IsOp
<1>. QED BY <1>1, <1>2 DEF Goto

Besides == UNCHANGED <<up, lane, closing, job, poll, run, work, update, deaths>>

\* A step of a switch, which no early render waits beside.
LEMMA SwitchFrame ==
  ASSUME SessionInv, op.kind = "switch", Besides, op' \in OpRec, op'.kind \in {"switch", "none"},
         faults' \in 0 .. MaxFaults, OpInv', PlacesInv', SwitchInv', StoreInv'
  PROVE  SessionInv'
<1>1. TypeOK'
  BY DEF SessionInv, Besides, TypeOK, OpRec, FromRec, PlacesInv, RootPlaces, SwitchInv
<1>2. UpdateInv'
  BY DEF SessionInv, UpdateInv, Besides
<1>3. ASSUME NEW k \in Jobs PROVE Fits(job[k], run[k], poll[k])'
  BY DEF SessionInv, RenderInv, Fits, Besides
<1>. QED BY <1>1, <1>2, <1>3 DEF SessionInv, AgreeInv, RenderInv, SettleInv

\* What the store may hold after a step that leaves job, lane and Workspace alone.
LEMMA StoreFrame ==
  ASSUME StoreInv, op.kind = "switch", Besides, ~up => root'.store = root.store /\ root'.ui = root.ui /\ fatal' = fatal,
         op'.kind \in {"switch", "none"},
         op'.kind # "switch" /\ up /\ ~fatal' => root'.store = root'.ui
  PROVE  StoreInv'
BY DEF StoreInv, Besides

LEMMA SwitchBegins ==
  ASSUME SessionInv, NEW to \in Roots, SwitchProject(to)
  PROVE  SessionInv'
<1>1. /\ op.kind = "none" /\ closing = "no" /\ ~Blocked
      /\ UNCHANGED <<root, up, lane, closing, job, poll, run, work, update, torn, fatal, deaths, faults>>
      /\ op' = [NoOp EXCEPT !.kind = "switch", !.step = "prepare", !.to = to, !.from = [ui |-> root.ui, store |-> root.store]]
  BY DEF SwitchProject, GateFree
<1>2. root.ui \in Roots /\ root.store \in Roots
  BY DEF SessionInv, AgreeInv, PlacesInv
<1>3. PICK f : f = [ui |-> root.ui, store |-> root.store]
  OBVIOUS
<1>4. f \in FromRec /\ f.ui = root.ui /\ f.store = root.store
  BY <1>2, <1>3 DEF FromRec
<1>5. PICK o : o = [NoOp EXCEPT !.kind = "switch", !.step = "prepare", !.to = to, !.from = f]
  OBVIOUS
<1>6. o \in OpRec /\ IsOp(o) /\ o.kind = "switch" /\ o.step = "prepare" /\ o.to = to /\ o.from = f
  BY <1>4, <1>5 DEF NoOp, OpRec, IsOp, OpKinds, OpSteps
<1>7. op' = o
  BY <1>1, <1>3, <1>5, Zenon
<1>8. TypeOK'
  BY <1>1, <1>6, <1>7 DEF SessionInv, TypeOK, OpRec, FromRec
<1>9. OpInv'
  BY <1>6, <1>7 DEF OpInv, SwitchSteps, OpKinds
<1>10. PlacesInv'
  BY <1>1, <1>6, <1>7 DEF SessionInv, AgreeInv, PlacesInv, Blocked
<1>11. SwitchInv'
  BY <1>1, <1>2, <1>4, <1>6, <1>7 DEF SessionInv, AgreeInv, SwitchInv, StoreInv
<1>12. StoreInv'
  BY <1>1, <1>6, <1>7 DEF SessionInv, AgreeInv, StoreInv
<1>13. UpdateInv'
  BY <1>1, <1>6, <1>7 DEF SessionInv, UpdateInv
<1>14. ASSUME NEW k \in Jobs PROVE Fits(job[k], run[k], poll[k])'
  <2>1. Fits(job[k], run[k], poll[k])
    BY DEF SessionInv, RenderInv
  <2>2. ~(job[k].early /\ job[k].task = "queued")
    BY <1>1, <2>1 DEF Fits, Blocked
  <2>. QED BY <1>1, <2>1, <2>2 DEF Fits
<1>15. SettleInv'
  BY <1>6, <1>7 DEF SettleInv
<1>. QED BY <1>8, <1>9, <1>10, <1>11, <1>12, <1>13, <1>14, <1>15 DEF SessionInv, AgreeInv, RenderInv

LEMMA FailsBound ==
  ASSUME SessionInv, Fails
  PROVE  faults' \in 0 .. MaxFaults
BY SessionAssumption DEF SessionInv, TypeOK, Fails

\* Workspace R enters a project, or does not.
LEMMA EnterIs ==
  ASSUME SessionInv, NEW to \in Roots, NEW owner \in Roots, NEW r \in SyncResults(to), Enter(r, to, owner)
  PROVE  /\ root' \in [RootPlaces -> Roots \cup {None}] /\ torn' \in BOOLEAN /\ faults' \in 0 .. MaxFaults
         /\ root'.ui = root.ui /\ root'.store = root.store /\ root'.watch = root.watch /\ root'.ext = root.ext
         /\ root'.plug = root.plug /\ root'.last = root.last
         /\ root'.cwd \in {owner, None} \/ torn'
<1>1. root \in [RootPlaces -> Roots \cup {None}] /\ faults \in 0 .. MaxFaults /\ MaxFaults \in Nat
  BY SessionAssumption DEF SessionInv, AgreeInv, PlacesInv, TypeOK
<1>2. root.cwd \in Roots \cup {None}
  BY <1>1 DEF RootPlaces
<1>3. r.cwd \in Roots \cup {None} /\ (r # [ok |-> TRUE, cwd |-> to] => faults < MaxFaults)
  BY <1>2 DEF SyncResults
<1>4. root' = [root EXCEPT !.cwd = r.cwd] /\ torn' = (r.cwd \notin {owner, None})
      /\ faults' = IF r = [ok |-> TRUE, cwd |-> to] THEN faults ELSE faults + 1
  BY DEF Enter
<1>5. faults' \in 0 .. MaxFaults
  BY <1>1, <1>3, <1>4
<1>6. PICK c : c = r.cwd
  OBVIOUS
<1>7. root' \in [RootPlaces -> Roots \cup {None}] /\ root'.cwd = c /\ \A x \in RootPlaces : x # "cwd" => root'[x] = root[x]
  BY <1>1, <1>3, <1>4, <1>6 DEF RootPlaces
<1>. QED BY <1>4, <1>5, <1>6, <1>7 DEF RootPlaces

LEMMA SwitchFacts ==
  ASSUME SessionInv, op.kind = "switch"
  PROVE  /\ op \in OpRec /\ op.step \in SwitchSteps /\ op.to \in Roots /\ root.ui \in Roots /\ op.from.ui = root.ui
         /\ faults \in 0 .. MaxFaults /\ root \in [RootPlaces -> Roots \cup {None}] /\ work = None
BY OpTypes DEF SessionInv, AgreeInv, OpInv, PlacesInv, SwitchInv

LEMMA PrepareSteps ==
  ASSUME SessionInv, SwitchPrepares
  PROVE  SessionInv'
<1>1. op.kind = "switch" /\ op.step = "prepare" /\ Besides /\ UNCHANGED <<root, torn, fatal>>
  BY DEF SwitchPrepares, SwitchStep, GateStep, Besides
<1>2. op \in OpRec /\ faults \in 0 .. MaxFaults
  BY <1>1, SwitchFacts
<1>3. CASE Goto("sync") /\ UNCHANGED faults
  <2>1. op' \in OpRec /\ IsOp(op') /\ op'.kind = "switch" /\ op'.step = "sync" /\ op'.to = op.to /\ op'.from = op.from
    BY <1>1, <1>2, <1>3, GotoIs DEF OpSteps
  <2>2. OpInv' /\ PlacesInv' /\ SwitchInv' /\ StoreInv'
    BY <1>1, <2>1 DEF SessionInv, AgreeInv, OpInv, PlacesInv, SwitchInv, StoreInv, Besides, SwitchSteps
  <2>. QED BY <1>1, <1>2, <1>3, <2>1, <2>2, SwitchFrame
<1>4. CASE Release /\ Fails
  <2>1. op' \in OpRec /\ IsOp(op') /\ op'.kind = "none" /\ op'.step = "none"
    BY <1>4, NoOpIs DEF Release
  <2>2. OpInv' /\ PlacesInv'
    BY <1>1, <2>1 DEF SessionInv, AgreeInv, OpInv, PlacesInv, Besides, OpKinds
  <2>3. SwitchInv' /\ StoreInv'
    BY <1>1, <2>1 DEF SessionInv, AgreeInv, SwitchInv, StoreInv, Besides
  <2>. QED BY <1>1, <1>4, <2>1, <2>2, <2>3, SwitchFrame, FailsBound
<1>. QED BY <1>3, <1>4 DEF SwitchPrepares

LEMMA SyncSteps ==
  ASSUME SessionInv, SwitchSyncs
  PROVE  SessionInv'
<1>1. op.kind = "switch" /\ op.step = "sync" /\ Besides /\ UNCHANGED fatal
  BY DEF SwitchSyncs, SwitchStep, GateStep, Besides
<1>2. op \in OpRec /\ faults \in 0 .. MaxFaults /\ op.to \in Roots /\ root.ui \in Roots /\ root.store \in Roots /\ root.last \in Roots
  BY <1>1, SwitchFacts DEF SessionInv, AgreeInv, PlacesInv
<1>3. CASE ~up /\ Release /\ UNCHANGED <<root, torn, faults>>
  <2>1. op' \in OpRec /\ IsOp(op') /\ op'.kind = "none" /\ op'.step = "none"
    BY <1>3, NoOpIs DEF Release
  <2>2. OpInv' /\ PlacesInv'
    BY <1>1, <1>3, <2>1 DEF SessionInv, AgreeInv, OpInv, PlacesInv, Besides, OpKinds
  <2>3. SwitchInv' /\ StoreInv'
    BY <1>1, <1>3, <2>1 DEF SessionInv, AgreeInv, SwitchInv, StoreInv, Besides
  <2>. QED BY <1>1, <1>2, <1>3, <2>1, <2>2, <2>3, SwitchFrame
<1>4. ASSUME up, NEW r \in SyncResults(op.to), Goto("candidate"), Enter(r, op.to, op.to)
      PROVE  SessionInv'
  <2>1. op' \in OpRec /\ IsOp(op') /\ op'.kind = "switch" /\ op'.step = "candidate" /\ op'.to = op.to /\ op'.from = op.from
    BY <1>1, <1>2, <1>4, GotoIs DEF OpSteps
  <2>2. /\ root' \in [RootPlaces -> Roots \cup {None}] /\ torn' \in BOOLEAN /\ faults' \in 0 .. MaxFaults
        /\ root'.ui = root.ui /\ root'.store = root.store /\ root'.watch = root.watch /\ root'.ext = root.ext
        /\ root'.plug = root.plug /\ root'.last = root.last /\ (root'.cwd \in {op.to, None} \/ torn')
    BY <1>2, <1>4, EnterIs
  <2>3. OpInv' /\ PlacesInv'
    BY <1>1, <1>2, <2>1, <2>2 DEF SessionInv, AgreeInv, OpInv, PlacesInv, Besides, OpKinds, SwitchSteps
  <2>4. SwitchInv'
    BY <1>1, <1>4, <2>1, <2>2 DEF SessionInv, AgreeInv, SwitchInv, Besides
  <2>5. StoreInv'
    BY <1>1, <1>4, <2>1, <2>2 DEF SessionInv, AgreeInv, StoreInv, Besides
  <2>. QED BY <1>1, <2>1, <2>2, <2>3, <2>4, <2>5, SwitchFrame
<1>5. ASSUME up, NEW r \in SyncResults(op.to), Release, Enter(r, op.to, root.ui)
      PROVE  SessionInv'
  <2>1. op' \in OpRec /\ IsOp(op') /\ op'.kind = "none" /\ op'.step = "none"
    BY <1>5, NoOpIs DEF Release
  <2>2. /\ root' \in [RootPlaces -> Roots \cup {None}] /\ torn' \in BOOLEAN /\ faults' \in 0 .. MaxFaults
        /\ root'.ui = root.ui /\ root'.store = root.store /\ root'.watch = root.watch /\ root'.ext = root.ext
        /\ root'.plug = root.plug /\ root'.last = root.last /\ (root'.cwd \in {root.ui, None} \/ torn')
    BY <1>2, <1>5, EnterIs
  <2>3. OpInv' /\ PlacesInv'
    BY <1>1, <1>2, <2>1, <2>2 DEF SessionInv, AgreeInv, OpInv, PlacesInv, Besides, OpKinds, SwitchSteps
  <2>4. SwitchInv'
    BY <1>1, <1>5, <2>1, <2>2 DEF SessionInv, AgreeInv, SwitchInv, Besides
  <2>5. StoreInv'
    BY <1>1, <1>5, <2>1, <2>2 DEF SessionInv, AgreeInv, StoreInv, SwitchInv, Besides
  <2>. QED BY <1>1, <2>1, <2>2, <2>3, <2>4, <2>5, SwitchFrame
<1>. QED BY <1>3, <1>4, <1>5 DEF SwitchSyncs

\* What a step that may fail does with the roots.
LEMMA TriesIs ==
  ASSUME SessionInv, NEW step, NEW next \in OpSteps, NEW new \in [RootPlaces -> Roots \cup {None}], SwitchTries(step, next, new)
  PROVE  /\ op.kind = "switch" /\ op.step = step /\ Besides /\ UNCHANGED <<torn, fatal>> /\ faults' \in 0 .. MaxFaults
         /\ op' \in OpRec /\ IsOp(op') /\ op'.kind = "switch" /\ op'.to = op.to /\ op'.from = op.from
         /\ root' \in [RootPlaces -> Roots \cup {None}] /\ root'.plug \in {root.plug, None}
         /\ \/ op'.step = next /\ \A x \in RootPlaces : x # "plug" => root'[x] = new[x]
            \/ op'.step = "resync" /\ \A x \in RootPlaces : x # "plug" => root'[x] = root[x]
<1>1. op.kind = "switch" /\ op.step = step /\ Besides /\ UNCHANGED <<torn, fatal>>
  BY DEF SwitchTries, SwitchStep, GateStep, Besides
<1>2. op \in OpRec /\ faults \in 0 .. MaxFaults /\ root \in [RootPlaces -> Roots \cup {None}]
  BY <1>1, SwitchFacts
<1>3. PICK left : /\ left \in {root.plug, None}
                  /\ \/ root' = [new EXCEPT !.plug = left] /\ Goto(next) /\ UNCHANGED faults
                     \/ root' = [root EXCEPT !.plug = left] /\ Fails /\ Goto("resync")
  BY DEF SwitchTries
<1>4. left \in Roots \cup {None}
  BY <1>2, <1>3 DEF RootPlaces
<1>5. CASE root' = [new EXCEPT !.plug = left] /\ Goto(next) /\ UNCHANGED faults
  <2>1. root' \in [RootPlaces -> Roots \cup {None}] /\ root'.plug = left /\ \A x \in RootPlaces : x # "plug" => root'[x] = new[x]
    BY <1>4, <1>5 DEF RootPlaces
  <2>2. op' \in OpRec /\ IsOp(op') /\ op'.kind = op.kind /\ op'.step = next /\ op'.to = op.to /\ op'.from = op.from
    BY <1>2, <1>5, GotoIs
  <2>. QED BY <1>1, <1>2, <1>3, <1>5, <2>1, <2>2
<1>6. CASE root' = [root EXCEPT !.plug = left] /\ Fails /\ Goto("resync")
  <2>1. root' \in [RootPlaces -> Roots \cup {None}] /\ root'.plug = left /\ \A x \in RootPlaces : x # "plug" => root'[x] = root[x]
    BY <1>2, <1>4, <1>6 DEF RootPlaces
  <2>2. op' \in OpRec /\ IsOp(op') /\ op'.kind = op.kind /\ op'.step = "resync" /\ op'.to = op.to /\ op'.from = op.from
    BY <1>2, <1>6, GotoIs DEF OpSteps
  <2>3. faults' \in 0 .. MaxFaults
    BY <1>6, FailsBound
  <2>. QED BY <1>1, <1>3, <2>1, <2>2, <2>3
<1>. QED BY <1>3, <1>5, <1>6

LEMMA BuildSteps ==
  ASSUME SessionInv, BuildTarget
  PROVE  SessionInv'
<1>1. root \in [RootPlaces -> Roots \cup {None}] /\ "store" \in OpSteps
  BY DEF SessionInv, AgreeInv, PlacesInv, OpSteps
<1>2. /\ op.kind = "switch" /\ op.step = "candidate" /\ Besides /\ UNCHANGED <<torn, fatal>> /\ faults' \in 0 .. MaxFaults
      /\ op' \in OpRec /\ IsOp(op') /\ op'.kind = "switch" /\ op'.to = op.to /\ op'.from = op.from
      /\ root' \in [RootPlaces -> Roots \cup {None}] /\ root'.plug \in {root.plug, None}
      /\ op'.step \in {"store", "resync"} /\ \A x \in RootPlaces : x # "plug" => root'[x] = root[x]
  BY <1>1, TriesIs DEF BuildTarget
<1>3. /\ root'.ui = root.ui /\ root'.store = root.store /\ root'.cwd = root.cwd /\ root'.watch = root.watch
      /\ root'.ext = root.ext /\ root'.last = root.last
  BY <1>2 DEF RootPlaces
<1>4. OpInv'
  BY <1>2 DEF SessionInv, AgreeInv, OpInv, OpKinds, SwitchSteps
<1>5. PlacesInv'
  BY <1>2, <1>3 DEF SessionInv, AgreeInv, PlacesInv, Besides
<1>6. SwitchInv'
  BY <1>2, <1>3 DEF SessionInv, AgreeInv, SwitchInv, Besides
<1>7. StoreInv'
  BY <1>2, <1>3, StoreFrame DEF SessionInv, AgreeInv
<1>. QED BY <1>2, <1>4, <1>5, <1>6, <1>7, SwitchFrame

LEMMA SetStoreSteps ==
  ASSUME SessionInv, SetStoreRoot
  PROVE  SessionInv'
<1>0. op.kind = "switch"
  BY DEF SetStoreRoot, SwitchTries, SwitchStep, GateStep
<1>1. root \in [RootPlaces -> Roots \cup {None}] /\ "last" \in OpSteps /\ op.to \in Roots
  BY <1>0, SwitchFacts DEF OpSteps
<1>8. PICK t : t = op.to
  OBVIOUS
<1>9. PICK new : new = [root EXCEPT !.store = t]
  OBVIOUS
<1>10. new \in [RootPlaces -> Roots \cup {None}] /\ new["store"] = t /\ \A x \in RootPlaces : x # "store" => new[x] = root[x]
  BY <1>1, <1>8, <1>9 DEF RootPlaces
<1>11. SwitchTries("store", "last", new)
  BY <1>8, <1>9, Zenon DEF SetStoreRoot
<1>2. /\ op.kind = "switch" /\ op.step = "store" /\ Besides /\ UNCHANGED <<torn, fatal>> /\ faults' \in 0 .. MaxFaults
      /\ op' \in OpRec /\ IsOp(op') /\ op'.kind = "switch" /\ op'.to = op.to /\ op'.from = op.from
      /\ root' \in [RootPlaces -> Roots \cup {None}] /\ root'.plug \in {root.plug, None}
      /\ \/ op'.step = "last" /\ \A x \in RootPlaces : x # "plug" => root'[x] = new[x]
         \/ op'.step = "resync" /\ \A x \in RootPlaces : x # "plug" => root'[x] = root[x]
  BY <1>1, <1>10, <1>11, TriesIs
<1>3. /\ root'.ui = root.ui /\ root'.cwd = root.cwd /\ root'.watch = root.watch
      /\ root'.ext = root.ext /\ root'.last = root.last
      /\ \/ op'.step = "last" /\ root'.store = op.to
         \/ op'.step = "resync" /\ root'.store = root.store
  BY <1>2, <1>8, <1>10 DEF RootPlaces
<1>4. OpInv'
  BY <1>2 DEF SessionInv, AgreeInv, OpInv, OpKinds, SwitchSteps
<1>5. PlacesInv'
  BY <1>1, <1>2, <1>3 DEF SessionInv, AgreeInv, PlacesInv, Besides
<1>12. up
  BY <1>2 DEF SessionInv, AgreeInv, SwitchInv
<1>6. SwitchInv'
  BY <1>2, <1>3 DEF SessionInv, AgreeInv, SwitchInv, Besides
<1>7. StoreInv'
  BY <1>2, <1>3, <1>12, StoreFrame DEF SessionInv, AgreeInv
<1>. QED BY <1>2, <1>4, <1>5, <1>6, <1>7, SwitchFrame

LEMMA SaveLastSteps ==
  ASSUME SessionInv, SaveLastOpened
  PROVE  SessionInv'
<1>0. op.kind = "switch"
  BY DEF SaveLastOpened, SwitchTries, SwitchStep, GateStep
<1>1. root \in [RootPlaces -> Roots \cup {None}] /\ "publish" \in OpSteps /\ op.to \in Roots
  BY <1>0, SwitchFacts DEF OpSteps
<1>8. PICK t : t = op.to
  OBVIOUS
<1>9. PICK new : new = [root EXCEPT !.last = t]
  OBVIOUS
<1>10. new \in [RootPlaces -> Roots \cup {None}] /\ new["last"] = t /\ \A x \in RootPlaces : x # "last" => new[x] = root[x]
  BY <1>1, <1>8, <1>9 DEF RootPlaces
<1>11. SwitchTries("last", "publish", new)
  BY <1>8, <1>9, Zenon DEF SaveLastOpened
<1>2. /\ op.kind = "switch" /\ op.step = "last" /\ Besides /\ UNCHANGED <<torn, fatal>> /\ faults' \in 0 .. MaxFaults
      /\ op' \in OpRec /\ IsOp(op') /\ op'.kind = "switch" /\ op'.to = op.to /\ op'.from = op.from
      /\ root' \in [RootPlaces -> Roots \cup {None}] /\ root'.plug \in {root.plug, None}
      /\ \/ op'.step = "publish" /\ \A x \in RootPlaces : x # "plug" => root'[x] = new[x]
         \/ op'.step = "resync" /\ \A x \in RootPlaces : x # "plug" => root'[x] = root[x]
  BY <1>1, <1>10, <1>11, TriesIs
<1>3. /\ root'.ui = root.ui /\ root'.cwd = root.cwd /\ root'.watch = root.watch
      /\ root'.ext = root.ext /\ root'.store = root.store
      /\ \/ op'.step = "publish" /\ root'.last = op.to
         \/ op'.step = "resync" /\ root'.last = root.last
  BY <1>2, <1>8, <1>10 DEF RootPlaces
<1>4. OpInv'
  BY <1>2 DEF SessionInv, AgreeInv, OpInv, OpKinds, SwitchSteps
<1>5. PlacesInv'
  BY <1>1, <1>2, <1>3 DEF SessionInv, AgreeInv, PlacesInv, Besides
<1>6. SwitchInv'
  BY <1>2, <1>3 DEF SessionInv, AgreeInv, SwitchInv, Besides
<1>7. StoreInv'
  BY <1>2, <1>3, StoreFrame DEF SessionInv, AgreeInv
<1>. QED BY <1>2, <1>4, <1>5, <1>6, <1>7, SwitchFrame

LEMMA PublishSteps ==
  ASSUME SessionInv, PublishSwitch
  PROVE  SessionInv'
<1>1. op.kind = "switch" /\ op.step = "publish" /\ Besides /\ UNCHANGED <<torn, faults>> /\ fatal' = FALSE /\ Release
      /\ root' = [root EXCEPT !.ui = op.to, !.watch = op.to, !.ext = op.to, !.plug = op.to]
  BY DEF PublishSwitch, SwitchStep, GateStep, Besides
<1>2. op \in OpRec /\ faults \in 0 .. MaxFaults /\ op.to \in Roots /\ root \in [RootPlaces -> Roots \cup {None}] /\ work = None
  BY <1>1, SwitchFacts
<1>3. op' \in OpRec /\ IsOp(op') /\ op'.kind = "none" /\ op'.step = "none"
  BY <1>1, NoOpIs DEF Release
<1>4. PICK t : t = op.to
  OBVIOUS
<1>5. root' = [root EXCEPT !.ui = t, !.watch = t, !.ext = t, !.plug = t]
  BY <1>1, <1>4, Zenon
<1>6. root' \in [RootPlaces -> Roots \cup {None}] /\ root'["ui"] = t /\ root'["watch"] = t /\ root'["ext"] = t
      /\ root'["plug"] = t /\ root'["store"] = root["store"] /\ root'["cwd"] = root["cwd"] /\ root'["last"] = root["last"]
  BY <1>2, <1>4, <1>5 DEF RootPlaces
<1>7. root.store = t /\ root.last = t /\ (root.cwd \in {t, None} \/ torn) /\ torn \in BOOLEAN /\ up
  BY <1>1, <1>4 DEF SessionInv, AgreeInv, SwitchInv
<1>8. OpInv'
  BY <1>3 DEF OpInv, OpKinds
<1>9. PlacesInv'
  BY <1>1, <1>2, <1>3, <1>4, <1>6, <1>7 DEF PlacesInv, Besides
<1>10. SwitchInv'
  BY <1>1, <1>3, <1>6, <1>7 DEF SwitchInv, Besides
<1>11. StoreInv'
  BY <1>1, <1>3, <1>6, <1>7 DEF StoreInv, Besides
<1>. QED BY <1>1, <1>2, <1>3, <1>8, <1>9, <1>10, <1>11, SwitchFrame

LEMMA RecoverSyncSteps ==
  ASSUME SessionInv, RecoverSyncs
  PROVE  SessionInv'
<1>1. op.kind = "switch" /\ op.step = "resync" /\ Besides /\ up
  BY DEF RecoverSyncs, SwitchStep, GateStep, Besides
<1>2. op \in OpRec /\ faults \in 0 .. MaxFaults /\ root.ui \in Roots /\ op.from.ui = root.ui
  BY <1>1, SwitchFacts
<1>3. PICK r \in SyncResults(root.ui) :
        /\ Enter(r, root.ui, root.ui)
        /\ (Goto("restore") /\ UNCHANGED fatal) \/ (Release /\ fatal' = TRUE)
  BY <1>2 DEF RecoverSyncs
<1>4. /\ root' \in [RootPlaces -> Roots \cup {None}] /\ torn' \in BOOLEAN /\ faults' \in 0 .. MaxFaults
      /\ root'.ui = root.ui /\ root'.store = root.store /\ root'.watch = root.watch /\ root'.ext = root.ext
      /\ root'.plug = root.plug /\ root'.last = root.last /\ (root'.cwd \in {root.ui, None} \/ torn')
  BY <1>2, <1>3, EnterIs
<1>5. CASE Goto("restore") /\ UNCHANGED fatal
  <2>1. op' \in OpRec /\ IsOp(op') /\ op'.kind = "switch" /\ op'.step = "restore" /\ op'.to = op.to /\ op'.from = op.from
    BY <1>1, <1>2, <1>5, GotoIs DEF OpSteps
  <2>2. OpInv' /\ PlacesInv'
    BY <1>1, <1>4, <2>1 DEF SessionInv, AgreeInv, OpInv, PlacesInv, Besides, OpKinds, SwitchSteps
  <2>3. SwitchInv'
    BY <1>1, <1>4, <1>5, <2>1 DEF SessionInv, AgreeInv, SwitchInv, Besides
  <2>4. StoreInv'
    BY <1>1, <1>4, <1>5, <2>1, StoreFrame DEF SessionInv, AgreeInv
  <2>. QED BY <1>1, <1>4, <2>1, <2>2, <2>3, <2>4, SwitchFrame
<1>6. CASE Release /\ fatal' = TRUE
  <2>1. op' \in OpRec /\ IsOp(op') /\ op'.kind = "none" /\ op'.step = "none"
    BY <1>6, NoOpIs DEF Release
  <2>2. OpInv' /\ PlacesInv'
    BY <1>1, <1>4, <2>1 DEF SessionInv, AgreeInv, OpInv, PlacesInv, Besides, OpKinds
  <2>3. SwitchInv'
    BY <1>1, <1>4, <1>6, <2>1 DEF SessionInv, AgreeInv, SwitchInv, Besides
  <2>4. StoreInv'
    BY <1>1, <1>4, <1>6, <2>1, StoreFrame DEF SessionInv, AgreeInv
  <2>. QED BY <1>1, <1>4, <2>1, <2>2, <2>3, <2>4, SwitchFrame
<1>. QED BY <1>3, <1>5, <1>6

LEMMA RestoreSteps ==
  ASSUME SessionInv, RecoverRestores
  PROVE  SessionInv'
<1>1. op.kind = "switch" /\ op.step = "restore" /\ Besides /\ UNCHANGED torn /\ Release
  BY DEF RecoverRestores, SwitchStep, GateStep, Besides
<1>2. op \in OpRec /\ faults \in 0 .. MaxFaults /\ root.ui \in Roots /\ op.from.ui = root.ui /\ root \in [RootPlaces -> Roots \cup {None}]
  BY <1>1, SwitchFacts
<1>3. op' \in OpRec /\ IsOp(op') /\ op'.kind = "none" /\ op'.step = "none"
  BY <1>1, NoOpIs DEF Release
<1>4. OpInv'
  BY <1>3 DEF OpInv, OpKinds
<1>5. op.from.store \in Roots /\ (up /\ ~fatal => op.from.store = root.ui) /\ up
  BY <1>1 DEF SessionInv, AgreeInv, SwitchInv
<1>6. CASE root' = [root EXCEPT !.store = op.from.store, !.plug = op.from.ui] /\ UNCHANGED <<fatal, faults>>
  <2>1. PICK s, p : s = op.from.store /\ p = op.from.ui
    OBVIOUS
  <2>2. root' = [root EXCEPT !.store = s, !.plug = p]
    BY <1>6, <2>1, Zenon
  <2>3. root' \in [RootPlaces -> Roots \cup {None}] /\ root'["store"] = s /\ root'["plug"] = p
        /\ root'["ui"] = root["ui"] /\ root'["watch"] = root["watch"] /\ root'["ext"] = root["ext"]
        /\ root'["cwd"] = root["cwd"] /\ root'["last"] = root["last"]
    BY <1>2, <1>5, <2>1, <2>2 DEF RootPlaces
  <2>4. PlacesInv'
    BY <1>1, <1>2, <1>3, <1>5, <2>1, <2>3 DEF SessionInv, AgreeInv, PlacesInv, Besides
  <2>5. SwitchInv'
    BY <1>1, <1>3, <1>6, <2>3 DEF SessionInv, AgreeInv, SwitchInv, Besides
  <2>6. StoreInv'
    BY <1>1, <1>3, <1>5, <1>6, <2>1, <2>3, StoreFrame DEF SessionInv, AgreeInv
  <2>. QED BY <1>1, <1>2, <1>3, <1>4, <1>6, <2>4, <2>5, <2>6, SwitchFrame
<1>7. CASE Fails /\ fatal' = TRUE /\ UNCHANGED root
  <2>1. PlacesInv'
    BY <1>1, <1>3, <1>7 DEF SessionInv, AgreeInv, PlacesInv, Besides
  <2>2. SwitchInv'
    BY <1>1, <1>3, <1>7 DEF SessionInv, AgreeInv, SwitchInv, Besides
  <2>3. StoreInv'
    BY <1>1, <1>3, <1>5, <1>7, StoreFrame DEF SessionInv, AgreeInv
  <2>4. faults' \in 0 .. MaxFaults
    BY <1>7, FailsBound
  <2>. QED BY <1>1, <1>3, <1>4, <2>1, <2>2, <2>3, <2>4, SwitchFrame
<1>. QED BY <1>6, <1>7 DEF RecoverRestores

-----------------------------------------------------------------------------
(* Restarts, closing, the installer *)

UpdateRec == [target : {"current", "new", "forged", "gone"}, backup : BOOLEAN, bytes : {"none", "signed", "forged"}]

LEMMA UpdateTypes ==
  ASSUME SessionInv
  PROVE  update \in UpdateRec /\ closing \in {"no", "close", "install"} /\ deaths \in 0 .. MaxDeaths /\ faults \in 0 .. MaxFaults
         /\ root \in [RootPlaces -> Roots \cup {None}]
BY DEF SessionInv, TypeOK, UpdateRec, RootPlaces

\* A step of what holds the gate, or beside it, that leaves the project, the Workspace
\* and its renders alone.
LEMMA GateFrame ==
  ASSUME SessionInv, UNCHANGED <<root, up, lane, job, poll, run, torn, fatal>>,
         op' \in OpRec, OpInv', UpdateInv',
         \/ op' = op
         \/ /\ op.kind # "switch" /\ op'.kind # "switch"
            /\ op'.kind = "restart" => op.kind = "restart" /\ op'.jobs = op.jobs /\ op'.step # "settle",
         work' \in {work, None} \/ (op'.kind # "switch" /\ work' = root.ui),
         update' \in UpdateRec, closing' \in {"no", "close", "install"}, deaths' \in 0 .. MaxDeaths, faults' \in 0 .. MaxFaults
  PROVE  SessionInv'
<1>1. PlacesInv'
  BY DEF SessionInv, AgreeInv, PlacesInv
<1>2. SwitchInv'
  BY DEF SessionInv, AgreeInv, SwitchInv
<1>3. StoreInv'
  BY DEF SessionInv, AgreeInv, StoreInv
<1>4. SettleInv'
  BY DEF SessionInv, AgreeInv, SettleInv
<1>5. work' \in Roots \cup {None}
  BY DEF SessionInv, AgreeInv, PlacesInv
<1>6. TypeOK'
  BY <1>5 DEF SessionInv, TypeOK, OpRec, FromRec, UpdateRec
<1>7. ASSUME NEW k \in Jobs PROVE Fits(job[k], run[k], poll[k])'
  BY DEF SessionInv, RenderInv, Fits
<1>. QED BY <1>1, <1>2, <1>3, <1>4, <1>6, <1>7 DEF SessionInv, AgreeInv, RenderInv

LEMMA WorkSteps ==
  ASSUME SessionInv, AdmitWork \/ WorkEnds \/ CloseRequested
  PROVE  SessionInv'
<1>1. /\ UNCHANGED <<root, up, lane, job, poll, run, torn, fatal, op, update, deaths, faults>>
      /\ \/ work' = root.ui /\ op.kind = "none" /\ UNCHANGED closing
         \/ work' = None /\ UNCHANGED closing
         \/ UNCHANGED work /\ closing' = "close" /\ op.kind # "down"
  BY DEF AdmitWork, WorkEnds, CloseRequested, GateFree, Alive
<1>2. op \in OpRec
  BY OpTypes DEF SessionInv
<1>3. OpInv' /\ UpdateInv'
  BY <1>1 DEF SessionInv, AgreeInv, OpInv, UpdateInv
<1>. QED BY <1>1, <1>2, <1>3, GateFrame, UpdateTypes

LEMMA InstallBegins ==
  ASSUME SessionInv, InstallNativeUpdate
  PROVE  SessionInv'
<1>1. /\ UNCHANGED <<root, up, lane, job, poll, run, torn, fatal, op, work, deaths, faults>> /\ op.kind # "down"
      /\ update = NoUpdate /\ update' = [update EXCEPT !.bytes = "signed"] /\ closing' = "install"
  BY DEF InstallNativeUpdate, UpdateStep, Verified, Alive
<1>2. PICK u : u = [update EXCEPT !.bytes = "signed"]
  OBVIOUS
<1>3. u = [target |-> "current", backup |-> FALSE, bytes |-> "signed"] /\ update.bytes = "none"
  BY <1>1, <1>2 DEF NoUpdate
<1>4. u \in UpdateRec /\ u = [target |-> u.target, backup |-> u.backup, bytes |-> u.bytes] /\ u.target = "current" /\ u.bytes = "signed"
  BY <1>3 DEF UpdateRec
<1>5. op.kind # "install" /\ op \in OpRec
  BY <1>3, OpTypes DEF SessionInv, UpdateInv
<1>6. update' = u
  BY <1>1, <1>2
<1>7. OpInv' /\ UpdateInv'
  BY <1>1, <1>4, <1>5, <1>6 DEF SessionInv, AgreeInv, OpInv, UpdateInv
<1>. QED BY <1>1, <1>4, <1>5, <1>6, <1>7, GateFrame, UpdateTypes

LEMMA StartSteps ==
  ASSUME SessionInv, WorkspaceStart
  PROVE  SessionInv'
<1>1. /\ UNCHANGED <<root, up, lane, job, poll, run, torn, fatal, work, update, closing, deaths, faults>>
      /\ op.kind = "none" /\ op' = [NoOp EXCEPT !.kind = "start", !.step = "launch"]
  BY DEF WorkspaceStart, GateFree
<1>2. PICK o : o = [NoOp EXCEPT !.kind = "start", !.step = "launch"]
  OBVIOUS
<1>3. o \in OpRec /\ IsOp(o) /\ o.kind = "start" /\ o.step = "launch"
  BY <1>2 DEF NoOp, OpRec, IsOp, OpKinds, OpSteps
<1>4. op' = o
  BY <1>1, <1>2
<1>5. OpInv' /\ UpdateInv'
  BY <1>1, <1>3, <1>4 DEF SessionInv, OpInv, UpdateInv, OpKinds
<1>. QED BY <1>1, <1>3, <1>4, <1>5, GateFrame, UpdateTypes

LEMMA RelaunchSteps ==
  ASSUME SessionInv, Relaunch
  PROVE  SessionInv'
<1>1. /\ UNCHANGED <<root, up, lane, job, poll, run, torn, fatal, work, closing, deaths, faults>>
      /\ op.kind = "down" /\ op' = NoOp /\ update' = NoUpdate
  BY DEF Relaunch
<1>2. op' \in OpRec /\ IsOp(op') /\ op'.kind = "none" /\ op'.step = "none"
  BY <1>1, NoOpIs
<1>3. PICK u : u = [target |-> "current", backup |-> FALSE, bytes |-> "none"]
  OBVIOUS
<1>4. u \in UpdateRec /\ u = [target |-> u.target, backup |-> u.backup, bytes |-> u.bytes] /\ u.target = "current"
  BY <1>3 DEF UpdateRec
<1>5. update' = u /\ closing = "no"
  BY <1>1, <1>3 DEF NoUpdate, SessionInv, UpdateInv
<1>6. OpInv' /\ UpdateInv'
  BY <1>1, <1>2, <1>4, <1>5 DEF OpInv, UpdateInv, OpKinds
<1>. QED BY <1>1, <1>2, <1>4, <1>5, <1>6, GateFrame, UpdateTypes

LEMMA RestartSteps ==
  ASSUME SessionInv, RestartWorkspace
  PROVE  SessionInv'
<1>1. job \in [Jobs -> JobRec] /\ run \in [Runs -> RunRec] /\ poll \in [Jobs -> PollRec] /\ lane \in Runs \cup {None}
  BY SessionTypes DEF SessionInv
<1>2. /\ op.kind = "none" /\ work' = None /\ up' = FALSE /\ UNCHANGED <<closing, poll, update, torn, fatal, deaths, faults>>
      /\ root' = [root EXCEPT !.plug = None]
      /\ lane' \in {lane, None}
  BY DEF RestartWorkspace, GateFree
<1>3. root' \in [RootPlaces -> Roots \cup {None}] /\ root'["plug"] = None
      /\ root'["ui"] = root["ui"] /\ root'["watch"] = root["watch"] /\ root'["ext"] = root["ext"]
      /\ root'["cwd"] = root["cwd"] /\ root'["last"] = root["last"] /\ root'["store"] = root["store"]
  BY <1>2, UpdateTypes DEF RootPlaces
<1>4. PICK js : js = OpenJobs
  OBVIOUS
<1>5. js \subseteq Jobs
  BY <1>4 DEF OpenJobs
<1>6. PICK o : o = [NoOp EXCEPT !.kind = "restart", !.step = "drain", !.jobs = js]
  OBVIOUS
<1>7. o \in OpRec /\ IsOp(o) /\ o.kind = "restart" /\ o.step = "drain" /\ o.jobs = js
  BY <1>5, <1>6 DEF NoOp, OpRec, IsOp, OpKinds, OpSteps
<1>8. op' = o
  BY <1>4, <1>6 DEF RestartWorkspace
<1>9. ASSUME NEW j \in Jobs
      PROVE  /\ job'[j] \in JobRec
             /\ j \in js => job'[j].st = "cancel_requested" /\ job'[j].task = "ended" /\ job'[j].early = job[j].early /\ job'[j].root = job[j].root
             /\ j \notin js => job'[j] = job[j]
  <2>1. job'[j] = IF j \in js THEN [job[j] EXCEPT !.st = "cancel_requested", !.task = "ended", !.out = "ok"] ELSE job[j]
    BY <1>4 DEF RestartWorkspace
  <2>2. PICK n : n = [job[j] EXCEPT !.st = "cancel_requested", !.task = "ended", !.out = "ok"]
    OBVIOUS
  <2>3. n \in JobRec /\ n.st = "cancel_requested" /\ n.task = "ended" /\ n.early = job[j].early /\ n.root = job[j].root
    BY <1>1, <2>2 DEF JobRec, JobStates, TaskSteps, RenderOutcomes
  <2>4. job[j] \in JobRec
    BY <1>1
  <2>. QED BY <2>1, <2>2, <2>3, <2>4
<1>10. job' \in [Jobs -> JobRec]
  <2>1. job' = [j \in Jobs |-> job'[j]]
    BY DEF RestartWorkspace
  <2>. QED BY <1>9, <2>1
<1>11. ASSUME NEW r \in Runs PROVE run'[r] \in RunRec /\ run'[r].st = run[r].st /\ run'[r].root = run[r].root
  <2>1. PICK active : /\ active = {x \in Jobs : run[x].st = "running" /\ run[x].root = root.ui}
                      /\ run' = [x \in Runs |-> [run[x] EXCEPT !.cancel = @ \/ x \in active]]
    BY DEF RestartWorkspace
  <2>2. PICK b : b = (run[r].cancel \/ r \in active)
    OBVIOUS
  <2>3. PICK n : n = [run[r] EXCEPT !.cancel = b]
    OBVIOUS
  <2>4. b \in BOOLEAN
    BY <2>2
  <2>5. n \in RunRec /\ n.st = run[r].st /\ n.root = run[r].root
    BY <1>1, <2>3, <2>4 DEF RunRec
  <2>6. run'[r] = n
    BY <2>1, <2>2, <2>3
  <2>. QED BY <2>5, <2>6
<1>12. run' \in [Runs -> RunRec]
  <2>1. run' = [r \in Runs |-> run'[r]]
    BY DEF RestartWorkspace
  <2>. QED BY <1>11, <2>1
<1>13. OpInv'
  BY <1>7, <1>8 DEF OpInv, OpKinds
<1>14. PlacesInv'
  BY <1>2, <1>3, <1>7, <1>8 DEF SessionInv, AgreeInv, PlacesInv
<1>15. SwitchInv'
  BY <1>2, <1>3, <1>7, <1>8 DEF SessionInv, AgreeInv, SwitchInv
<1>16. ASSUME NEW j \in Jobs, job'[j].task \in LiveTask PROVE job[j].task \in LiveTask
  BY <1>9, <1>16 DEF LiveTask
<1>17. StoreInv'
  BY <1>2, <1>3, <1>7, <1>8, <1>16 DEF SessionInv, AgreeInv, StoreInv, SwitchInv
<1>18. SettleInv'
  BY <1>5, <1>7, <1>8, <1>9 DEF SettleInv
<1>19. UpdateInv'
  BY <1>2, <1>7, <1>8 DEF SessionInv, UpdateInv
<1>20. ASSUME NEW j \in Jobs PROVE Fits(job[j], run[j], poll[j])'
  <2>1. Fits(job[j], run[j], poll[j]) /\ j \in Runs
    BY DEF SessionInv, RenderInv, Runs
  <2>2. run'[j].st = run[j].st /\ run'[j].root = run[j].root /\ poll'[j] = poll[j]
    BY <1>2, <1>11, <2>1
  <2>3. CASE j \in js
    BY <1>9, <2>1, <2>2, <2>3 DEF Fits
  <2>4. CASE j \notin js
    BY <1>2, <1>3, <1>7, <1>8, <1>9, <2>1, <2>2, <2>4 DEF Fits
  <2>. QED BY <2>3, <2>4
<1>21. TypeOK'
  BY <1>1, <1>2, <1>3, <1>7, <1>8, <1>10, <1>12 DEF SessionInv, TypeOK, OpRec, FromRec, RootPlaces, JobRec, RunRec
<1>. QED BY <1>13, <1>14, <1>15, <1>17, <1>18, <1>19, <1>20, <1>21 DEF SessionInv, AgreeInv, RenderInv

LEMMA DrainSteps ==
  ASSUME SessionInv, RestartDrains
  PROVE  SessionInv'
<1>1. /\ op.kind = "restart" /\ op.step = "drain"
      /\ UNCHANGED <<root, lane, closing, job, poll, run, work, update, torn, fatal, deaths, faults>>
  BY DEF RestartDrains, GateStep
<1>2. op \in OpRec
  BY OpTypes DEF SessionInv
<1>3. CASE Goto("launch") /\ UNCHANGED up
  <2>1. /\ op' \in OpRec /\ IsOp(op') /\ op'.kind = op.kind /\ op'.step = "launch" /\ op'.jobs = op.jobs
    BY <1>2, <1>3, GotoIs DEF OpSteps
  <2>2. OpInv' /\ UpdateInv'
    BY <1>1, <2>1 DEF SessionInv, OpInv, UpdateInv, OpKinds
  <2>. QED BY <1>1, <1>3, <2>1, <2>2, GateFrame, UpdateTypes
<1>4. CASE lane # None /\ up' = TRUE /\ Release
  <2>1. op' \in OpRec /\ IsOp(op') /\ op'.kind = "none" /\ op'.step = "none"
    BY <1>4, NoOpIs DEF Release
  <2>2. OpInv' /\ UpdateInv' /\ PlacesInv'
    BY <1>1, <2>1 DEF SessionInv, AgreeInv, OpInv, UpdateInv, OpKinds, PlacesInv
  <2>3. SwitchInv'
    BY <1>1, <1>4, <2>1 DEF SessionInv, AgreeInv, SwitchInv
  <2>4. StoreInv' /\ SettleInv'
    BY <1>1, <1>4, <2>1 DEF SessionInv, AgreeInv, StoreInv, SettleInv
  <2>5. TypeOK'
    BY <1>1, <1>4, <2>1 DEF SessionInv, TypeOK, OpRec, FromRec
  <2>6. ASSUME NEW k \in Jobs PROVE Fits(job[k], run[k], poll[k])'
    BY <1>1, <2>1 DEF SessionInv, RenderInv, Fits
  <2>. QED BY <2>2, <2>3, <2>4, <2>5, <2>6 DEF SessionInv, AgreeInv, RenderInv
<1>. QED BY <1>3, <1>4 DEF RestartDrains

LEMMA LaunchSteps ==
  ASSUME SessionInv, Launch
  PROVE  SessionInv'
<1>1. job \in [Jobs -> JobRec] /\ run \in [Runs -> RunRec] /\ poll \in [Jobs -> PollRec] /\ lane \in Runs \cup {None}
  BY SessionTypes DEF SessionInv
<1>2. op.kind \in {"restart", "start"} /\ op.step = "launch" /\ UNCHANGED <<closing, poll, work, update, fatal, deaths>> /\ op \in OpRec
  BY OpTypes DEF Launch, SessionInv
<1>3. CASE Fails /\ Release /\ UNCHANGED <<root, up, lane, job, run, torn>>
  <2>1. op' \in OpRec /\ IsOp(op') /\ op'.kind = "none" /\ op'.step = "none"
    BY <1>3, NoOpIs DEF Release
  <2>2. OpInv' /\ UpdateInv'
    BY <1>2, <2>1 DEF SessionInv, AgreeInv, OpInv, UpdateInv, OpKinds
  <2>3. faults' \in 0 .. MaxFaults
    BY <1>3, FailsBound
  <2>. QED BY <1>2, <1>3, <2>1, <2>2, <2>3, GateFrame, UpdateTypes
<1>4. CASE ~(Fails /\ Release /\ UNCHANGED <<root, up, lane, job, run, torn>>)
  <2>1. /\ up' = TRUE /\ lane' = None /\ torn' = FALSE /\ faults' = faults
        /\ root' = [root EXCEPT !.store = root.ui, !.cwd = None, !.ext = root.ui, !.plug = root.ui]
        /\ run' = [r \in Runs |-> IF r \in Consoles THEN NoRun
                                  ELSE IF run[r].st = "running"
                                  THEN [run[r] EXCEPT !.st = "interrupted", !.cancel = FALSE]
                                  ELSE run[r]]
        /\ job' = [j \in Jobs |-> [job[j] EXCEPT !.old = @ \/ job[j].task \in {"queued", "executing", "returned"}]]
        /\ (op.kind = "restart" /\ Goto("settle")) \/ Release
    BY <1>4 DEF Launch
  <2>2. PICK p : p = root.ui
    OBVIOUS
  <2>3. root' = [root EXCEPT !.store = p, !.cwd = None, !.ext = p, !.plug = p] /\ p \in Roots
    BY <2>1, <2>2 DEF SessionInv, AgreeInv, PlacesInv
  <2>4. root' \in [RootPlaces -> Roots \cup {None}] /\ root'["store"] = p /\ root'["cwd"] = None /\ root'["ext"] = p /\ root'["plug"] = p
        /\ root'["ui"] = root["ui"] /\ root'["watch"] = root["watch"] /\ root'["last"] = root["last"]
    BY <2>3, UpdateTypes DEF RootPlaces
  <2>5. /\ op' \in OpRec /\ IsOp(op')
        /\ \/ op'.kind = "restart" /\ op.kind = "restart" /\ op'.step = "settle" /\ op'.jobs = op.jobs
           \/ op'.kind = "none" /\ op'.step = "none"
    <3>1. CASE op.kind = "restart" /\ Goto("settle")
      BY <1>2, <3>1, GotoIs DEF OpSteps
    <3>2. CASE Release
      BY <3>2, NoOpIs DEF Release
    <3>. QED BY <2>1, <3>1, <3>2
  <2>6. ASSUME NEW j \in Jobs
        PROVE  /\ job'[j] \in JobRec /\ job'[j].st = job[j].st /\ job'[j].task = job[j].task /\ job'[j].out = job[j].out
               /\ job'[j].early = job[j].early /\ job'[j].root = job[j].root
    <3>1. PICK b : b = (job[j].old \/ job[j].task \in {"queued", "executing", "returned"})
      OBVIOUS
    <3>2. PICK n : n = [job[j] EXCEPT !.old = b]
      OBVIOUS
    <3>3. b \in BOOLEAN
      BY <3>1
    <3>4. n \in JobRec /\ n.st = job[j].st /\ n.task = job[j].task /\ n.out = job[j].out /\ n.early = job[j].early /\ n.root = job[j].root
      BY <1>1, <3>2, <3>3 DEF JobRec
    <3>5. job'[j] = n
      BY <2>1, <3>1, <3>2
    <3>. QED BY <3>4, <3>5
  <2>7. job' \in [Jobs -> JobRec]
    <3>1. job' = [j \in Jobs |-> job'[j]]
      BY <2>1
    <3>. QED BY <2>6, <3>1
  <2>8. ASSUME NEW r \in Runs
        PROVE  /\ run'[r] \in RunRec
               /\ r \in Jobs => /\ run'[r].root = run[r].root
                                /\ run[r].st = "running" => run'[r].st = "interrupted"
                                /\ run[r].st # "running" => run'[r].st = run[r].st
    <3>1. PICK n : n = [run[r] EXCEPT !.st = "interrupted", !.cancel = FALSE]
      OBVIOUS
    <3>2. n \in RunRec /\ n.st = "interrupted" /\ n.root = run[r].root /\ run[r] \in RunRec
      BY <1>1, <3>1 DEF RunRec, RunStates
    <3>3. NoRun \in RunRec
      BY DEF NoRun, RunRec, RunStates
    <3>4. run'[r] = IF r \in Consoles THEN NoRun ELSE IF run[r].st = "running" THEN n ELSE run[r]
      BY <2>1, <3>1
    <3>5. r \in Jobs => r \notin Consoles
      BY SessionAssumption
    <3>. QED BY <3>2, <3>3, <3>4, <3>5
  <2>9. run' \in [Runs -> RunRec]
    <3>1. run' = [r \in Runs |-> run'[r]]
      BY <2>1
    <3>. QED BY <2>8, <3>1
  <2>10. OpInv'
    BY <2>5 DEF OpInv, OpKinds
  <2>11. PlacesInv'
    BY <1>2, <2>2, <2>3, <2>4, <2>5 DEF SessionInv, AgreeInv, PlacesInv
  <2>12. SwitchInv'
    BY <1>2, <2>1, <2>4, <2>5 DEF SessionInv, AgreeInv, SwitchInv
  <2>13. StoreInv'
    BY <2>1, <2>2, <2>4, <2>5 DEF StoreInv
  <2>14. SettleInv'
    <3>1. op.jobs \subseteq Jobs
      BY <1>2 DEF OpRec
    <3>. QED BY <2>5, <2>6, <3>1 DEF SessionInv, AgreeInv, SettleInv
  <2>15. UpdateInv'
    BY <1>2, <2>5 DEF SessionInv, UpdateInv
  <2>16. ASSUME NEW j \in Jobs PROVE Fits(job[j], run[j], poll[j])'
    <3>1. Fits(job[j], run[j], poll[j]) /\ j \in Runs
      BY DEF SessionInv, RenderInv, Runs
    <3>2. /\ run'[j].root = run[j].root /\ (run[j].st = "running" => run'[j].st = "interrupted")
          /\ (run[j].st # "running" => run'[j].st = run[j].st)
      BY <2>8, <3>1
    <3>. QED BY <1>2, <2>2, <2>4, <2>5, <2>6, <3>1, <3>2 DEF Fits
  <2>17. TypeOK'
    BY <1>1, <1>2, <2>1, <2>4, <2>5, <2>7, <2>9 DEF SessionInv, TypeOK, OpRec, FromRec, RootPlaces, JobRec, RunRec
  <2>. QED BY <2>10, <2>11, <2>12, <2>13, <2>14, <2>15, <2>16, <2>17 DEF SessionInv, AgreeInv, RenderInv
<1>. QED BY <1>3, <1>4

LEMMA SettleSteps ==
  ASSUME SessionInv, RestartSettles
  PROVE  SessionInv'
<1>1. job \in [Jobs -> JobRec] /\ run \in [Runs -> RunRec] /\ poll \in [Jobs -> PollRec] /\ lane \in Runs \cup {None}
  BY SessionTypes DEF SessionInv
<1>2. op.kind = "restart" /\ op.step = "settle" /\ UNCHANGED <<up, lane, closing, poll, run, work, update, deaths>> /\ Release
  BY DEF RestartSettles, GateStep
<1>3. root.ui \in Roots /\ fatal \in BOOLEAN /\ root.store = root.ui /\ up
  BY <1>2 DEF SessionInv, AgreeInv, PlacesInv, SwitchInv, StoreInv
<1>4. PICK r \in SyncResults(root.ui) :
        /\ Enter(r, root.ui, root.ui) /\ fatal' = (fatal /\ ~r.ok)
        /\ job' = [j \in Jobs |->
                     IF r.ok /\ j \in op.jobs
                     THEN Reconciled(job[j], IF run[j].root = root.ui THEN run[j].st ELSE "none")
                     ELSE job[j]]
  BY DEF RestartSettles
<1>5. /\ root' \in [RootPlaces -> Roots \cup {None}] /\ torn' \in BOOLEAN /\ faults' \in 0 .. MaxFaults
      /\ root'.ui = root.ui /\ root'.store = root.store /\ root'.watch = root.watch /\ root'.ext = root.ext
      /\ root'.plug = root.plug /\ root'.last = root.last /\ (root'.cwd \in {root.ui, None} \/ torn')
  BY <1>3, <1>4, EnterIs
<1>6. op' \in OpRec /\ IsOp(op') /\ op'.kind = "none" /\ op'.step = "none"
  BY <1>2, NoOpIs DEF Release
<1>7. fatal' \in BOOLEAN /\ (fatal' => fatal)
  BY <1>3, <1>4
<1>8. ASSUME NEW j \in Jobs
      PROVE  /\ job'[j] \in JobRec
             /\ \/ job'[j] = job[j]
                \/ /\ job[j].task = "ended" /\ job'[j].task = "ended" /\ job'[j].early = job[j].early /\ job'[j].root = job[j].root
                   /\ job'[j].st \in {job[j].st, "completed", "failed", "interrupted"}
                   /\ (job'[j].st = "completed" => job[j].st = "completed" \/ run[j].st = "completed")
  <2>1. job[j] \in JobRec
    BY <1>1
  <2>2. CASE r.ok /\ j \in op.jobs
    <3>1. PICK s : s = IF run[j].root = root.ui THEN run[j].st ELSE "none"
      OBVIOUS
    <3>2. PICK n : n = Reconciled(job[j], s)
      OBVIOUS
    <3>3. job'[j] = n
      BY <1>4, <2>2, <3>1, <3>2
    <3>4. s = "completed" => run[j].st = "completed"
      BY <3>1
    <3>5. job[j].task = "ended"
      BY <1>2, <2>2 DEF SessionInv, AgreeInv, SettleInv
    <3>6. /\ n \in JobRec /\ n.st \in {job[j].st, "completed", "failed", "interrupted"} /\ n.task = job[j].task
          /\ n.early = job[j].early /\ n.root = job[j].root
          /\ (n.st = "completed" => job[j].st = "completed" \/ s = "completed")
      BY <2>1, <3>2 DEF JobRec, JobStates, TerminalJob, Reconciled, FinishJob
    <3>. QED BY <3>3, <3>4, <3>5, <3>6
  <2>3. CASE ~(r.ok /\ j \in op.jobs)
    BY <1>4, <2>1, <2>3
  <2>. QED BY <2>2, <2>3
<1>9. job' \in [Jobs -> JobRec]
  <2>1. job' = [j \in Jobs |-> job'[j]]
    BY <1>4
  <2>. QED BY <1>8, <2>1
<1>10. OpInv' /\ SettleInv'
  BY <1>6 DEF OpInv, OpKinds, SettleInv
<1>11. PlacesInv'
  BY <1>2, <1>5, <1>6 DEF SessionInv, AgreeInv, PlacesInv
<1>12. SwitchInv'
  BY <1>2, <1>5, <1>6, <1>7 DEF SessionInv, AgreeInv, SwitchInv
<1>13. StoreInv'
  BY <1>2, <1>3, <1>5, <1>6 DEF StoreInv
<1>14. UpdateInv'
  BY <1>2, <1>6 DEF SessionInv, UpdateInv
<1>15. ASSUME NEW j \in Jobs PROVE Fits(job[j], run[j], poll[j])'
  <2>1. Fits(job[j], run[j], poll[j])
    BY DEF SessionInv, RenderInv
  <2>2. CASE job'[j] = job[j]
    BY <1>2, <1>5, <1>6, <1>7, <2>1, <2>2 DEF Fits
  <2>3. CASE /\ job[j].task = "ended" /\ job'[j].task = "ended" /\ job'[j].early = job[j].early /\ job'[j].root = job[j].root
             /\ job'[j].st \in {job[j].st, "completed", "failed", "interrupted"}
             /\ (job'[j].st = "completed" => job[j].st = "completed" \/ run[j].st = "completed")
    BY <1>2, <2>1, <2>3 DEF Fits
  <2>. QED BY <1>8, <2>2, <2>3
<1>16. TypeOK'
  BY <1>1, <1>2, <1>5, <1>6, <1>7, <1>9 DEF SessionInv, TypeOK, OpRec, FromRec, RootPlaces, JobRec, RunRec
<1>. QED BY <1>10, <1>11, <1>12, <1>13, <1>14, <1>15, <1>16 DEF SessionInv, AgreeInv, RenderInv

\* What an end of the process leaves is a state the next start can go on from, provided
\* the application on disk is.
LEMMA EndsWell ==
  ASSUME SessionInv, ProcessEnds, UNCHANGED run, deaths' \in 0 .. MaxDeaths, faults' \in 0 .. MaxFaults,
         update' \in UpdateRec, update' = [target |-> update'.target, backup |-> update'.backup, bytes |-> update'.bytes],
         update'.target # "forged", update'.target = "gone" => update'.backup
  PROVE  SessionInv'
<1>1. job \in [Jobs -> JobRec] /\ run \in [Runs -> RunRec]
  BY SessionTypes DEF SessionInv
<1>2. /\ op' = Down /\ up' = FALSE /\ lane' = None /\ closing' = "no" /\ work' = None /\ torn' = FALSE /\ fatal' = FALSE
      /\ poll' = [j \in Jobs |-> "idle"]
  BY DEF ProcessEnds
<1>3. PICK p : p = root.last
  OBVIOUS
<1>4. root' = [root EXCEPT !.ui = p, !.cwd = None, !.watch = None, !.ext = None, !.plug = None] /\ p \in Roots
  BY <1>3 DEF ProcessEnds, SessionInv, AgreeInv, PlacesInv
<1>5. root' \in [RootPlaces -> Roots \cup {None}] /\ root'["ui"] = p /\ root'["cwd"] = None /\ root'["watch"] = None
      /\ root'["ext"] = None /\ root'["plug"] = None /\ root'["store"] = root["store"] /\ root'["last"] = root["last"]
  BY <1>4, UpdateTypes DEF RootPlaces
<1>6. op' \in OpRec /\ IsOp(op') /\ op'.kind = "down" /\ op'.step = "none"
  BY <1>2, NoOpIs
<1>7. ASSUME NEW j \in Jobs
      PROVE  /\ job'[j] \in JobRec /\ job'[j].task \in {"none", "ended"}
             /\ job'[j].st \in {"none", "expired"} /\ (job'[j].task = "none" <=> job'[j].st = "none")
             /\ job'[j].st = "none" => job[j].st = "none" /\ ~job'[j].early
             /\ job[j].st # "none" => job'[j].early = job[j].early /\ job'[j].root = job[j].root
  <2>1. PICK e, x : e = job[j].early /\ x = job[j].root
    OBVIOUS
  <2>2. PICK n : n = [NoJob EXCEPT !.st = "expired", !.root = x, !.task = "ended", !.early = e]
    OBVIOUS
  <2>3. e \in BOOLEAN /\ x \in Roots \cup {None}
    BY <1>1, <2>1 DEF JobRec
  <2>4. n \in JobRec /\ n.task = "ended" /\ n.st = "expired" /\ n.early = e /\ n.root = x
    BY <2>2, <2>3 DEF NoJob, JobRec, JobStates, TaskSteps, RenderOutcomes
  <2>5. PICK m : m = [st |-> "none", root |-> None, task |-> "none", cancel |-> FALSE, out |-> "ok", old |-> FALSE, early |-> FALSE]
    OBVIOUS
  <2>6. m \in JobRec /\ m.task = "none" /\ m.st = "none" /\ m.early = FALSE
    BY <2>5 DEF JobRec, JobStates, TaskSteps, RenderOutcomes
  <2>7. job'[j] = IF job[j].st = "none" THEN NoJob
                  ELSE [NoJob EXCEPT !.st = "expired", !.root = job[j].root, !.task = "ended", !.early = job[j].early]
    BY DEF ProcessEnds
  <2>8. job'[j] = IF job[j].st = "none" THEN m ELSE n
    <3>1. m = NoJob
      BY <2>5 DEF NoJob
    <3>2. n = [NoJob EXCEPT !.st = "expired", !.root = job[j].root, !.task = "ended", !.early = job[j].early]
      BY <2>1, <2>2, Zenon
    <3>. QED BY <2>7, <3>1, <3>2, Zenon
  <2>. QED BY <2>1, <2>4, <2>6, <2>8
<1>8. job' \in [Jobs -> JobRec]
  <2>1. job' = [j \in Jobs |-> job'[j]]
    BY DEF ProcessEnds
  <2>. QED BY <1>7, <2>1
<1>9. OpInv' /\ SettleInv' /\ UpdateInv'
  BY <1>2, <1>6 DEF OpInv, OpKinds, SettleInv, UpdateInv
<1>10. PlacesInv'
  BY <1>2, <1>3, <1>4, <1>5, <1>6 DEF SessionInv, AgreeInv, PlacesInv
<1>11. SwitchInv'
  BY <1>2, <1>3, <1>5, <1>6 DEF SwitchInv
<1>12. StoreInv'
  BY <1>2, <1>6, <1>7 DEF StoreInv, LiveTask
<1>13. ASSUME NEW j \in Jobs PROVE Fits(job[j], run[j], poll[j])'
  <2>1. Fits(job[j], run[j], poll[j])
    BY DEF SessionInv, RenderInv
  <2>2. poll'[j] = "idle" /\ run'[j] = run[j]
    BY <1>2
  <2>. QED BY <1>7, <2>1, <2>2 DEF Fits
<1>14. poll' \in [Jobs -> RunStates \cup {"idle"}]
  BY <1>2
<1>15. TypeOK'
  BY <1>1, <1>2, <1>5, <1>6, <1>8, <1>14 DEF SessionInv, TypeOK, OpRec, FromRec, RootPlaces, JobRec, RunRec, UpdateRec
<1>. QED BY <1>9, <1>10, <1>11, <1>12, <1>13, <1>15 DEF SessionInv, AgreeInv, RenderInv

LEMMA UpdateIs ==
  ASSUME SessionInv
  PROVE  /\ update = [target |-> update.target, backup |-> update.backup, bytes |-> update.bytes]
         /\ update.target # "forged" /\ (update.target = "gone" => update.backup)
BY DEF SessionInv, UpdateInv

LEMMA DieSteps ==
  ASSUME SessionInv, Die
  PROVE  SessionInv'
<1>1. deaths < MaxDeaths /\ deaths' = deaths + 1 /\ ProcessEnds /\ UNCHANGED <<run, update, faults>>
  BY DEF Die
<1>2. deaths' \in 0 .. MaxDeaths
  BY <1>1, UpdateTypes, SessionAssumption
<1>. QED BY <1>1, <1>2, EndsWell, UpdateIs, UpdateTypes

LEMMA ShutdownSteps ==
  ASSUME SessionInv, BeginShutdown
  PROVE  SessionInv'
<1>1. op.kind = "none" /\ closing # "no" /\ UNCHANGED deaths /\ op \in OpRec
  BY OpTypes DEF BeginShutdown, GateFree, SessionInv
<1>2. CASE /\ work' = None /\ up' = FALSE /\ root' = [root EXCEPT !.plug = None, !.watch = None, !.ext = None]
           /\ op' = [NoOp EXCEPT !.kind = closing, !.step = "drain"]
           /\ UNCHANGED <<lane, closing, job, poll, run, torn, fatal, update, faults>>
  <2>1. root' \in [RootPlaces -> Roots \cup {None}] /\ root'["plug"] = None /\ root'["watch"] = None /\ root'["ext"] = None
        /\ root'["ui"] = root["ui"] /\ root'["cwd"] = root["cwd"] /\ root'["store"] = root["store"] /\ root'["last"] = root["last"]
    BY <1>2, UpdateTypes DEF RootPlaces
  <2>2. closing \in {"close", "install"}
    BY <1>1, UpdateTypes
  <2>3. PICK o : o = [NoOp EXCEPT !.kind = closing, !.step = "drain"]
    OBVIOUS
  <2>4. o \in OpRec /\ IsOp(o) /\ o.kind = closing /\ o.step = "drain"
    BY <2>2, <2>3 DEF NoOp, OpRec, IsOp, OpKinds, OpSteps
  <2>5. op' = o
    BY <1>2, <2>3, Zenon
  <2>6. OpInv' /\ SettleInv'
    BY <2>2, <2>4, <2>5 DEF OpInv, OpKinds, SettleInv
  <2>7. PlacesInv'
    BY <1>2, <2>1, <2>2, <2>4, <2>5 DEF SessionInv, AgreeInv, PlacesInv
  <2>8. SwitchInv'
    BY <1>1, <1>2, <2>1, <2>2, <2>4, <2>5 DEF SessionInv, AgreeInv, SwitchInv
  <2>9. StoreInv'
    BY <1>1, <1>2, <2>1, <2>2, <2>4, <2>5 DEF SessionInv, AgreeInv, StoreInv, SwitchInv
  <2>10. UpdateInv'
    BY <1>2, <2>2, <2>4, <2>5 DEF SessionInv, UpdateInv
  <2>11. ASSUME NEW k \in Jobs PROVE Fits(job[k], run[k], poll[k])'
    BY <1>2, <2>1, <2>2, <2>4, <2>5 DEF SessionInv, RenderInv, Fits
  <2>12. TypeOK'
    BY <1>1, <1>2, <2>1, <2>4, <2>5 DEF SessionInv, TypeOK, OpRec, FromRec, RootPlaces
  <2>. QED BY <2>6, <2>7, <2>8, <2>9, <2>10, <2>11, <2>12 DEF SessionInv, AgreeInv, RenderInv
<1>3. CASE Fails /\ ProcessEnds /\ UNCHANGED <<run, update>>
  BY <1>1, <1>3, FailsBound, EndsWell, UpdateIs, UpdateTypes
<1>4. CASE Fails /\ closing' = "no" /\ update' = NoUpdate /\ UNCHANGED <<root, up, lane, op, job, poll, run, work, torn, fatal>>
  <2>1. PICK u : u = [target |-> "current", backup |-> FALSE, bytes |-> "none"]
    OBVIOUS
  <2>2. u \in UpdateRec /\ u = [target |-> u.target, backup |-> u.backup, bytes |-> u.bytes] /\ u.target = "current"
    BY <2>1 DEF UpdateRec
  <2>3. update' = u
    BY <1>4, <2>1 DEF NoUpdate
  <2>4. OpInv' /\ UpdateInv'
    BY <1>1, <1>4, <2>2, <2>3 DEF SessionInv, AgreeInv, OpInv, UpdateInv
  <2>5. faults' \in 0 .. MaxFaults
    BY <1>4, FailsBound
  <2>. QED BY <1>1, <1>4, <2>2, <2>3, <2>4, <2>5, GateFrame, UpdateTypes
<1>. QED BY <1>2, <1>3, <1>4 DEF BeginShutdown

\* The installer goes on to its next step.
LEMMA GoesOn ==
  ASSUME SessionInv, op.kind = "install", NEW s \in {"preserve", "replace", "open"}, Goto(s),
         UNCHANGED <<root, up, lane, closing, job, poll, run, work, torn, fatal, deaths, faults>>,
         NEW u \in UpdateRec, update' = u, u = [target |-> u.target, backup |-> u.backup, bytes |-> u.bytes],
         u.target # "forged", u.target = "gone" => u.backup, u.bytes = update.bytes,
         s \in {"replace", "open"} => u.backup, s = "open" => u.target # "gone"
  PROVE  SessionInv'
<1>1. op \in OpRec
  BY OpTypes DEF SessionInv
<1>2. op' \in OpRec /\ IsOp(op') /\ op'.kind = op.kind /\ op'.step = s
  BY <1>1, GotoIs DEF OpSteps
<1>3. OpInv' /\ UpdateInv'
  BY <1>2 DEF SessionInv, OpInv, UpdateInv, OpKinds
<1>. QED BY <1>2, <1>3, GateFrame, UpdateTypes

LEMMA ShutdownDrainSteps ==
  ASSUME SessionInv, ShutdownDrains
  PROVE  SessionInv'
<1>1. op.step = "drain" /\ UNCHANGED <<run, update, deaths, faults>>
  BY DEF ShutdownDrains
<1>2. CASE ProcessEnds
  BY <1>1, <1>2, EndsWell, UpdateIs, UpdateTypes
<1>3. CASE op.kind = "install" /\ Goto("preserve") /\ UNCHANGED <<root, up, lane, closing, job, poll, work, torn, fatal>>
  BY <1>1, <1>3, GoesOn, UpdateIs, UpdateTypes
<1>. QED BY <1>2, <1>3 DEF ShutdownDrains

\* What the installer makes of the application.
LEMMA UpdatedIs ==
  ASSUME SessionInv, NEW t \in {"current", "new", "gone"}, NEW b \in BOOLEAN, t = "gone" => b,
         NEW u, u = [update EXCEPT !.target = t, !.backup = b]
  PROVE  /\ u \in UpdateRec /\ u = [target |-> u.target, backup |-> u.backup, bytes |-> u.bytes]
         /\ u.target = t /\ u.backup = b /\ u.bytes = update.bytes
BY UpdateTypes DEF UpdateRec

LEMMA PreserveSteps ==
  ASSUME SessionInv, PreserveApp
  PROVE  SessionInv'
<1>1. op.kind = "install" /\ UNCHANGED <<run, deaths>>
  BY DEF PreserveApp, InstallStep, GateStep
<1>2. CASE update' = [update EXCEPT !.target = "gone", !.backup = TRUE] /\ InstallGoesOn("replace")
  <2>1. PICK u : u = [update EXCEPT !.target = "gone", !.backup = TRUE]
    OBVIOUS
  <2>2. /\ u \in UpdateRec /\ u = [target |-> u.target, backup |-> u.backup, bytes |-> u.bytes]
        /\ u.target = "gone" /\ u.backup = TRUE /\ u.bytes = update.bytes
    BY <2>1, UpdatedIs
  <2>3. update' = u
    BY <1>2, <2>1
  <2>. QED BY <1>1, <1>2, <2>2, <2>3, GoesOn DEF InstallGoesOn
<1>3. CASE Fails /\ ProcessEnds /\ UNCHANGED update
  BY <1>1, <1>3, FailsBound, EndsWell, UpdateIs, UpdateTypes
<1>. QED BY <1>2, <1>3 DEF PreserveApp

LEMMA ReplaceSteps ==
  ASSUME SessionInv, ReplaceApp
  PROVE  SessionInv'
<1>1. op.kind = "install" /\ op.step = "replace" /\ UNCHANGED <<run, deaths>>
  BY DEF ReplaceApp, InstallStep, GateStep
<1>2. update.bytes = "signed" /\ update.backup /\ update \in UpdateRec
  BY <1>1, UpdateTypes DEF SessionInv, UpdateInv
<1>3. CASE update' = [update EXCEPT !.target = Installed] /\ InstallGoesOn("open")
  <2>1. PICK u : u = [update EXCEPT !.target = "new"]
    OBVIOUS
  <2>2. /\ u \in UpdateRec /\ u = [target |-> u.target, backup |-> u.backup, bytes |-> u.bytes]
        /\ u.target = "new" /\ u.backup = update.backup /\ u.bytes = update.bytes
    BY <1>2, <2>1 DEF UpdateRec
  <2>3. update' = u
    BY <1>2, <1>3, <2>1 DEF Installed
  <2>. QED BY <1>1, <1>2, <1>3, <2>2, <2>3, GoesOn DEF InstallGoesOn
<1>4. CASE Fails /\ ProcessEnds /\ update' \in {update, [update EXCEPT !.target = "current", !.backup = FALSE]}
  <2>1. PICK u : u = [update EXCEPT !.target = "current", !.backup = FALSE]
    OBVIOUS
  <2>2. /\ u \in UpdateRec /\ u = [target |-> u.target, backup |-> u.backup, bytes |-> u.bytes] /\ u.target = "current"
    BY <2>1, UpdatedIs
  <2>3. update' \in {update, u}
    BY <1>4, <2>1
  <2>. QED BY <1>1, <1>2, <1>4, <2>2, <2>3, FailsBound, EndsWell, UpdateIs, UpdateTypes
<1>. QED BY <1>3, <1>4 DEF ReplaceApp

LEMMA OpenSteps ==
  ASSUME SessionInv, OpenApp
  PROVE  SessionInv'
<1>1. op.kind = "install" /\ op.step = "open" /\ UNCHANGED <<run, deaths>> /\ ProcessEnds
  BY DEF OpenApp, InstallStep, GateStep
<1>2. update.backup /\ update.target # "gone" /\ update.target # "forged" /\ update \in UpdateRec
  BY <1>1, UpdateTypes DEF SessionInv, UpdateInv
<1>3. CASE update' = [update EXCEPT !.backup = FALSE] /\ UNCHANGED faults
  <2>1. PICK u : u = [update EXCEPT !.backup = FALSE]
    OBVIOUS
  <2>2. /\ u \in UpdateRec /\ u = [target |-> u.target, backup |-> u.backup, bytes |-> u.bytes] /\ u.target = update.target
    BY <1>2, <2>1 DEF UpdateRec
  <2>3. update' = u
    BY <1>3, <2>1
  <2>. QED BY <1>1, <1>2, <1>3, <2>2, <2>3, EndsWell, UpdateTypes
<1>4. CASE /\ Fails
           /\ update' \in {[update EXCEPT !.target = "current", !.backup = FALSE], [update EXCEPT !.target = "gone"]}
  <2>1. PICK u : u = [update EXCEPT !.target = "current", !.backup = FALSE]
    OBVIOUS
  <2>2. /\ u \in UpdateRec /\ u = [target |-> u.target, backup |-> u.backup, bytes |-> u.bytes] /\ u.target = "current"
    BY <2>1, UpdatedIs
  <2>3. PICK v : v = [update EXCEPT !.target = "gone"]
    OBVIOUS
  <2>4. /\ v \in UpdateRec /\ v = [target |-> v.target, backup |-> v.backup, bytes |-> v.bytes] /\ v.target = "gone" /\ v.backup
    BY <1>2, <2>3 DEF UpdateRec
  <2>5. update' = u \/ update' = v
    BY <1>4, <2>1, <2>3
  <2>6. faults' \in 0 .. MaxFaults
    BY <1>4, FailsBound
  <2>. QED BY <1>1, <2>2, <2>4, <2>5, <2>6, EndsWell, UpdateTypes
<1>. QED BY <1>3, <1>4 DEF OpenApp

LEMMA SessionStarts ==
  ASSUME Init
  PROVE  SessionInv
<1>1. PICK p \in Roots : root = [ui |-> p, store |-> p, cwd |-> None, watch |-> None, ext |-> p, plug |-> p, last |-> p]
  BY DEF Init
<1>2. root \in [RootPlaces -> Roots \cup {None}] /\ root.ui = p /\ root.store = p /\ root.cwd = None /\ root.watch = None
      /\ root.ext = p /\ root.plug = p /\ root.last = p
  BY <1>1 DEF RootPlaces
<1>3. op \in OpRec /\ IsOp(op) /\ op.kind = "none" /\ op.step = "none"
  BY NoOpIs DEF Init
<1>4. PICK n, r : /\ n = [st |-> "none", root |-> None, task |-> "none", cancel |-> FALSE, out |-> "ok", old |-> FALSE, early |-> FALSE]
                  /\ r = [st |-> "none", root |-> None, cancel |-> FALSE]
  OBVIOUS
<1>5. n \in JobRec /\ r \in RunRec /\ n.st = "none" /\ n.task = "none" /\ n.early = FALSE /\ r.st = "none"
  BY <1>4 DEF JobRec, JobStates, TaskSteps, RenderOutcomes, RunRec, RunStates
<1>6. job = [j \in Jobs |-> n] /\ run = [x \in Runs |-> r] /\ poll = [j \in Jobs |-> "idle"]
  BY <1>4 DEF Init, NoJob, NoRun
<1>7. job \in [Jobs -> JobRec] /\ run \in [Runs -> RunRec] /\ poll \in [Jobs -> RunStates \cup {"idle"}]
  BY <1>5, <1>6
<1>8. PICK u : u = [target |-> "current", backup |-> FALSE, bytes |-> "none"]
  OBVIOUS
<1>9. u \in UpdateRec /\ u = [target |-> u.target, backup |-> u.backup, bytes |-> u.bytes] /\ u.target = "current" /\ update = u
  BY <1>8 DEF UpdateRec, Init, NoUpdate
<1>10. up = TRUE /\ lane = None /\ closing = "no" /\ work = None /\ torn = FALSE /\ fatal = FALSE /\ deaths = 0 /\ faults = 0
  BY DEF Init
<1>11. TypeOK
  <2>1. deaths \in 0 .. MaxDeaths /\ faults \in 0 .. MaxFaults
    BY <1>10, SessionAssumption
  <2>2. up \in BOOLEAN /\ torn \in BOOLEAN /\ fatal \in BOOLEAN /\ closing \in {"no", "close", "install"}
        /\ lane \in Runs \cup {None} /\ work \in Roots \cup {None}
    BY <1>10
  <2>. QED BY <1>2, <1>3, <1>7, <1>9, <2>1, <2>2 DEF TypeOK, OpRec, FromRec, JobRec, RunRec, UpdateRec, RootPlaces
<1>12. OpInv /\ SettleInv /\ UpdateInv
  BY <1>3, <1>9, <1>10 DEF OpInv, OpKinds, SettleInv, UpdateInv
<1>13. PlacesInv /\ SwitchInv /\ StoreInv
  BY <1>2, <1>3, <1>10 DEF PlacesInv, SwitchInv, StoreInv
<1>14. ASSUME NEW j \in Jobs PROVE Fits(job[j], run[j], poll[j])
  <2>1. job[j] = n /\ run[j] = r /\ poll[j] = "idle"
    BY <1>6 DEF Runs
  <2>. QED BY <1>5, <2>1 DEF Fits
<1>. QED BY <1>11, <1>12, <1>13, <1>14 DEF SessionInv, AgreeInv, RenderInv

LEMMA SessionRests ==
  ASSUME SessionInv, UNCHANGED vars
  PROVE  SessionInv'
<1>1. op \in OpRec
  BY OpTypes DEF SessionInv
<1>2. OpInv' /\ UpdateInv'
  BY DEF SessionInv, AgreeInv, OpInv, UpdateInv, vars
<1>. QED BY <1>1, <1>2, GateFrame, UpdateTypes DEF vars

LEMMA SessionSteps ==
  ASSUME SessionInv, [Next]_vars
  PROVE  SessionInv'
<1>1. CASE SwitchNext
  BY <1>1, SwitchBegins, PrepareSteps, SyncSteps, BuildSteps, SetStoreSteps, SaveLastSteps, PublishSteps,
     RecoverSyncSteps, RestoreSteps DEF SwitchNext
<1>2. CASE RenderNext
  BY <1>2, SubmitSteps, RenderStartSteps, RenderReturnSteps, RenderEndSteps, StatusSteps, CancelSteps DEF RenderNext
<1>3. CASE GateNext
  BY <1>3, RestartSteps, DrainSteps, SettleSteps, StartSteps, LaunchSteps, WorkSteps, InstallBegins, ShutdownSteps,
     ShutdownDrainSteps, PreserveSteps, ReplaceSteps, OpenSteps DEF GateNext
<1>4. CASE \E u \in Consoles : ExecuteR(u) \/ ExecuteREnds(u)
  BY <1>4, ConsoleSteps
<1>5. CASE \E j \in Jobs : RequestRunInterrupt(j)
  BY <1>5, InterruptSteps
<1>6. CASE AdmitWork \/ WorkEnds \/ Die \/ Relaunch
  BY <1>6, WorkSteps, DieSteps, RelaunchSteps
<1>7. CASE UNCHANGED vars
  BY <1>7, SessionRests
<1>. QED BY <1>1, <1>2, <1>3, <1>4, <1>5, <1>6, <1>7 DEF Next

\* SessionInv holds in every state of the project session, through switches, restarts,
\* installs and deaths of the process at any step.
THEOREM SessionInvariance == Spec => []SessionInv
<1>1. Init => SessionInv
  BY SessionStarts
<1>2. SessionInv /\ [Next]_vars => SessionInv'
  BY SessionSteps
<1>. QED BY <1>1, <1>2, PTL DEF Spec

\* The types of the session's state are kept by every step (TypeOK of ProjectSession).
THEOREM SessionTypeCorrect == Spec => []TypeOK
<1>1. SessionInv => TypeOK
  BY DEF SessionInv
<1>. QED BY <1>1, SessionInvariance, PTL

\* Whenever no transition is under way and none failed beyond repair, the places that say
\* which project is open agree, however many of the steps of switch_project_with_watcher_factory
\* and recover_failed_project_switch failed before.
THEOREM ProjectsAgreed == Spec => []ProjectsAgree
<1>1. SessionInv => ProjectsAgree
  BY DEF SessionInv, AgreeInv, PlacesInv, SwitchInv, StoreInv, ProjectsAgree, GateFree
<1>. QED BY <1>1, SessionInvariance, PTL

\* A render submitted with no switch under way is recorded in its own project, and a job
\* reads completed only if its run did (project_switch_blocker, reconcile_render_job).
THEOREM RendersTold == Spec => []RendersTellRuns
<1>1. SessionInv => RendersTellRuns
  BY DEF SessionInv, RenderInv, Fits, RendersTellRuns, EarlyRendersStay, CompletedRendersRan
<1>. QED BY <1>1, SessionInvariance, PTL

\* The application on disk is the old one or a verified one, or the old one waits beside
\* its place, whatever step of the installer fails or dies (install_verified_native_update).
THEOREM AppRecovers == Spec => []AppRecoverable
<1>1. SessionInv => AppRecoverable
  BY DEF SessionInv, UpdateInv, AppRecoverable
<1>. QED BY <1>1, SessionInvariance, PTL

-----------------------------------------------------------------------------
(* StoreMigration *)

IsDb(d) == d = [ver |-> d.ver, parts |-> d.parts, project |-> d.project, conv |-> d.conv, kinds |-> d.kinds]

\* The first database completely migrated.
WholeDb(d) ==
    /\ d.ver = SCHEMA_VERSION
    /\ CurrentParts \subseteq d.parts
    /\ \A r \in StoreRows : d.project[r] = Owner(r)
    /\ \A t \in MigTurns : d.conv[t] = Owner(t)

\* What a database that is not empty starts as: the parts of its version, an owner for each
\* row from version 8 on, each turn mapped from version 12 on.
FirstDb(d) ==
    /\ d.ver \in Nat /\ d.parts = PartsOf(d.ver)
    /\ d.ver # 7 => \A r \in StoreRows : d.project[r] # "null"
    /\ d.ver >= 12 => \A t \in MigTurns : d.conv[t] = d.project[t]

MigrationSteps == {"remove", "vacuum", "begin", "write"}
BootstrapSteps == {"tables", "plugins", "version"}

\* An opener bootstraps only what it found empty, and migrates only from the version the
\* first database had.
OpenerInv(o) ==
    /\ mpc[o] \notin BootstrapSteps
    /\ mpc[o] \in MigrationSteps => seen[o] = origin.ver /\ seen[o] \in BackedUp

MigInv ==
    /\ DOMAIN mpc = Openers /\ DOMAIN seen = Openers
    /\ origin.parts # {} =>
          /\ IsDb(origin) /\ FirstDb(origin) /\ IsDb(db)
          /\ db = origin \/ WholeDb(db)
          /\ \A o \in Openers : OpenerInv(o)

LEMMA PartsAreSome ==
  ASSUME NEW v \in Nat
  PROVE  PartsOf(v) # {}
BY DEF PartsOf

LEMMA PartsAre ==
  /\ PartsOf(7) = {"base"}
  /\ PartsOf(8) = {"base", "identity"}
  /\ PartsOf(9) = {"base", "identity", "claims"}
  /\ PartsOf(10) = {"base", "identity", "claims", "ranges10"}
  /\ PartsOf(11) = {"base", "identity", "claims", "ranges"}
  /\ PartsOf(12) = {"base", "identity", "claims", "ranges", "conversations"}
  /\ PartsOf(13) = {"base", "identity", "claims", "ranges", "conversations", "permissions"}
BY DEF PartsOf, CurrentParts, BaseParts, ClaimParts, PermissionParts, LifecycleParts

Fields(e, ver, parts, project, cnv, kinds) ==
    e = [ver |-> ver, parts |-> parts, project |-> project, conv |-> cnv, kinds |-> kinds]

Legacied(d) == [r \in StoreRows |-> IF d.project[r] = "null" THEN LegacyUnscoped ELSE d.project[r]]

\* The four rebuilt tables are all there are: no row keeps a missing owner.
LEMMA RebuildsAll ==
  ASSUME NEW d, IsDb(d)
  PROVE  Fields(rebuild_plot_artifacts_v8(rebuild_approval_requests_v8(rebuild_agent_turns_v8(rebuild_runs_v8(d)))),
                d.ver, d.parts \cup {"ranges", "identity"}, Legacied(d), d.conv, d.kinds)
<1>. DEFINE c1 == Coalesced(d, "runs")
            e1 == rebuild_runs_v8(d)
            c2 == Coalesced(e1, "agent_turns")
            e2 == rebuild_agent_turns_v8(e1)
            c3 == Coalesced(e2, "approval_requests")
            e3 == rebuild_approval_requests_v8(e2)
            c4 == Coalesced(e3, "plot_artifacts")
            e4 == rebuild_plot_artifacts_v8(e3)
<1>1. Fields(e1, d.ver, d.parts \cup {"ranges"}, c1, d.conv, d.kinds)
  <2>. HIDE DEF c1
  <2>1. e1 = [d EXCEPT !.project = c1, !.parts = @ \cup {"ranges"}]
    BY DEF rebuild_runs_v8, c1
  <2>. QED BY <2>1 DEF IsDb, Fields
<1>2. Fields(e2, d.ver, d.parts \cup {"ranges"}, c2, d.conv, d.kinds)
  <2>. HIDE DEF c1, c2, e1
  <2>1. e2 = [e1 EXCEPT !.project = c2]
    BY DEF rebuild_agent_turns_v8, c2
  <2>. QED BY <1>1, <2>1 DEF Fields
<1>3. Fields(e3, d.ver, d.parts \cup {"ranges"}, c3, d.conv, d.kinds)
  <2>. HIDE DEF c2, c3, e2
  <2>1. e3 = [e2 EXCEPT !.project = c3]
    BY DEF rebuild_approval_requests_v8, c3
  <2>. QED BY <1>2, <2>1 DEF Fields
<1>4. Fields(e4, d.ver, d.parts \cup {"ranges", "identity"}, c4, d.conv, d.kinds)
  <2>. HIDE DEF c3, c4, e3
  <2>1. e4 = [e3 EXCEPT !.project = c4, !.parts = @ \cup {"identity"}]
    BY DEF rebuild_plot_artifacts_v8, c4
  <2>2. (d.parts \cup {"ranges"}) \cup {"identity"} = d.parts \cup {"ranges", "identity"}
    OBVIOUS
  <2>. QED BY <1>3, <2>1, <2>2 DEF Fields
<1>5. e1.project = c1 /\ e2.project = c2 /\ e3.project = c3
  <2>. HIDE DEF c1, c2, c3, e1, e2, e3
  <2>. QED BY <1>1, <1>2, <1>3 DEF Fields
<1>6. ASSUME NEW r \in StoreRows PROVE c4[r] = Legacied(d)[r]
  <2>1. c1[r] = IF r[1] = "runs" /\ d.project[r] = "null" THEN LegacyUnscoped ELSE d.project[r]
    BY DEF Coalesced
  <2>2. c2[r] = IF r[1] = "agent_turns" /\ c1[r] = "null" THEN LegacyUnscoped ELSE c1[r]
    <3>. HIDE DEF c1, e1
    <3>. QED BY <1>5 DEF Coalesced
  <2>3. c3[r] = IF r[1] = "approval_requests" /\ c2[r] = "null" THEN LegacyUnscoped ELSE c2[r]
    <3>. HIDE DEF c2, e2
    <3>. QED BY <1>5 DEF Coalesced
  <2>4. c4[r] = IF r[1] = "plot_artifacts" /\ c3[r] = "null" THEN LegacyUnscoped ELSE c3[r]
    <3>. HIDE DEF c3, e3
    <3>. QED BY <1>5 DEF Coalesced
  <2>5. r[1] \in {"runs", "agent_turns", "approval_requests", "plot_artifacts"}
    BY StoreRowsAssumption DEF Tables
  <2>. HIDE DEF c1, c2, c3, c4
  <2>. QED BY <2>1, <2>2, <2>3, <2>4, <2>5 DEF Legacied, LegacyUnscoped
<1>7. c4 = Legacied(d)
  <2>1. c4 = [r \in StoreRows |-> c4[r]]
    BY DEF Coalesced
  <2>. HIDE DEF c4
  <2>. QED BY <1>6, <2>1 DEF Legacied
<1>. HIDE DEF c4
<1>. QED BY <1>4, <1>7

Mapped(d) == [t \in MigTurns |-> d.project[t]]

\* e is a database with these parts, owners and mappings.
Has(e, parts, project, cnv) == IsDb(e) /\ e.parts = parts /\ e.project = project /\ e.conv = cnv

LEMMA PartsSet ==
  ASSUME NEW d, IsDb(d), NEW parts
  PROVE  Has([d EXCEPT !.parts = parts], parts, d.project, d.conv)
<1>1. [d EXCEPT !.parts = parts] = [ver |-> d.ver, parts |-> parts, project |-> d.project, conv |-> d.conv, kinds |-> d.kinds]
  BY DEF IsDb
<1>. QED BY <1>1 DEF Has, IsDb

\* Each statement of a migration after the tables are rebuilt.
LEMMA SchemasAdd ==
  ASSUME NEW d, IsDb(d)
  PROVE  /\ Has(create_claim_review_schema(d), d.parts \cup ClaimParts, d.project, d.conv)
         /\ Has(create_agent_conversation_schema(d), d.parts \cup {"conversations"}, d.project, Mapped(d))
         /\ Has(create_plugin_schemas(d), (d.parts \cup PermissionParts) \cup LifecycleParts, d.project, d.conv)
         /\ Has(add_run_error_range_columns(d), d.parts \cup {"ranges"}, d.project, d.conv)
         /\ Has(rebuild_runs_error_range_kind_v11(d), (d.parts \ {"ranges10"}) \cup {"ranges"}, d.project, d.conv)
         /\ Has(migrate_v13(d), d.parts \cup LifecycleParts, d.project, d.conv)
<1>1. Has(create_claim_review_schema(d), d.parts \cup ClaimParts, d.project, d.conv)
  BY PartsSet DEF create_claim_review_schema
<1>2. Has(create_agent_conversation_schema(d), d.parts \cup {"conversations"}, d.project, Mapped(d))
  <2>1. create_agent_conversation_schema(d) =
           [ver |-> d.ver, parts |-> d.parts \cup {"conversations"}, project |-> d.project, conv |-> Mapped(d), kinds |-> d.kinds]
    <3>1. create_agent_conversation_schema(d) = [d EXCEPT !.parts = @ \cup {"conversations"}, !.conv = Mapped(d)]
      BY DEF create_agent_conversation_schema, Mapped
    <3>. QED BY <3>1 DEF IsDb
  <2>. QED BY <2>1 DEF Has, IsDb
<1>3. Has(create_plugin_schemas(d), (d.parts \cup PermissionParts) \cup LifecycleParts, d.project, d.conv)
  BY PartsSet DEF create_plugin_schemas
<1>4. Has(add_run_error_range_columns(d), d.parts \cup {"ranges"}, d.project, d.conv)
  BY PartsSet DEF add_run_error_range_columns
<1>5. Has(rebuild_runs_error_range_kind_v11(d), (d.parts \ {"ranges10"}) \cup {"ranges"}, d.project, d.conv)
  BY PartsSet DEF rebuild_runs_error_range_kind_v11
<1>6. Has(migrate_v13(d), d.parts \cup LifecycleParts, d.project, d.conv)
  BY PartsSet DEF migrate_v13
<1>. QED BY <1>1, <1>2, <1>3, <1>4, <1>5, <1>6

NewParts == {"conversations", "permissions", "lifecycle"}

\* The common end of the migrations before version 12.
LEMMA EndAdds ==
  ASSUME NEW d, IsDb(d)
  PROVE  LET e == create_plugin_schemas(create_agent_conversation_schema(d))
         IN  IsDb(e) /\ e.parts = d.parts \cup NewParts /\ e.project = d.project /\ e.conv = Mapped(d)
<1>. DEFINE c == create_agent_conversation_schema(d)
            e == create_plugin_schemas(c)
<1>1. IsDb(c) /\ c.parts = d.parts \cup {"conversations"} /\ c.project = d.project /\ c.conv = Mapped(d)
  BY SchemasAdd DEF Has
<1>. HIDE DEF c
<1>2. IsDb(e) /\ e.parts = (c.parts \cup PermissionParts) \cup LifecycleParts /\ e.project = c.project /\ e.conv = c.conv
  BY <1>1, SchemasAdd DEF Has
<1>3. e.parts = d.parts \cup NewParts
  BY <1>1, <1>2 DEF PermissionParts, LifecycleParts, NewParts
<1>. QED BY <1>1, <1>2, <1>3 DEF c

\* What a migration makes of the database it was written for: the current version, all
\* parts, every row under its own project, every turn mapped.
Completed(e, d) ==
    /\ IsDb(e) /\ CurrentParts \subseteq e.parts
    /\ \A r \in StoreRows : e.project[r] = Legacied(d)[r]
    /\ \A t \in MigTurns : e.conv[t] = Legacied(d)[t]

LEMMA OwnersStay ==
  ASSUME NEW d, FirstDb(d), d.ver # 7, NEW r \in StoreRows
  PROVE  d.project[r] = Legacied(d)[r]
BY DEF FirstDb, Legacied

LEMMA TurnsMapped ==
  ASSUME NEW d, NEW e, NEW f, IsDb(d), IsDb(f), FirstDb(d), d.ver # 7, f.project = d.project,
         CurrentParts \subseteq f.parts \cup NewParts,
         e = create_plugin_schemas(create_agent_conversation_schema(f))
  PROVE  Completed(e, d)
<1>1. IsDb(e) /\ e.parts = f.parts \cup NewParts /\ e.project = f.project /\ e.conv = Mapped(f)
  BY EndAdds
<1>2. ASSUME NEW r \in StoreRows PROVE e.project[r] = Legacied(d)[r]
  BY <1>1, OwnersStay
<1>3. ASSUME NEW t \in MigTurns PROVE e.conv[t] = Legacied(d)[t]
  BY <1>1, OwnersStay DEF Mapped, MigTurns
<1>. QED BY <1>1, <1>2, <1>3 DEF Completed

LEMMA Migrates7 ==
  ASSUME NEW d, IsDb(d), FirstDb(d), d.ver = 7
  PROVE  Completed(migrate_v7(d), d)
<1>. DEFINE e4 == rebuild_plot_artifacts_v8(rebuild_approval_requests_v8(rebuild_agent_turns_v8(rebuild_runs_v8(d))))
            f == create_claim_review_schema(e4)
            e == create_plugin_schemas(create_agent_conversation_schema(f))
<1>1. IsDb(e4) /\ e4.parts = d.parts \cup {"ranges", "identity"} /\ e4.project = Legacied(d)
  BY RebuildsAll DEF Fields, IsDb
<1>. HIDE DEF e4
<1>2. IsDb(f) /\ f.parts = e4.parts \cup ClaimParts /\ f.project = e4.project
  BY <1>1, SchemasAdd DEF Has
<1>. HIDE DEF f
<1>3. IsDb(e) /\ e.parts = f.parts \cup NewParts /\ e.project = f.project /\ e.conv = Mapped(f)
  BY <1>2, EndAdds
<1>4. e = migrate_v7(d)
  BY DEF migrate_v7, e4, f
<1>. HIDE DEF e
<1>5. d.parts = {"base"}
  BY PartsAre DEF FirstDb
<1>6. CurrentParts \subseteq e.parts
  BY <1>1, <1>2, <1>3, <1>5 DEF CurrentParts, BaseParts, ClaimParts, PermissionParts, LifecycleParts, NewParts
<1>7. \A t \in MigTurns : e.conv[t] = Legacied(d)[t]
  BY <1>1, <1>2, <1>3 DEF Mapped
<1>. QED BY <1>1, <1>2, <1>3, <1>4, <1>6, <1>7 DEF Completed

LEMMA Migrates8to11 ==
  ASSUME NEW d, IsDb(d), FirstDb(d)
  PROVE  /\ d.ver = 8 => Completed(migrate_v8(d), d)
         /\ d.ver = 9 => Completed(migrate_v9(d), d)
         /\ d.ver = 10 => Completed(migrate_v10(d), d)
         /\ d.ver = 11 => Completed(migrate_v11(d), d)
<1>. USE DEF CurrentParts, BaseParts, ClaimParts, PermissionParts, LifecycleParts, NewParts
<1>1. ASSUME d.ver = 8 PROVE Completed(migrate_v8(d), d)
  <2>. DEFINE c == create_claim_review_schema(d)
              f == add_run_error_range_columns(c)
  <2>1. IsDb(c) /\ c.parts = d.parts \cup ClaimParts /\ c.project = d.project
    BY SchemasAdd DEF Has
  <2>. HIDE DEF c
  <2>2. IsDb(f) /\ f.parts = c.parts \cup {"ranges"} /\ f.project = c.project
    BY <2>1, SchemasAdd DEF Has
  <2>3. migrate_v8(d) = create_plugin_schemas(create_agent_conversation_schema(f))
    BY DEF migrate_v8, c
  <2>. HIDE DEF f
  <2>4. d.parts = {"base", "identity"}
    BY <1>1, PartsAre DEF FirstDb
  <2>5. CurrentParts \subseteq f.parts \cup NewParts
    BY <2>1, <2>2, <2>4
  <2>. QED BY <1>1, <2>1, <2>2, <2>3, <2>5, TurnsMapped
<1>2. ASSUME d.ver = 9 PROVE Completed(migrate_v9(d), d)
  <2>. DEFINE f == add_run_error_range_columns(d)
  <2>2. IsDb(f) /\ f.parts = d.parts \cup {"ranges"} /\ f.project = d.project
    BY SchemasAdd DEF Has
  <2>3. migrate_v9(d) = create_plugin_schemas(create_agent_conversation_schema(f))
    BY DEF migrate_v9
  <2>. HIDE DEF f
  <2>4. d.parts = {"base", "identity", "claims"}
    BY <1>2, PartsAre DEF FirstDb
  <2>5. CurrentParts \subseteq f.parts \cup NewParts
    BY <2>2, <2>4
  <2>. QED BY <1>2, <2>2, <2>3, <2>5, TurnsMapped
<1>3. ASSUME d.ver = 10 PROVE Completed(migrate_v10(d), d)
  <2>. DEFINE f == rebuild_runs_error_range_kind_v11(d)
  <2>2. IsDb(f) /\ f.parts = (d.parts \ {"ranges10"}) \cup {"ranges"} /\ f.project = d.project
    BY SchemasAdd DEF Has
  <2>3. migrate_v10(d) = create_plugin_schemas(create_agent_conversation_schema(f))
    BY DEF migrate_v10
  <2>. HIDE DEF f
  <2>4. d.parts = {"base", "identity", "claims", "ranges10"}
    BY <1>3, PartsAre DEF FirstDb
  <2>5. CurrentParts \subseteq f.parts \cup NewParts
    BY <2>2, <2>4
  <2>. QED BY <1>3, <2>2, <2>3, <2>5, TurnsMapped
<1>4. ASSUME d.ver = 11 PROVE Completed(migrate_v11(d), d)
  <2>1. d.parts = {"base", "identity", "claims", "ranges"}
    BY <1>4, PartsAre DEF FirstDb
  <2>2. CurrentParts \subseteq d.parts \cup NewParts
    BY <2>1
  <2>. QED BY <1>4, <2>2, TurnsMapped DEF migrate_v11
<1>. QED BY <1>1, <1>2, <1>3, <1>4

\* The two last migrations only add tables.
LEMMA LastAdd ==
  ASSUME NEW d, IsDb(d), NEW v \in {12, 13}
  PROVE  LET e == IF v = 12 THEN migrate_v12(d) ELSE migrate_v13(d)
         IN  /\ IsDb(e) /\ e.project = d.project /\ e.conv = d.conv
             /\ e.parts = d.parts \cup (IF v = 12 THEN {"permissions", "lifecycle"} ELSE {"lifecycle"})
<1>1. IsDb(migrate_v12(d)) /\ migrate_v12(d).project = d.project /\ migrate_v12(d).conv = d.conv
      /\ migrate_v12(d).parts = (d.parts \cup PermissionParts) \cup LifecycleParts
  BY SchemasAdd DEF Has, migrate_v12
<1>2. IsDb(migrate_v13(d)) /\ migrate_v13(d).project = d.project /\ migrate_v13(d).conv = d.conv
      /\ migrate_v13(d).parts = d.parts \cup LifecycleParts
  BY SchemasAdd DEF Has
<1>3. migrate_v12(d).parts = d.parts \cup {"permissions", "lifecycle"}
  BY <1>1 DEF PermissionParts, LifecycleParts
<1>. QED BY <1>1, <1>2, <1>3 DEF LifecycleParts

LEMMA Migrates12to13 ==
  ASSUME NEW d, IsDb(d), FirstDb(d)
  PROVE  /\ d.ver = 12 => Completed(migrate_v12(d), d)
         /\ d.ver = 13 => Completed(migrate_v13(d), d)
<1>. USE DEF CurrentParts, BaseParts, ClaimParts, PermissionParts, LifecycleParts
<1>1. ASSUME NEW e, d.ver \in {12, 13}, e = IF d.ver = 12 THEN migrate_v12(d) ELSE migrate_v13(d)
      PROVE  Completed(e, d)
  <2>1. IsDb(e) /\ e.project = d.project /\ e.conv = d.conv
        /\ e.parts = d.parts \cup (IF d.ver = 12 THEN {"permissions", "lifecycle"} ELSE {"lifecycle"})
    BY <1>1, LastAdd
  <2>2. CurrentParts \subseteq e.parts
    <3>1. CASE d.ver = 12
      <4>1. d.parts = {"base", "identity", "claims", "ranges", "conversations"}
        BY <3>1, PartsAre DEF FirstDb
      <4>. QED BY <2>1, <3>1, <4>1
    <3>2. CASE d.ver = 13
      <4>1. d.parts = {"base", "identity", "claims", "ranges", "conversations", "permissions"}
        BY <3>2, PartsAre DEF FirstDb
      <4>. QED BY <2>1, <3>2, <4>1
    <3>. QED BY <1>1, <3>1, <3>2
  <2>3. \A r \in StoreRows : d.project[r] = Legacied(d)[r]
    BY <1>1, OwnersStay
  <2>4. \A t \in MigTurns : d.conv[t] = Legacied(d)[t]
    BY <1>1, <2>3 DEF FirstDb, MigTurns
  <2>. QED BY <2>1, <2>2, <2>3, <2>4 DEF Completed
<1>. QED BY <1>1

LEMMA VersionSet ==
  ASSUME NEW e, IsDb(e)
  PROVE  LET f == [e EXCEPT !.ver = SCHEMA_VERSION]
         IN  IsDb(f) /\ f.ver = SCHEMA_VERSION /\ f.parts = e.parts /\ f.project = e.project /\ f.conv = e.conv
BY DEF IsDb

LEMMA MigratedIs ==
  ASSUME NEW d
  PROVE  /\ Migrated(7, d) = [migrate_v7(d) EXCEPT !.ver = SCHEMA_VERSION]
         /\ Migrated(8, d) = [migrate_v8(d) EXCEPT !.ver = SCHEMA_VERSION]
         /\ Migrated(9, d) = [migrate_v9(d) EXCEPT !.ver = SCHEMA_VERSION]
         /\ Migrated(10, d) = [migrate_v10(d) EXCEPT !.ver = SCHEMA_VERSION]
         /\ Migrated(11, d) = [migrate_v11(d) EXCEPT !.ver = SCHEMA_VERSION]
         /\ Migrated(12, d) = [migrate_v12(d) EXCEPT !.ver = SCHEMA_VERSION]
         /\ Migrated(13, d) = [migrate_v13(d) EXCEPT !.ver = SCHEMA_VERSION]
BY DEF Migrated

\* The first database, migrated from its own version, is whole.
LEMMA MigratesFirst ==
  ASSUME NEW d, d = origin, IsDb(d), FirstDb(d), d.ver \in BackedUp
  PROVE  IsDb(Migrated(d.ver, d)) /\ WholeDb(Migrated(d.ver, d))
<1>1. PICK e : Completed(e, d) /\ Migrated(d.ver, d) = [e EXCEPT !.ver = SCHEMA_VERSION]
  <2>1. d.ver \in {7, 8, 9, 10, 11, 12, 13}
    BY DEF BackedUp
  <2>2. CASE d.ver = 7
    BY <2>2, MigratedIs, Migrates7
  <2>3. CASE d.ver = 8
    BY <2>3, MigratedIs, Migrates8to11
  <2>4. CASE d.ver = 9
    BY <2>4, MigratedIs, Migrates8to11
  <2>5. CASE d.ver = 10
    BY <2>5, MigratedIs, Migrates8to11
  <2>6. CASE d.ver = 11
    BY <2>6, MigratedIs, Migrates8to11
  <2>7. CASE d.ver = 12
    BY <2>7, MigratedIs, Migrates12to13
  <2>8. CASE d.ver = 13
    BY <2>8, MigratedIs, Migrates12to13
  <2>. QED BY <2>1, <2>2, <2>3, <2>4, <2>5, <2>6, <2>7, <2>8
<1>2. IsDb(Migrated(d.ver, d)) /\ Migrated(d.ver, d).ver = SCHEMA_VERSION /\ Migrated(d.ver, d).parts = e.parts
      /\ Migrated(d.ver, d).project = e.project /\ Migrated(d.ver, d).conv = e.conv
  BY <1>1, VersionSet DEF Completed
<1>3. \A r \in StoreRows : Legacied(d)[r] = Owner(r)
  BY DEF Legacied, Owner
<1>. QED BY <1>1, <1>2, <1>3 DEF Completed, WholeDb, MigTurns

\* A migration that meets a whole database fails in its first CREATE, or leaves it whole.
LEMMA MigratesWhole ==
  ASSUME NEW d, IsDb(d), WholeDb(d), NEW v \in BackedUp, StatementsRun(v, d)
  PROVE  IsDb(Migrated(v, d)) /\ WholeDb(Migrated(v, d))
<1>1. v \in {7, 8, 9, 10, 11, 12, 13}
  BY DEF BackedUp
<1>2. "conversations" \in d.parts
  BY DEF WholeDb, CurrentParts, BaseParts
<1>3. v \in {12, 13}
  BY <1>1, <1>2 DEF StatementsRun, Strict
<1>4. PICK e : e = IF v = 12 THEN migrate_v12(d) ELSE migrate_v13(d)
  OBVIOUS
<1>5. IsDb(e) /\ e.project = d.project /\ e.conv = d.conv /\ d.parts \subseteq e.parts
  BY <1>3, <1>4, LastAdd
<1>6. Migrated(v, d) = [e EXCEPT !.ver = SCHEMA_VERSION]
  BY <1>3, <1>4, MigratedIs
<1>7. IsDb(Migrated(v, d)) /\ Migrated(v, d).ver = SCHEMA_VERSION /\ Migrated(v, d).parts = e.parts
      /\ Migrated(v, d).project = e.project /\ Migrated(v, d).conv = e.conv
  BY <1>5, <1>6, VersionSet
<1>. QED BY <1>5, <1>7 DEF WholeDb

LEMMA MigStarts ==
  ASSUME MigInit
  PROVE  MigInv
<1>1. DOMAIN mpc = Openers /\ DOMAIN seen = Openers /\ origin = db /\ db \in Databases /\ \A o \in Openers : mpc[o] = "idle"
  BY DEF MigInit
<1>2. ASSUME origin.parts # {} PROVE IsDb(db) /\ FirstDb(db)
  <2>1. db # EmptyDb
    BY <1>1, <1>2 DEF EmptyDb
  <2>2. PICK v \in Versions, p \in [StoreRows -> Idents], k \in BOOLEAN :
           /\ v # 7 => p \in [StoreRows -> Idents \ {"null"}]
           /\ db = [ver |-> v, parts |-> PartsOf(v), project |-> p, kinds |-> k,
                    conv |-> IF v >= 12 THEN [t \in MigTurns |-> p[t]] ELSE [t \in MigTurns |-> Absent]]
    <3>. DEFINE D(v, p, k) == [ver |-> v, parts |-> PartsOf(v), project |-> p, kinds |-> k,
                               conv |-> IF v >= 12 THEN [t \in MigTurns |-> p[t]] ELSE [t \in MigTurns |-> Absent]]
                Ps(v) == [StoreRows -> IF v = 7 THEN Idents ELSE Idents \ {"null"}]
                Ks(v) == IF v = 10 THEN BOOLEAN ELSE {TRUE}
                Old(v) == {D(v, p, k) : p \in Ps(v), k \in Ks(v)}
    <3>0. Databases = {EmptyDb} \cup UNION {Old(v) : v \in Versions}
      BY DEF Databases
    <3>1. PICK v \in Versions : db \in Old(v)
      <4>. HIDE DEF Old
      <4>. QED BY <1>1, <2>1, <3>0
    <3>2. PICK p \in Ps(v), k \in Ks(v) : db = D(v, p, k)
      <4>. HIDE DEF D, Ps, Ks
      <4>. QED BY <3>1
    <3>3. p \in [StoreRows -> Idents]
      OBVIOUS
    <3>. QED BY <3>2, <3>3
  <2>3. v \in Nat
    BY VersionsAssumption
  <2>4. IsDb(db) /\ db.ver = v /\ db.parts = PartsOf(v) /\ db.project = p
        /\ db.conv = IF v >= 12 THEN [t \in MigTurns |-> p[t]] ELSE [t \in MigTurns |-> Absent]
    BY <2>2 DEF IsDb
  <2>5. v # 7 => \A r \in StoreRows : p[r] # "null"
    BY <2>2
  <2>. QED BY <2>3, <2>4, <2>5 DEF FirstDb
<1>. QED BY <1>1, <1>2 DEF MigInv, OpenerInv, BootstrapSteps, MigrationSteps

\* A database that was not empty never becomes so.
LEMMA NeverEmptied ==
  ASSUME MigInv, origin.parts # {}
  PROVE  db.parts # {} /\ (db.ver \in BackedUp => db.ver = origin.ver)
<1>1. CASE db = origin
  BY <1>1
<1>2. CASE WholeDb(db)
  <2>1. "base" \in db.parts
    BY <1>2 DEF WholeDb, CurrentParts, BaseParts
  <2>2. db.ver \notin BackedUp
    BY <1>2 DEF WholeDb, SCHEMA_VERSION, BackedUp
  <2>. QED BY <2>1, <2>2
<1>. QED BY <1>1, <1>2 DEF MigInv

\* An opener that moves leaves the others where they were.
LEMMA OpenerMoves ==
  ASSUME MigInv, NEW o \in Openers, NEW step, OpenerAt(o, step), origin' = origin, DOMAIN seen' = Openers,
         \A p \in Openers : p # o => seen'[p] = seen[p],
         origin.parts # {} =>
            /\ IsDb(db') /\ (db' = origin \/ WholeDb(db)')
            /\ step \notin BootstrapSteps
            /\ step \in MigrationSteps => seen'[o] = origin.ver /\ seen'[o] \in BackedUp
  PROVE  MigInv'
<1>1. DOMAIN mpc = Openers
  BY DEF MigInv
<1>2. DOMAIN mpc' = Openers /\ mpc'[o] = step /\ \A p \in Openers : p # o => mpc'[p] = mpc[p]
  BY <1>1 DEF OpenerAt
<1>3. ASSUME origin.parts # {}, NEW p \in Openers PROVE OpenerInv(p)'
  <2>1. OpenerInv(p)
    BY <1>3 DEF MigInv
  <2>2. CASE p = o
    BY <1>2, <1>3, <2>2 DEF OpenerInv
  <2>3. CASE p # o
    BY <1>2, <2>1, <2>3 DEF OpenerInv
  <2>. QED BY <2>2, <2>3
<1>4. origin'.parts # {} =>
        /\ IsDb(origin)' /\ FirstDb(origin)' /\ IsDb(db)'
        /\ (db = origin)' \/ WholeDb(db)'
        /\ \A p \in Openers : OpenerInv(p)'
  BY <1>3 DEF MigInv, IsDb, FirstDb
<1>. QED BY <1>2, <1>4 DEF MigInv

LEMMA MigSteps ==
  ASSUME MigInv, [MigNext]_migvars
  PROVE  MigInv'
<1>. USE DEF BootstrapSteps, MigrationSteps
<1>0. DOMAIN seen = Openers /\ (origin.parts # {} => IsDb(db) /\ (db = origin \/ WholeDb(db)) /\ \A o \in Openers : OpenerInv(o))
  BY DEF MigInv
<1>1. ASSUME NEW o \in Openers, Probe(o) PROVE MigInv'
  <2>1. seen' = [seen EXCEPT ![o] = db.ver] /\ db' = db /\ origin' = origin
    BY <1>1 DEF Probe, read_schema_version
  <2>2. PICK step : /\ OpenerAt(o, step)
                    /\ db.parts # {} => step \in {"assert", "remove", "failed"}
                    /\ step = "remove" => db.ver \in BackedUp
    BY <1>1 DEF Probe, database_is_empty
  <2>3. origin.parts # {} => IsDb(db') /\ (db' = origin \/ WholeDb(db)')
    BY <1>0, <2>1 DEF WholeDb, Owner, IsDb
  <2>4. DOMAIN seen' = Openers /\ seen'[o] = db.ver /\ \A p \in Openers : p # o => seen'[p] = seen[p]
    BY <1>0, <2>1
  <2>. QED BY <2>1, <2>2, <2>3, <2>4, NeverEmptied, OpenerMoves
<1>2. ASSUME NEW o \in Openers, CreateTables(o) \/ CreatePlugins(o) \/ set_schema_version(o) PROVE MigInv'
  <2>1. mpc[o] \in BootstrapSteps /\ origin' = origin /\ seen' = seen /\ \E step : OpenerAt(o, step)
    BY <1>2 DEF CreateTables, CreatePlugins, set_schema_version
  <2>2. origin.parts = {}
    BY <1>0, <2>1 DEF OpenerInv
  <2>. QED BY <1>0, <2>1, <2>2, OpenerMoves
<1>3. ASSUME NEW o \in Openers, Migrate(o) PROVE MigInv'
  <2>1. mpc[o] \in {"begin", "write"} /\ origin' = origin /\ seen' = seen
    BY <1>3 DEF Migrate
  <2>2. CASE StatementsRun(seen[o], db) /\ db' = Migrated(seen[o], db) /\ OpenerAt(o, "assert")
    <3>1. ASSUME origin.parts # {} PROVE IsDb(db') /\ WholeDb(db)'
      <4>1. seen[o] = origin.ver /\ seen[o] \in BackedUp
        BY <1>0, <2>1, <3>1 DEF OpenerInv
      <4>2. IsDb(db') /\ WholeDb(Migrated(seen[o], db))
        <5>1. CASE db = origin
          BY <2>2, <3>1, <4>1, <5>1, MigratesFirst DEF MigInv
        <5>2. CASE WholeDb(db)
          BY <1>0, <2>2, <3>1, <4>1, <5>2, MigratesWhole
        <5>. QED BY <1>0, <3>1, <5>1, <5>2
      <4>. QED BY <2>1, <2>2, <4>2 DEF WholeDb, Owner
    <3>. QED BY <1>0, <2>1, <2>2, <3>1, OpenerMoves
  <2>3. CASE db' = db /\ OpenerAt(o, "failed")
    <3>1. origin.parts # {} => IsDb(db') /\ (db' = origin \/ WholeDb(db)')
      BY <1>0, <2>1, <2>3 DEF WholeDb, Owner, IsDb
    <3>. QED BY <1>0, <2>1, <2>3, <3>1, OpenerMoves
  <2>. QED BY <1>3, <2>2, <2>3 DEF Migrate
<1>4. ASSUME NEW o \in Openers,
             RemoveBackup(o) \/ VacuumInto(o) \/ BeginMigration(o) \/ AssertCurrent(o) \/ MigFault(o) \/ Reopen(o)
      PROVE  MigInv'
  <2>1. db' = db /\ origin' = origin
    BY <1>4 DEF RemoveBackup, VacuumInto, BeginMigration, AssertCurrent, MigFault, Reopen
  <2>2. origin.parts # {} => IsDb(db') /\ (db' = origin \/ WholeDb(db)')
    BY <1>0, <2>1 DEF WholeDb, Owner, IsDb
  <2>3. CASE seen' = seen /\ mpc[o] \in MigrationSteps /\ \E step \in {"vacuum", "begin", "write", "failed"} : OpenerAt(o, step)
    <3>1. origin.parts # {} => seen[o] = origin.ver /\ seen[o] \in BackedUp
      BY <1>0, <2>3 DEF OpenerInv
    <3>. QED BY <1>0, <2>1, <2>2, <2>3, <3>1, OpenerMoves
  <2>4. CASE seen' = seen /\ \E step \in {"open", "failed"} : OpenerAt(o, step)
    BY <1>0, <2>1, <2>2, <2>4, OpenerMoves
  <2>5. CASE seen' = [seen EXCEPT ![o] = NoVersion] /\ OpenerAt(o, "idle")
    <3>1. DOMAIN seen' = Openers /\ \A p \in Openers : p # o => seen'[p] = seen[p]
      BY <1>0, <2>5
    <3>. QED BY <2>1, <2>2, <2>5, <3>1, OpenerMoves
  <2>6. RemoveBackup(o) \/ VacuumInto(o) \/ BeginMigration(o) =>
           seen' = seen /\ mpc[o] \in MigrationSteps /\ \E step \in {"vacuum", "begin", "write", "failed"} : OpenerAt(o, step)
    BY DEF RemoveBackup, VacuumInto, BeginMigration
  <2>7. AssertCurrent(o) \/ MigFault(o) => seen' = seen /\ \E step \in {"open", "failed"} : OpenerAt(o, step)
    BY DEF AssertCurrent, MigFault
  <2>. QED BY <1>4, <2>3, <2>4, <2>5, <2>6, <2>7 DEF Reopen
<1>5. ASSUME UNCHANGED migvars PROVE MigInv'
  BY <1>5 DEF MigInv, migvars, OpenerInv, WholeDb, Owner, IsDb, FirstDb
<1>. QED BY <1>1, <1>2, <1>3, <1>4, <1>5 DEF MigNext

\* Whatever openers meet the file, fail or die, MigInv holds: a database that was not empty
\* is migrated from the version it had, and at most once.
THEOREM MigrationInvariance == MigSpec => []MigInv
<1>1. MigInit => MigInv
  BY MigStarts
<1>2. MigInv /\ [MigNext]_migvars => MigInv'
  BY MigSteps
<1>. QED BY <1>1, <1>2, PTL DEF MigSpec

\* A store that was not empty is at every moment the user's or that one completely migrated,
\* each row under its own project (Store::open, the migrations of migration.rs).
THEOREM MigrationsWhole == MigSpec => []MigrationIsWhole
<1>1. MigInv => MigrationIsWhole
  BY DEF MigInv, MigrationIsWhole, WholeDb, database_is_empty
<1>. QED BY <1>1, MigrationInvariance, PTL

-----------------------------------------------------------------------------
(* ProjectRecords *)

IdentRec == [ws : Nat, state : Nat, proj : Nat]
RunRow == [id : Nat, project : RecProjects, class : {"probe", "state_capable"}, error : BOOLEAN,
           completed : BOOLEAN, ws : Nat, after : IdentRec, parent : Int]
IsPlot(x) == x = [id |-> x.id, project |-> x.project, ws |-> x.ws, run |-> x.run, pruned |-> x.pruned]
IsEntry(e) == e = [id |-> e.id, project |-> e.project, inspectable |-> e.inspectable]
IsClaim(c) == c = [id |-> c.id, project |-> c.project, anchor |-> c.anchor, artifact |-> c.artifact,
                   text |-> c.text, links |-> c.links]

IsExport(c) == c = [op |-> c.op, root |-> c.root, plot |-> c.plot, seen |-> c.seen, step |-> c.step]

\* What the commands under way hold that a later step uses.
CommandInv ==
    /\ command.op = "retry" => command.id \in Int
    /\ command.op \in {"export_plot", "export_table"} => IsExport(command)

\* The rows are rows: runs in a sequence, the others in sets.
RowsInv ==
    /\ project_root \in RecProjects /\ ident \in IdentRec /\ runs \in Seq(RunRow)
    /\ \A x \in plots : IsPlot(x)
    /\ \A e \in entries : IsEntry(e)
    /\ \A c \in claims : IsClaim(c)
    /\ CommandInv

\* The run with this identity exists in the project.
HasRun(p, id) == \E r \in ToSet(runs) : r.project = p /\ r.id = id

ArtifactsInv == \A a \in artifacts : a.complete => HasRun(a.project, a.run)
LinksInv == \A c \in claims : \A id \in c.links : \E e \in entries : e.id = id /\ e.project = c.project
PlotsInv == \A x \in plots : HasRun(x.project, x.run)

RecInv == RowsInv /\ ArtifactsInv /\ LinksInv /\ PlotsInv

LEMMA HasRunIs ==
  ASSUME NEW p, NEW id
  PROVE  get_run_detail(p, id) # {} <=> HasRun(p, id)
BY DEF get_run_detail, HasRun

\* A new run is in the set of runs, and takes none out of it.
LEMMA RunsGrow ==
  ASSUME runs \in Seq(RunRow), NEW r \in RunRow, runs' = Append(runs, r)
  PROVE  /\ runs' \in Seq(RunRow)
         /\ r \in ToSet(runs')
         /\ \A p, id : HasRun(p, id) => HasRun(p, id)'
<1>1. runs' \in Seq(RunRow) /\ Len(runs') = Len(runs) + 1 /\ runs'[Len(runs) + 1] = r
      /\ \A i \in 1 .. Len(runs) : runs'[i] = runs[i]
  OBVIOUS
<1>2. DOMAIN runs = 1 .. Len(runs) /\ DOMAIN runs' = 1 .. Len(runs) + 1 /\ Len(runs) \in Nat
  BY <1>1
<1>3. r \in ToSet(runs')
  BY <1>1, <1>2 DEF ToSet
<1>4. ASSUME NEW q \in ToSet(runs) PROVE q \in ToSet(runs')
  <2>1. PICK i \in 1 .. Len(runs) : runs[i] = q
    BY <1>2, <1>4 DEF ToSet
  <2>2. runs'[i] = q /\ i \in DOMAIN runs'
    BY <1>1, <1>2, <2>1
  <2>. QED BY <2>2 DEF ToSet
<1>. QED BY <1>1, <1>3, <1>4 DEF HasRun

\* No run is added: what names a run names one still.
LEMMA RunsKept ==
  ASSUME runs' = runs
  PROVE  \A p, id : HasRun(p, id)' <=> HasRun(p, id)
BY DEF HasRun

LEMMA RunRecordedKeeps ==
  ASSUME RecInv, NEW class \in {"probe", "state_capable"}, NEW error \in BOOLEAN, NEW plotted \in BOOLEAN, NEW parent \in Int,
         RunRecorded(class, error, plotted, parent),
         UNCHANGED <<project_root, artifacts, entries, claims>>, CommandInv'
  PROVE  RecInv'
<1>. DEFINE after == IF class = "probe" THEN ident ELSE [ident EXCEPT !.state = @ + 1]
<1>1. PICK n, r, x :
        /\ n = Len(runs) + 1
        /\ r = [id |-> n, project |-> project_root, class |-> class, error |-> error,
                completed |-> ~error, ws |-> ident.ws, after |-> after, parent |-> parent]
        /\ x = [id |-> r.id, project |-> project_root, ws |-> ident.ws, run |-> r.id, pruned |-> FALSE]
        /\ runs' = Append(runs, r) /\ ident' = after /\ (plots' = plots \/ plots' = plots \cup {x})
  BY DEF RunRecorded
<1>2. ident \in IdentRec /\ project_root \in RecProjects /\ runs \in Seq(RunRow)
  BY DEF RecInv, RowsInv
<1>3. after \in IdentRec /\ ident.ws \in Nat
  BY <1>2 DEF IdentRec
<1>4. n \in Nat
  BY <1>1, <1>2
<1>. HIDE DEF after
<1>5. r \in RunRow /\ r.id = n /\ r.project = project_root
  BY <1>1, <1>2, <1>3, <1>4 DEF RunRow
<1>6. IsPlot(x) /\ x.project = project_root /\ x.run = n
  BY <1>1, <1>5 DEF IsPlot
<1>7. runs' \in Seq(RunRow) /\ r \in ToSet(runs') /\ \A p, id : HasRun(p, id) => HasRun(p, id)'
  BY <1>1, <1>2, <1>5, RunsGrow
<1>8. HasRun(x.project, x.run)'
  BY <1>5, <1>6, <1>7 DEF HasRun
<1>9. RowsInv'
  BY <1>1, <1>2, <1>3, <1>6, <1>7 DEF RecInv, RowsInv
<1>10. ArtifactsInv' /\ LinksInv'
  BY <1>7 DEF RecInv, ArtifactsInv, LinksInv
<1>11. PlotsInv'
  BY <1>1, <1>7, <1>8 DEF RecInv, PlotsInv
<1>. QED BY <1>9, <1>10, <1>11 DEF RecInv

LEMMA RunsStep ==
  ASSUME RecInv, execute_r \/ RetryRun
  PROVE  RecInv'
<1>1. CASE execute_r
  BY <1>1, RunRecordedKeeps DEF execute_r, RecInv, RowsInv, CommandInv, IsExport
<1>2. CASE RetryRun
  <2>1. command' = Idle /\ UNCHANGED <<project_root, artifacts, entries, claims>> /\ command.op = "retry"
    BY <1>2 DEF RetryRun
  <2>2. CommandInv'
    BY <2>1 DEF CommandInv, Idle
  <2>3. CASE UNCHANGED <<ident, runs, plots>>
    BY <2>1, <2>2, <2>3, RunsKept DEF RecInv, RowsInv, ArtifactsInv, LinksInv, PlotsInv
  <2>4. CASE \E error, plotted \in BOOLEAN : RunRecorded("state_capable", error, plotted, command.id)
    BY <2>1, <2>2, <2>4, RunRecordedKeeps DEF RecInv, RowsInv, CommandInv, IsExport
  <2>. QED BY <1>2, <2>3, <2>4 DEF RetryRun
<1>. QED BY <1>1, <1>2

\* A step that leaves the rows alone.
LEMMA RowsRest ==
  ASSUME RecInv, UNCHANGED <<runs, plots, artifacts, entries, claims>>,
         project_root' \in RecProjects, ident' \in IdentRec, CommandInv'
  PROVE  RecInv'
BY RunsKept DEF RecInv, RowsInv, ArtifactsInv, LinksInv, PlotsInv

LEMMA BeginsStep ==
  ASSUME RecInv,
         \/ \E id \in 1 .. MaxRuns : BeginRetry(id)
         \/ \E rop \in {"export_plot", "export_table"}, plot \in 1 .. MaxRuns : BeginExport(rop, plot)
         \/ ExportPlotWrite \/ ExportTableWrite \/ ExportDies
         \/ \E anchor \in {"source_range", "artifact"}, artifact \in Ids, links \in SUBSET Ids : BeginClaim(anchor, artifact, links)
         \/ \E id \in Ids : BeginReview(id)
         \/ review_evidence_claim \/ ReviewShown
  PROVE  RecInv'
<1>1. UNCHANGED <<project_root, ident, runs, plots, artifacts, entries, claims>>
  BY DEF BeginRetry, BeginExport, ExportPlotWrite, ExportTableWrite, ExportDies, BeginClaim, BeginReview,
         review_evidence_claim, ReviewShown
<1>2. CommandInv'
  <2>1. ASSUME NEW id \in 1 .. MaxRuns, BeginRetry(id) PROVE command'.op = "retry" /\ command'.id \in Int
    BY <2>1 DEF BeginRetry
  <2>2. ASSUME NEW rop \in {"export_plot", "export_table"}, NEW plot \in 1 .. MaxRuns, BeginExport(rop, plot)
        PROVE  command'.op # "retry" /\ IsExport(command)'
    BY <2>2 DEF BeginExport, IsExport
  <2>3. ASSUME ExportPlotWrite \/ ExportTableWrite, command' # Idle PROVE command'.op # "retry" /\ IsExport(command)'
    <3>1. command.op \in {"export_plot", "export_table"} /\ command' = [command EXCEPT !.step = "record"]
      BY <2>3 DEF ExportPlotWrite, ExportTableWrite
    <3>2. IsExport(command)
      BY <3>1 DEF RecInv, RowsInv, CommandInv
    <3>3. command' = [op |-> command.op, root |-> command.root, plot |-> command.plot, seen |-> command.seen, step |-> "record"]
      BY <3>1, <3>2 DEF IsExport
    <3>. QED BY <3>1, <3>3 DEF IsExport
  <2>4. Idle.op = "idle"
    BY DEF Idle
  <2>5. ASSUME ExportDies \/ ReviewShown PROVE command' = Idle
    BY <2>5 DEF ExportDies, ReviewShown
  <2>6. ASSUME NEW anchor, NEW artifact, NEW links, BeginClaim(anchor, artifact, links) PROVE command'.op = "claim"
    BY <2>6 DEF BeginClaim
  <2>7. ASSUME NEW id \in Ids, BeginReview(id) PROVE command'.op = "review"
    BY <2>7 DEF BeginReview
  <2>8. ASSUME review_evidence_claim, command' # Idle PROVE command'.op = "reviewed"
    <3>1. command' = Idle \/ \E status, claim : command' = Reviewed(status, claim)
      BY <2>8, Zenon DEF review_evidence_claim
    <3>. QED BY <2>8, <3>1 DEF Reviewed
  <2>. QED BY <2>1, <2>2, <2>3, <2>4, <2>5, <2>6, <2>7, <2>8 DEF CommandInv
<1>. QED BY <1>1, <1>2, RowsRest DEF RecInv, RowsInv

LEMMA IdentMoves ==
  ASSUME ident \in IdentRec, NEW n \in Nat
  PROVE  [ident EXCEPT !.proj = @ + 1] \in IdentRec /\ [ident EXCEPT !.ws = @ + n, !.proj = @ + 1] \in IdentRec
<1>1. ident.proj + 1 \in Nat /\ ident.ws + n \in Nat /\ ident.ws \in Nat /\ ident.state \in Nat
  BY DEF IdentRec
<1>2. [ident EXCEPT !.proj = @ + 1] = [ws |-> ident.ws, state |-> ident.state, proj |-> ident.proj + 1]
  BY DEF IdentRec
<1>3. [ident EXCEPT !.ws = @ + n, !.proj = @ + 1] = [ws |-> ident.ws + n, state |-> ident.state, proj |-> ident.proj + 1]
  <2>1. PICK a, b : a = ident.ws + n /\ b = ident.proj + 1
    OBVIOUS
  <2>2. ident = [ws |-> ident.ws, state |-> ident.state, proj |-> ident.proj]
    BY DEF IdentRec
  <2>3. PICK j : j = [ident EXCEPT !.ws = a, !.proj = b]
    OBVIOUS
  <2>4. j = [ws |-> a, state |-> ident.state, proj |-> b]
    BY <2>2, <2>3
  <2>. QED BY <2>1, <2>3, <2>4
<1>. QED BY <1>1, <1>2, <1>3 DEF IdentRec

LEMMA MovesStep ==
  ASSUME RecInv,
         \/ \E p \in RecProjects, ws \in {0, 1} : Move(p, ws)
         \/ \E p \in RecProjects, text \in Texts \cup {Gone} : EditFile(<<p, SourcePath>>, text)
  PROVE  RecInv'
<1>0. ident \in IdentRec /\ project_root \in RecProjects /\ CommandInv
  BY DEF RecInv, RowsInv
<1>1. ASSUME NEW p \in RecProjects, NEW ws \in {0, 1}, Move(p, ws) PROVE RecInv'
  BY <1>0, <1>1, IdentMoves, RowsRest DEF Move, CommandInv
<1>2. ASSUME NEW f, NEW text, EditFile(f, text) PROVE RecInv'
  BY <1>0, <1>2, RowsRest DEF EditFile, CommandInv
<1>. QED BY <1>1, <1>2

LEMMA RecordStep ==
  ASSUME RecInv, NEW kind, NEW rr, RecordArtifact(kind, rr), UNCHANGED <<project_root, runs, plots, entries, claims>>
  PROVE  RecInv'
<1>. DEFINE a == [id |-> made'.artifact, kind |-> kind, project |-> command.root, ws |-> command.seen.ws,
                  run |-> rr, complete |-> artifact_provenance_status(get_run_detail(command.root, rr))]
<1>1. artifacts' = artifacts \cup {a} /\ ident' = [ident EXCEPT !.proj = @ + 1] /\ command' = Idle
  BY DEF RecordArtifact
<1>2. a.project = command.root /\ a.run = rr /\ (a.complete => get_run_detail(command.root, rr) # {})
  BY DEF artifact_provenance_status
<1>3. a.complete => HasRun(a.project, a.run)
  BY <1>2, HasRunIs
<1>. HIDE DEF a
<1>4. ident' \in IdentRec /\ CommandInv'
  BY <1>1, IdentMoves DEF RecInv, RowsInv, CommandInv, Idle
<1>5. RowsInv'
  BY <1>4 DEF RecInv, RowsInv
<1>6. ArtifactsInv' /\ PlotsInv'
  BY <1>1, <1>3, RunsKept DEF RecInv, ArtifactsInv, PlotsInv
<1>. QED BY <1>5, <1>6 DEF RecInv, LinksInv

LEMMA ExportsStep ==
  ASSUME RecInv, export_plot_artifact \/ export_data_view_artifact
  PROVE  RecInv'
<1>1. CASE export_plot_artifact
  BY <1>1, RecordStep DEF export_plot_artifact
<1>2. CASE export_data_view_artifact
  BY <1>2, RecordStep DEF export_data_view_artifact
<1>. QED BY <1>1, <1>2

LEMMA ClearsStep ==
  ASSUME RecInv, NEW session \in BOOLEAN,
         clear_artifact_records(session) \/ clear_plot_artifacts(session) \/ prune_plot_artifact_payloads(session)
  PROVE  RecInv'
<1>1. UNCHANGED <<project_root, ident, runs, entries, claims, command>>
  BY DEF clear_artifact_records, clear_plot_artifacts, prune_plot_artifact_payloads
<1>2. artifacts' \subseteq artifacts
  BY DEF clear_artifact_records, clear_plot_artifacts, prune_plot_artifact_payloads
<1>3. ASSUME NEW y \in plots' PROVE IsPlot(y) /\ HasRun(y.project, y.run)
  <2>1. CASE y \in plots
    BY <2>1 DEF RecInv, RowsInv, PlotsInv
  <2>2. CASE \E x \in plots : y = [x EXCEPT !.pruned = TRUE]
    <3>1. PICK x \in plots : y = [x EXCEPT !.pruned = TRUE]
      BY <2>2
    <3>2. IsPlot(x) /\ HasRun(x.project, x.run)
      BY DEF RecInv, RowsInv, PlotsInv
    <3>3. y = [id |-> x.id, project |-> x.project, ws |-> x.ws, run |-> x.run, pruned |-> TRUE]
      BY <3>1, <3>2 DEF IsPlot
    <3>4. IsPlot(y) /\ y.project = x.project /\ y.run = x.run
      BY <3>3 DEF IsPlot
    <3>. QED BY <3>2, <3>4
  <2>3. y \in plots \/ \E x \in plots : y = [x EXCEPT !.pruned = TRUE]
    BY <1>3 DEF clear_artifact_records, clear_plot_artifacts, prune_plot_artifact_payloads
  <2>. QED BY <2>1, <2>2, <2>3
<1>4. RowsInv'
  BY <1>1, <1>3 DEF RecInv, RowsInv, CommandInv, IsExport
<1>5. ArtifactsInv' /\ PlotsInv'
  BY <1>1, <1>2, <1>3, RunsKept DEF RecInv, ArtifactsInv, PlotsInv
<1>. QED BY <1>1, <1>4, <1>5 DEF RecInv, LinksInv

\* Entries come and go with their links.
LEMMA EntriesStep ==
  ASSUME RecInv,
         \/ \E b \in BOOLEAN : create_evidence_entry(b)
         \/ \E id \in Ids : delete_evidence_entry(id) \/ set_evidence_citation(id)
  PROVE  RecInv'
<1>1. UNCHANGED <<project_root, ident, runs, plots, artifacts, command>>
  BY DEF create_evidence_entry, delete_evidence_entry, set_evidence_citation
<1>2. ArtifactsInv' /\ PlotsInv'
  BY <1>1, RunsKept DEF RecInv, ArtifactsInv, PlotsInv
<1>3. ASSUME NEW b \in BOOLEAN, create_evidence_entry(b) PROVE RecInv'
  <2>. DEFINE e == [id |-> made'.entry, project |-> project_root, inspectable |-> b]
  <2>1. entries' = entries \cup {e} /\ claims' = claims
    BY <1>3 DEF create_evidence_entry
  <2>2. IsEntry(e)
    BY DEF IsEntry
  <2>. HIDE DEF e
  <2>3. RowsInv'
    BY <1>1, <2>1, <2>2 DEF RecInv, RowsInv, CommandInv, IsExport
  <2>4. LinksInv'
    BY <2>1 DEF RecInv, LinksInv
  <2>. QED BY <1>2, <2>3, <2>4 DEF RecInv
<1>4. ASSUME NEW i \in Ids, set_evidence_citation(i) PROVE RecInv'
  <2>1. entries' = {IF e.project = project_root /\ e.id = i THEN [e EXCEPT !.inspectable = TRUE] ELSE e : e \in entries}
        /\ claims' = claims
    BY <1>4 DEF set_evidence_citation
  <2>2. ASSUME NEW e \in entries
        PROVE  LET f == [e EXCEPT !.inspectable = TRUE] IN IsEntry(f) /\ f.id = e.id /\ f.project = e.project
    <3>1. IsEntry(e)
      BY DEF RecInv, RowsInv
    <3>2. PICK f : f = [e EXCEPT !.inspectable = TRUE]
      OBVIOUS
    <3>3. f = [id |-> e.id, project |-> e.project, inspectable |-> TRUE]
      BY <3>1, <3>2 DEF IsEntry
    <3>4. IsEntry(f) /\ f.id = e.id /\ f.project = e.project
      BY <3>3 DEF IsEntry
    <3>. QED BY <3>2, <3>4
  <2>3. \A f \in entries' : IsEntry(f)
    BY <2>1, <2>2 DEF RecInv, RowsInv
  <2>4. \A e \in entries : \E f \in entries' : f.id = e.id /\ f.project = e.project
    BY <2>1, <2>2
  <2>5. RowsInv'
    BY <1>1, <2>1, <2>3 DEF RecInv, RowsInv, CommandInv, IsExport
  <2>6. LinksInv'
    <3>1. ASSUME NEW c \in claims, NEW id \in c.links PROVE \E f \in entries' : f.id = id /\ f.project = c.project
      <4>1. PICK e \in entries : e.id = id /\ e.project = c.project
        BY DEF RecInv, LinksInv
      <4>. QED BY <2>4, <4>1
    <3>. QED BY <2>1, <3>1 DEF LinksInv
  <2>. QED BY <1>2, <2>5, <2>6 DEF RecInv
<1>5. ASSUME NEW i \in Ids, delete_evidence_entry(i) PROVE RecInv'
  <2>1. entries' = {e \in entries : e.project # project_root \/ e.id # i}
        /\ claims' = {[c EXCEPT !.links = @ \ {i}] : c \in claims}
    BY <1>5 DEF delete_evidence_entry
  <2>2. ASSUME NEW d \in claims'
        PROVE  IsClaim(d) /\ \E c \in claims : d.project = c.project /\ d.links = c.links \ {i}
    <3>1. PICK c \in claims : d = [c EXCEPT !.links = @ \ {i}]
      BY <2>1, <2>2
    <3>2. IsClaim(c)
      BY DEF RecInv, RowsInv
    <3>3. d = [id |-> c.id, project |-> c.project, anchor |-> c.anchor, artifact |-> c.artifact,
               text |-> c.text, links |-> c.links \ {i}]
      BY <3>1, <3>2 DEF IsClaim
    <3>. QED BY <3>3 DEF IsClaim
  <2>3. RowsInv'
    BY <1>1, <2>1, <2>2 DEF RecInv, RowsInv, CommandInv, IsExport
  <2>4. LinksInv'
    <3>1. ASSUME NEW d \in claims', NEW id \in d.links PROVE \E e \in entries' : e.id = id /\ e.project = d.project
      <4>1. PICK c \in claims : d.project = c.project /\ d.links = c.links \ {i}
        BY <2>2
      <4>2. PICK e \in entries : e.id = id /\ e.project = c.project
        BY <4>1 DEF RecInv, LinksInv
      <4>3. e \in entries'
        BY <2>1, <4>1, <4>2
      <4>. QED BY <4>1, <4>2, <4>3
    <3>. QED BY <3>1 DEF LinksInv
  <2>. QED BY <1>2, <2>3, <2>4 DEF RecInv
<1>. QED BY <1>3, <1>4, <1>5

\* A claim is stored with links that were looked up in its own project.
LEMMA ClaimsStep ==
  ASSUME RecInv, create_evidence_claim \/ \E id \in Ids : delete_evidence_claim(id)
  PROVE  RecInv'
<1>1. UNCHANGED <<project_root, ident, runs, plots, artifacts, entries>>
  BY DEF create_evidence_claim, delete_evidence_claim
<1>2. ArtifactsInv' /\ PlotsInv'
  BY <1>1, RunsKept DEF RecInv, ArtifactsInv, PlotsInv
<1>3. command' \in {Idle, command}
  BY DEF create_evidence_claim, delete_evidence_claim
<1>4. CommandInv'
  BY <1>3 DEF RecInv, RowsInv, CommandInv, IsExport, Idle
<1>5. CASE claims' \subseteq claims
  <2>1. RowsInv' /\ LinksInv'
    BY <1>1, <1>4, <1>5 DEF RecInv, RowsInv, LinksInv
  <2>. QED BY <1>2, <2>1 DEF RecInv
<1>6. CASE create_evidence_claim /\ ClaimAdmitted(command)
  <2>. DEFINE c == [id |-> made'.claim, project |-> command.root, anchor |-> command.anchor,
                    artifact |-> command.artifact, text |-> command.text, links |-> command.links]
  <2>1. claims' = claims \cup {c}
    BY <1>6 DEF create_evidence_claim
  <2>2. IsClaim(c) /\ c.project = command.root /\ c.links = command.links
    BY DEF IsClaim
  <2>. HIDE DEF c
  <2>3. \A id \in c.links : \E e \in entries : e.id = id /\ e.project = c.project
    BY <1>6, <2>2 DEF ClaimAdmitted
  <2>4. RowsInv' /\ LinksInv'
    BY <1>1, <1>4, <2>1, <2>2, <2>3 DEF RecInv, RowsInv, LinksInv
  <2>. QED BY <1>2, <2>4 DEF RecInv
<1>7. claims' \subseteq claims \/ (create_evidence_claim /\ ClaimAdmitted(command))
  BY DEF create_evidence_claim, delete_evidence_claim
<1>. QED BY <1>5, <1>6, <1>7

LEMMA RecStarts ==
  ASSUME RecInit
  PROVE  RecInv
<1>1. project_root \in RecProjects /\ ident \in IdentRec /\ runs = << >> /\ CommandInv
  BY DEF RecInit, IdentRec, CommandInv, Idle
<1>2. runs \in Seq(RunRow)
  BY <1>1
<1>. QED BY <1>1, <1>2 DEF RecInit, RecInv, RowsInv, ArtifactsInv, LinksInv, PlotsInv

LEMMA RecSteps ==
  ASSUME RecInv, [RecNext]_recvars
  PROVE  RecInv'
<1>1. CASE UNCHANGED recvars
  BY <1>1, RowsRest DEF recvars, RecInv, RowsInv, CommandInv, IsExport
<1>2. CASE RecNext
  BY <1>2, RunsStep, BeginsStep, MovesStep, ExportsStep, ClearsStep, EntriesStep, ClaimsStep DEF RecNext
<1>. QED BY <1>1, <1>2

\* RecInv holds however a project switch falls into a command.
THEOREM RecordsInvariance == RecSpec => []RecInv
<1>1. RecInit => RecInv
  BY RecStarts
<1>2. RecInv /\ [RecNext]_recvars => RecInv'
  BY RecSteps
<1>. QED BY <1>1, <1>2, PTL DEF RecSpec

\* Artifacts that claim a complete provenance, claims and plots point to records of their own
\* project (insert_artifact_record, create_evidence_claim, delete_evidence_entry).
THEOREM RecordsTogether == RecSpec => []RecordsStayTogether
<1>1. RecInv => RecordsStayTogether
  BY HasRunIs DEF RecInv, ArtifactsInv, LinksInv, PlotsInv, RecordsStayTogether
<1>. QED BY <1>1, RecordsInvariance, PTL

-----------------------------------------------------------------------------
(* AgentHistory *)

\* A set of turns that is not empty has a last one.
LEMMA LastExists ==
  ASSUME NEW n \in Nat, NEW S, S \subseteq 1 .. n, S # {}
  PROVE  \E t \in S : \A u \in S : u <= t
<1>. DEFINE T == {n - t : t \in S}
<1>0. ASSUME NEW t \in S PROVE t \in Int /\ n - t \in Nat /\ n - t \in Int
  <2>1. t \in 1 .. n
    OBVIOUS
  <2>. QED BY <2>1
<1>1. T \subseteq Nat /\ T # {}
  BY <1>0
<1>2. \E x \in T : \A y \in T : ~ (<<y, x>> \in OpToRel(<, Nat))
  <2>. HIDE DEF T
  <2>. QED BY <1>1, NatLessThanWellFounded, WFMin, Zenon
<1>3. PICK x \in T : \A y \in T : ~ (y < x)
  <2>1. PICK x \in T : \A y \in T : ~ (<<y, x>> \in OpToRel(<, Nat))
    BY <1>2, Zenon
  <2>2. ASSUME NEW y \in T, y < x PROVE FALSE
    <3>1. <<y, x>> \in OpToRel(<, Nat)
      BY <1>1, <2>2, Zenon DEF OpToRel
    <3>. QED BY <2>1, <3>1, Zenon
  <2>. QED BY <2>2
<1>4. PICK t \in S : x = n - t
  OBVIOUS
<1>5. ASSUME NEW u \in S PROVE u <= t
  <2>1. n - u \in T
    OBVIOUS
  <2>2. ~ (n - u < n - t)
    BY <1>3, <1>4, <2>1
  <2>3. u \in Int /\ t \in Int /\ n \in Int
    BY <1>0
  <2>. HIDE DEF T
  <2>. QED BY <2>2, <2>3
<1>. QED BY <1>5

\* A set without two different elements has at most one.
LEMMA AtMostOne ==
  ASSUME NEW S, \A t, u \in S : t = u
  PROVE  Cardinality(S) <= 1
<1>1. CASE S = {}
  BY <1>1, FS_EmptySet
<1>2. CASE \E x : S = {x}
  BY <1>2, FS_Singleton
<1>. QED BY <1>1, <1>2

IsTurn(x) == x = [row |-> x.row, project |-> x.project, conv |-> x.conv, source |-> x.source, prompt |-> x.prompt,
                  event |-> x.event, status |-> x.status]

\* A Conversation has a row only if it was inserted.
ConvsInv ==
    /\ DOMAIN conv = ConvIds /\ convs \in Nat
    /\ \A c \in ConvIds : conv[c].row \in BOOLEAN /\ (conv[c].row => c <= convs)

\* A turn that has a row is an inserted one, in a Conversation of its own project.
TurnsInv ==
    /\ DOMAIN turn = TurnIds /\ started \in Seq(Nat)
    /\ \A t \in TurnIds : turn[t].row \in BOOLEAN
    /\ \A t \in TurnRows :
          /\ IsTurn(turn[t]) /\ t <= Len(started) /\ turn[t].prompt # NoTurn
          /\ turn[t].conv \in ConvIds /\ conv[turn[t].conv].row /\ conv[turn[t].conv].project = turn[t].project

\* A turn that has not ended is the last of its Conversation.
LastInv ==
    \A t, u \in TurnRows : turn[t].conv = turn[u].conv /\ turn[t].status \in Nonterminal => u <= t

\* A retry and what it repeats.
SourceInv ==
    \A t \in TurnRows : turn[t].source # NoTurn =>
        /\ turn[t].source \in TurnRows
        /\ turn[turn[t].source].conv = turn[t].conv
        /\ turn[turn[t].source].prompt = turn[t].prompt

\* What retry_agent_turn read stays true while the turn it read exists; its number is not
\* used again.
RetryInv ==
    retrying # NoRow =>
        /\ retrying.source \in TurnIds /\ retrying.source <= Len(started) /\ retrying.conv \in ConvIds
        /\ retrying.source \in TurnRows =>
              turn[retrying.source].conv = retrying.conv /\ turn[retrying.source].prompt = retrying.prompt

\* Tasks and file operations are of turns that have rows.
BusyInv ==
    /\ DOMAIN task = TurnIds /\ writing \subseteq TurnIds
    /\ \A t \in TurnIds : task[t] # "none" \/ t \in writing => t \in TurnRows

HistInv == ConvsInv /\ TurnsInv /\ LastInv /\ SourceInv /\ RetryInv /\ BusyInv

\* a is b as far as the invariant goes, and has ended if b has.
SameTurn(a, b) ==
    /\ IsTurn(a) /\ a.row = b.row /\ a.project = b.project /\ a.conv = b.conv /\ a.source = b.source /\ a.prompt = b.prompt
    /\ a.status \in Nonterminal => b.status \in Nonterminal

\* Steps that only change how far turns have come.
LEMMA TurnsKept ==
  ASSUME HistInv, UNCHANGED <<conv, started, convs>>, DOMAIN turn' = TurnIds,
         \A t \in TurnIds : turn'[t] = turn[t] \/ (t \in TurnRows /\ SameTurn(turn'[t], turn[t])),
         retrying' = retrying \/ RetryInv'
  PROVE  /\ TurnRows' = TurnRows
         /\ ConvsInv' /\ TurnsInv' /\ LastInv' /\ SourceInv' /\ RetryInv'
<1>1. TurnRows' = TurnRows
  BY DEF TurnRows, SameTurn
<1>2. ASSUME NEW t \in TurnRows
      PROVE  /\ IsTurn(turn'[t]) /\ turn'[t].project = turn[t].project /\ turn'[t].conv = turn[t].conv
             /\ turn'[t].source = turn[t].source /\ turn'[t].prompt = turn[t].prompt
             /\ turn'[t].status \in Nonterminal => turn[t].status \in Nonterminal
  BY DEF SameTurn, HistInv, TurnsInv, TurnRows
<1>3. ConvsInv'
  BY DEF HistInv, ConvsInv
<1>4. TurnsInv'
  <2>1. ASSUME NEW t \in TurnIds PROVE turn'[t].row \in BOOLEAN
    BY DEF HistInv, TurnsInv, SameTurn
  <2>2. ASSUME NEW t \in TurnRows
        PROVE  /\ IsTurn(turn'[t]) /\ t <= Len(started) /\ turn'[t].prompt # NoTurn
               /\ turn'[t].conv \in ConvIds /\ conv[turn'[t].conv].row /\ conv[turn'[t].conv].project = turn'[t].project
    BY <1>2 DEF HistInv, TurnsInv
  <2>. QED BY <1>1, <2>1, <2>2 DEF HistInv, TurnsInv, IsTurn
<1>5. LastInv'
  BY <1>1, <1>2 DEF HistInv, LastInv
<1>6. SourceInv'
  BY <1>1, <1>2 DEF HistInv, SourceInv
<1>7. RetryInv'
  BY <1>1, <1>2 DEF HistInv, RetryInv
<1>. QED BY <1>1, <1>3, <1>4, <1>5, <1>6, <1>7

LEMMA RowsTyped ==
  ASSUME HistInv, NEW t \in TurnIds
  PROVE  t \in TurnRows <=> turn[t].row = TRUE
BY DEF HistInv, TurnsInv, TurnRows

\* The new turn is the last of a Conversation in which every turn has ended.
LEMMA InsertKeeps ==
  ASSUME HistInv, NEW c \in ConvIds, NEW source, NEW prompt, NEW outcome, InsertTurn(c, source, prompt, outcome),
         ConvsInv', conv'[c].row, conv'[c].project = hroot,
         \A d \in ConvIds : conv[d].row => conv'[d] = conv[d],
         \A t \in InConversation(c) : turn[t].status \notin Nonterminal,
         source # NoTurn => source \in InConversation(c) /\ turn[source].prompt = prompt,
         writing' = writing, retrying' = retrying \/ retrying' = NoRow
  PROVE  HistInv'
<1>1. PICK t, p, s, e, x :
        /\ t = Len(started) + 1 /\ t <= MaxTurns /\ started' = Append(started, t)
        /\ p = IF prompt = NoTurn THEN t ELSE prompt
        /\ x = [row |-> TRUE, project |-> hroot, conv |-> c, source |-> source, prompt |-> p, event |-> e, status |-> s]
        /\ turn' = [turn EXCEPT ![t] = x]
        /\ \E k : task' = [task EXCEPT ![t] = k]
  BY DEF InsertTurn
<1>2. started \in Seq(Nat) /\ Len(started) \in Nat
  BY DEF HistInv, TurnsInv
<1>3. t \in Nat /\ t \in TurnIds /\ started' \in Seq(Nat) /\ Len(started') = t /\ t # NoTurn
  BY <1>1, <1>2, HistAssumption DEF TurnIds, NoTurn
<1>4. IsTurn(x) /\ x.row = TRUE /\ x.project = hroot /\ x.conv = c /\ x.source = source /\ x.prompt = p
  BY <1>1 DEF IsTurn
<1>5. DOMAIN turn' = TurnIds /\ turn'[t] = x /\ \A u \in TurnIds : u # t => turn'[u] = turn[u]
  BY <1>1, <1>3 DEF HistInv, TurnsInv
<1>6. ASSUME NEW u \in TurnRows PROVE u \in TurnIds /\ u \in Nat /\ u < t /\ turn'[u] = turn[u]
  <2>1. u \in TurnIds /\ u <= Len(started)
    BY DEF HistInv, TurnsInv, TurnRows
  <2>2. u \in Nat
    BY <2>1 DEF TurnIds
  <2>3. u < t
    BY <1>1, <1>2, <2>1, <2>2
  <2>. QED BY <1>3, <1>5, <2>1, <2>2, <2>3
<1>7. TurnRows' = TurnRows \cup {t}
  <2>1. ASSUME NEW u \in TurnIds PROVE u \in TurnRows' <=> u \in TurnRows \/ u = t
    BY <1>4, <1>5 DEF TurnRows
  <2>2. TurnRows' \subseteq TurnIds /\ TurnRows \subseteq TurnIds
    BY DEF TurnRows
  <2>. QED BY <1>3, <2>1, <2>2
<1>8. source # NoTurn => source \in TurnRows /\ turn[source].conv = c /\ turn[source].prompt = p
  BY <1>1 DEF InConversation, HistInv, TurnsInv
<1>9. TurnsInv'
  <2>1. p # NoTurn
    BY <1>1, <1>3
  <2>2. ASSUME NEW u \in TurnIds PROVE turn'[u].row \in BOOLEAN
    BY <1>4, <1>5 DEF HistInv, TurnsInv
  <2>3. ASSUME NEW u \in TurnRows
        PROVE  /\ IsTurn(turn'[u]) /\ u <= t /\ turn'[u].prompt # NoTurn
               /\ turn'[u].conv \in ConvIds /\ conv'[turn'[u].conv].row /\ conv'[turn'[u].conv].project = turn'[u].project
    <3>1. turn'[u] = turn[u] /\ u <= t
      BY <1>3, <1>6
    <3>2. IsTurn(turn[u]) /\ turn[u].prompt # NoTurn /\ turn[u].conv \in ConvIds /\ conv[turn[u].conv].row
          /\ conv[turn[u].conv].project = turn[u].project
      BY DEF HistInv, TurnsInv
    <3>3. conv'[turn[u].conv] = conv[turn[u].conv]
      BY <3>2
    <3>. QED BY <3>1, <3>2, <3>3
  <2>4. ASSUME NEW u \in TurnRows'
        PROVE  /\ IsTurn(turn'[u]) /\ u <= t /\ turn'[u].prompt # NoTurn
               /\ turn'[u].conv \in ConvIds /\ conv'[turn'[u].conv].row /\ conv'[turn'[u].conv].project = turn'[u].project
    BY <1>3, <1>4, <1>5, <1>7, <2>1, <2>3
  <2>. QED BY <1>3, <1>5, <2>2, <2>4 DEF TurnsInv, IsTurn
<1>10. LastInv'
  <2>1. ASSUME NEW u \in TurnRows', NEW v \in TurnRows', turn'[u].conv = turn'[v].conv, turn'[u].status \in Nonterminal PROVE v <= u
    <3>1. CASE u = t
      BY <1>3, <1>6, <1>7, <3>1
    <3>2. CASE u # t /\ v # t
      BY <1>6, <1>7, <2>1, <3>2 DEF HistInv, LastInv
    <3>3. CASE u # t /\ v = t
      <4>1. u \in TurnRows /\ turn[u].conv = c /\ turn[u].status \in Nonterminal
        BY <1>4, <1>5, <1>6, <1>7, <2>1, <3>3
      <4>. QED BY <4>1 DEF InConversation
    <3>. QED BY <3>1, <3>2, <3>3
  <2>. QED BY <2>1 DEF LastInv
<1>11. SourceInv'
  <2>1. ASSUME NEW u \in TurnRows', turn'[u].source # NoTurn
        PROVE  /\ turn'[u].source \in TurnRows'
               /\ turn'[turn'[u].source].conv = turn'[u].conv
               /\ turn'[turn'[u].source].prompt = turn'[u].prompt
    <3>1. CASE u = t
      BY <1>4, <1>5, <1>6, <1>7, <1>8, <2>1, <3>1
    <3>2. CASE u # t
      BY <1>6, <1>7, <2>1, <3>2 DEF HistInv, SourceInv
    <3>. QED BY <3>1, <3>2
  <2>. QED BY <2>1 DEF SourceInv
<1>12. RetryInv'
  <2>1. CASE retrying' = NoRow
    BY <2>1 DEF RetryInv
  <2>2. CASE retrying' = retrying /\ retrying # NoRow
    <3>1. retrying.source \in TurnIds /\ retrying.source <= Len(started) /\ retrying.conv \in ConvIds
      BY <2>2 DEF HistInv, RetryInv
    <3>2. retrying.source \in Nat
      BY <3>1 DEF TurnIds
    <3>3. retrying.source # t /\ retrying.source <= t
      BY <1>1, <1>2, <3>1, <3>2
    <3>4. retrying.source \in TurnRows' => retrying.source \in TurnRows /\ turn'[retrying.source] = turn[retrying.source]
      BY <1>6, <1>7, <3>3
    <3>. QED BY <1>3, <2>2, <3>1, <3>3, <3>4 DEF HistInv, RetryInv
  <2>. QED BY <2>1, <2>2
<1>13. BusyInv'
  <2>1. PICK k : task' = [task EXCEPT ![t] = k]
    BY <1>1
  <2>2. DOMAIN task' = TurnIds /\ \A u \in TurnIds : u # t => task'[u] = task[u]
    BY <2>1 DEF HistInv, BusyInv
  <2>3. ASSUME NEW u \in TurnIds, task'[u] # "none" \/ u \in writing PROVE u \in TurnRows'
    BY <1>7, <2>2, <2>3 DEF HistInv, BusyInv
  <2>. QED BY <2>2, <2>3 DEF HistInv, BusyInv
<1>. QED BY <1>9, <1>10, <1>11, <1>12, <1>13 DEF HistInv

\* A new Conversation: no turn can be in it yet.
LEMMA NewConversation ==
  ASSUME HistInv, convs < MaxConvs, convs' = convs + 1,
         conv' = [conv EXCEPT ![convs'] = [row |-> TRUE, project |-> hroot, legacy |-> FALSE]]
  PROVE  /\ ConvsInv' /\ convs' \in ConvIds /\ conv'[convs'].row /\ conv'[convs'].project = hroot
         /\ \A d \in ConvIds : conv[d].row => conv'[d] = conv[d]
         /\ \A t \in TurnRows : turn[t].conv # convs'
<1>1. PICK r : r = [row |-> TRUE, project |-> hroot, legacy |-> FALSE]
  OBVIOUS
<1>2. r.row = TRUE /\ r.project = hroot
  BY <1>1
<1>3. convs \in Nat /\ convs' \in Nat /\ convs' \in ConvIds /\ DOMAIN conv = ConvIds
  BY HistAssumption DEF HistInv, ConvsInv, ConvIds
<1>4. DOMAIN conv' = ConvIds /\ conv'[convs'] = r /\ \A d \in ConvIds : d # convs' => conv'[d] = conv[d]
  BY <1>1, <1>3
<1>5. ASSUME NEW d \in ConvIds, conv[d].row PROVE d \in Nat /\ d # convs' /\ d <= convs'
  <2>1. d <= convs /\ d \in Nat
    BY <1>5 DEF HistInv, ConvsInv, ConvIds
  <2>. QED BY <1>3, <2>1
<1>6. ConvsInv'
  <2>1. ASSUME NEW d \in ConvIds PROVE conv'[d].row \in BOOLEAN /\ (conv'[d].row => d <= convs')
    <3>1. CASE d = convs'
      BY <1>2, <1>3, <1>4, <3>1
    <3>2. CASE d # convs'
      BY <1>4, <1>5, <3>2 DEF HistInv, ConvsInv
    <3>. QED BY <3>1, <3>2
  <2>. QED BY <1>3, <1>4, <2>1 DEF ConvsInv
<1>7. \A t \in TurnRows : turn[t].conv # convs'
  BY <1>5 DEF HistInv, TurnsInv
<1>. QED BY <1>2, <1>3, <1>4, <1>5, <1>6, <1>7

LEMMA CreateConversationSteps ==
  ASSUME HistInv, create_agent_conversation
  PROVE  HistInv'
<1>1. UNCHANGED <<turn, started, task, writing, retrying>> /\ convs < MaxConvs /\ convs' = convs + 1
      /\ conv' = [conv EXCEPT ![convs'] = [row |-> TRUE, project |-> hroot, legacy |-> FALSE]]
  BY DEF create_agent_conversation
<1>2. ConvsInv' /\ \A d \in ConvIds : conv[d].row => conv'[d] = conv[d]
  BY <1>1, NewConversation
<1>3. TurnRows' = TurnRows
  BY <1>1 DEF TurnRows
<1>4. TurnsInv'
  <2>1. ASSUME NEW t \in TurnRows
        PROVE  /\ IsTurn(turn[t]) /\ t <= Len(started) /\ turn[t].prompt # NoTurn
               /\ turn[t].conv \in ConvIds /\ conv'[turn[t].conv].row /\ conv'[turn[t].conv].project = turn[t].project
    BY <1>2 DEF HistInv, TurnsInv
  <2>. QED BY <1>1, <1>3, <2>1 DEF HistInv, TurnsInv, IsTurn
<1>5. LastInv' /\ SourceInv' /\ RetryInv' /\ BusyInv'
  BY <1>1, <1>3 DEF HistInv, LastInv, SourceInv, RetryInv, BusyInv
<1>. QED BY <1>2, <1>4, <1>5 DEF HistInv

LEMMA HistStartSteps ==
  ASSUME HistInv, NEW o \in StartOutcomes,
         \/ create_agent_turn_with_conversation(o)
         \/ \E c \in ConvIds : create_agent_turn_in_conversation(c, o)
         \/ retry_agent_turn(o)
  PROVE  HistInv'
<1>1. CASE create_agent_turn_with_conversation(o)
  <2>1. /\ convs < MaxConvs /\ convs' = convs + 1 /\ InsertTurn(convs', NoTurn, NoTurn, o) /\ UNCHANGED <<writing, retrying>>
        /\ conv' = [conv EXCEPT ![convs'] = [row |-> TRUE, project |-> hroot, legacy |-> FALSE]]
    BY <1>1 DEF create_agent_turn_with_conversation
  <2>2. PICK c \in ConvIds : c = convs'
    BY <2>1, NewConversation
  <2>3. InsertTurn(c, NoTurn, NoTurn, o)
    BY <2>1, <2>2
  <2>4. ConvsInv' /\ conv'[c].row /\ conv'[c].project = hroot
        /\ (\A d \in ConvIds : conv[d].row => conv'[d] = conv[d]) /\ \A t \in TurnRows : turn[t].conv # c
    BY <2>1, <2>2, NewConversation
  <2>5. InConversation(c) = {}
    BY <2>4 DEF InConversation
  <2>. QED BY <2>1, <2>3, <2>4, <2>5, InsertKeeps
<1>2. ASSUME NEW c \in ConvIds, create_agent_turn_in_conversation(c, o) PROVE HistInv'
  <2>1. InsertTurn(c, NoTurn, NoTurn, o) /\ UNCHANGED <<conv, convs, writing, retrying>> /\ AcceptsTurn(hroot, c, NoTurn)
    BY <1>2 DEF create_agent_turn_in_conversation
  <2>2. conv[c].row /\ conv[c].project = hroot /\ \A t \in InConversation(c) : turn[t].status \notin Nonterminal
    BY <2>1 DEF AcceptsTurn
  <2>3. ConvsInv'
    BY <2>1 DEF HistInv, ConvsInv
  <2>. QED BY <2>1, <2>2, <2>3, InsertKeeps
<1>3. CASE retry_agent_turn(o)
  <2>1. retrying # NoRow /\ retrying' = NoRow /\ UNCHANGED <<conv, convs, writing>>
    BY <1>3 DEF retry_agent_turn
  <2>2. CASE UNCHANGED <<turn, started, task>>
    <3>1. RetryInv'
      BY <2>1 DEF RetryInv
    <3>2. TurnRows' = TurnRows /\ ConvsInv' /\ TurnsInv' /\ LastInv' /\ SourceInv'
      BY <2>1, <2>2, <3>1, TurnsKept DEF HistInv, TurnsInv
    <3>3. BusyInv'
      BY <2>1, <2>2, <3>2 DEF HistInv, BusyInv
    <3>. QED BY <3>1, <3>2, <3>3 DEF HistInv
  <2>3. CASE AcceptsTurn(hroot, retrying.conv, retrying.source) /\ InsertTurn(retrying.conv, retrying.source, retrying.prompt, o)
    <3>1. PICK c, src, p : c = retrying.conv /\ src = retrying.source /\ p = retrying.prompt
      OBVIOUS
    <3>2. AcceptsTurn(hroot, c, src) /\ InsertTurn(c, src, p, o)
      BY <2>3, <3>1
    <3>3. conv[c].row /\ conv[c].project = hroot /\ (\A t \in InConversation(c) : turn[t].status \notin Nonterminal)
          /\ (src # NoTurn => src \in InConversation(c))
      BY <3>2 DEF AcceptsTurn
    <3>4. c \in ConvIds /\ (src \in TurnRows => turn[src].prompt = p)
      BY <2>1, <3>1 DEF HistInv, RetryInv
    <3>5. src # NoTurn => src \in InConversation(c) /\ turn[src].prompt = p
      BY <3>3, <3>4 DEF InConversation
    <3>6. ConvsInv'
      BY <2>1 DEF HistInv, ConvsInv
    <3>. QED BY <2>1, <3>2, <3>3, <3>4, <3>5, <3>6, InsertKeeps
  <2>. QED BY <1>3, <2>2, <2>3 DEF retry_agent_turn
<1>. QED BY <1>1, <1>2, <1>3

LEMMA TurnsRest ==
  ASSUME HistInv, UNCHANGED <<conv, turn, started, convs>>, retrying' = retrying \/ RetryInv',
         DOMAIN task' = TurnIds, writing' \subseteq TurnIds,
         \A t \in TurnIds : task'[t] # "none" \/ t \in writing' => t \in TurnRows
  PROVE  HistInv'
<1>1. TurnRows' = TurnRows /\ ConvsInv' /\ TurnsInv' /\ LastInv' /\ SourceInv' /\ RetryInv'
  BY TurnsKept DEF HistInv, TurnsInv
<1>. QED BY <1>1 DEF HistInv, BusyInv

LEMMA TaskSteps0 ==
  ASSUME HistInv, NEW t \in TurnIds,
         agent_retry_source(t) \/ LoadHistory(t) \/ TaskRemoved(t) \/ BeginFileOperation(t) \/ EndFileOperation(t)
  PROVE  HistInv'
<1>0. DOMAIN task = TurnIds /\ writing \subseteq TurnIds /\ \A u \in TurnIds : task[u] # "none" \/ u \in writing => u \in TurnRows
  BY DEF HistInv, BusyInv
<1>1. CASE agent_retry_source(t)
  <2>1. UNCHANGED <<conv, turn, started, convs, task, writing>> /\ get_agent_turn_detail(hroot, t)
        /\ retrying' = [row |-> TRUE, source |-> t, conv |-> turn[t].conv, prompt |-> turn[t].prompt]
    BY <1>1 DEF agent_retry_source
  <2>2. t \in TurnRows
    BY <2>1 DEF get_agent_turn_detail, TurnRows
  <2>3. retrying'.source = t /\ retrying'.conv = turn[t].conv /\ retrying'.prompt = turn[t].prompt
    BY <2>1
  <2>4. t <= Len(started) /\ turn[t].conv \in ConvIds
    BY <2>2 DEF HistInv, TurnsInv
  <2>5. RetryInv'
    BY <2>1, <2>3, <2>4 DEF RetryInv
  <2>. QED BY <1>0, <2>1, <2>5, TurnsRest
<1>2. CASE LoadHistory(t)
  <2>1. task[t] = "loading" /\ task' = [task EXCEPT ![t] = "running"] /\ UNCHANGED <<conv, turn, started, convs, writing, retrying>>
    BY <1>2 DEF LoadHistory
  <2>. QED BY <1>0, <2>1, TurnsRest
<1>3. CASE TaskRemoved(t)
  <2>1. task' = [task EXCEPT ![t] = "none"] /\ UNCHANGED <<conv, turn, started, convs, writing, retrying>>
    BY <1>3 DEF TaskRemoved
  <2>. QED BY <1>0, <2>1, TurnsRest
<1>4. CASE BeginFileOperation(t)
  <2>1. writing' = writing \cup {t} /\ get_agent_turn_detail(hroot, t) /\ UNCHANGED <<conv, turn, started, convs, task, retrying>>
    BY <1>4 DEF BeginFileOperation
  <2>2. t \in TurnRows
    BY <2>1 DEF get_agent_turn_detail, TurnRows
  <2>. QED BY <1>0, <2>1, <2>2, TurnsRest
<1>5. CASE EndFileOperation(t)
  <2>1. writing' = writing \ {t} /\ UNCHANGED <<conv, turn, started, convs, task, retrying>>
    BY <1>5 DEF EndFileOperation
  <2>. QED BY <1>0, <2>1, TurnsRest
<1>. QED BY <1>1, <1>2, <1>3, <1>4, <1>5

\* A turn that ends.
LEMMA EndKeeps ==
  ASSUME HistInv, NEW t \in TurnIds, NEW status, status \notin Nonterminal, t \in TurnRows
  PROVE  SameTurn([turn[t] EXCEPT !.status = status], turn[t])
<1>1. PICK a : a = [turn[t] EXCEPT !.status = status]
  OBVIOUS
<1>2. IsTurn(turn[t])
  BY DEF HistInv, TurnsInv
<1>3. a = [row |-> turn[t].row, project |-> turn[t].project, conv |-> turn[t].conv, source |-> turn[t].source,
           prompt |-> turn[t].prompt, event |-> turn[t].event, status |-> status]
  BY <1>1, <1>2 DEF IsTurn
<1>4. SameTurn(a, turn[t])
  BY <1>3 DEF SameTurn, IsTurn
<1>. QED BY <1>1, <1>4

LEMMA EndSteps ==
  ASSUME HistInv, NEW t \in TurnIds,
         (\E s \in {"completed", "failed"} : finish_agent_turn(t, s)) \/ cancel_agent_turn(t)
  PROVE  HistInv'
<1>1. PICK s \in {"completed", "failed", "interrupted"} :
        turn' = (IF turn[t].row THEN [turn EXCEPT ![t].status = s] ELSE turn) \/ turn' = [turn EXCEPT ![t].status = s]
  BY DEF finish_agent_turn, cancel_agent_turn
<1>2. task[t] # "none" /\ UNCHANGED <<conv, started, convs, writing, retrying>> /\ \E k : task' = [task EXCEPT ![t] = k]
  BY DEF finish_agent_turn, cancel_agent_turn
<1>3. t \in TurnRows
  BY <1>2 DEF HistInv, BusyInv
<1>4. turn' = [turn EXCEPT ![t].status = s]
  BY <1>1, <1>3 DEF TurnRows
<1>5. PICK a : a = [turn[t] EXCEPT !.status = s] /\ turn' = [turn EXCEPT ![t] = a]
  BY <1>4
<1>6. SameTurn(a, turn[t])
  BY <1>3, <1>5, EndKeeps DEF Nonterminal
<1>7. TurnRows' = TurnRows /\ ConvsInv' /\ TurnsInv' /\ LastInv' /\ SourceInv' /\ RetryInv'
  <2>1. DOMAIN turn = TurnIds
    BY DEF HistInv, TurnsInv
  <2>2. DOMAIN turn' = TurnIds /\ turn'[t] = a /\ \A u \in TurnIds : u # t => turn'[u] = turn[u]
    BY <1>5, <2>1
  <2>. QED BY <1>2, <1>3, <1>6, <2>2, TurnsKept
<1>8. BusyInv'
  BY <1>2, <1>3, <1>7 DEF HistInv, BusyInv
<1>. QED BY <1>7, <1>8 DEF HistInv

LEMMA RecoverSteps ==
  ASSUME HistInv, recover_incomplete_agent_turns
  PROVE  HistInv'
<1>1. turn' = [t \in TurnIds |-> IF turn[t].row /\ turn[t].status \in Nonterminal
                                 THEN [turn[t] EXCEPT !.status = "interrupted"] ELSE turn[t]]
      /\ task' = [t \in TurnIds |-> "none"] /\ writing' = {} /\ retrying' = NoRow /\ UNCHANGED <<conv, started, convs>>
  BY DEF recover_incomplete_agent_turns
<1>2. ASSUME NEW t \in TurnIds PROVE turn'[t] = turn[t] \/ (t \in TurnRows /\ SameTurn(turn'[t], turn[t]))
  <2>1. CASE turn[t].row /\ turn[t].status \in Nonterminal
    <3>1. t \in TurnRows /\ turn'[t] = [turn[t] EXCEPT !.status = "interrupted"]
      BY <1>1, <2>1 DEF TurnRows
    <3>. QED BY <3>1, EndKeeps DEF Nonterminal
  <2>2. CASE ~(turn[t].row /\ turn[t].status \in Nonterminal)
    BY <1>1, <2>2
  <2>. QED BY <2>1, <2>2
<1>3. RetryInv' /\ DOMAIN turn' = TurnIds
  BY <1>1 DEF RetryInv
<1>4. TurnRows' = TurnRows /\ ConvsInv' /\ TurnsInv' /\ LastInv' /\ SourceInv' /\ RetryInv'
  BY <1>1, <1>2, <1>3, TurnsKept
<1>5. BusyInv'
  BY <1>1 DEF BusyInv
<1>. QED BY <1>4, <1>5 DEF HistInv

\* Deleting turns that nobody works on, and Conversations no other turn is in.
LEMMA DeleteKeeps ==
  ASSUME HistInv, NEW gone, gone \subseteq TurnRows, turn' = Deleted(gone),
         UNCHANGED <<started, convs, task, writing, retrying>>, DOMAIN conv' = ConvIds,
         \A c \in ConvIds : conv'[c] = conv[c] \/ conv'[c] = NoRow,
         \A t \in TurnRows \ gone : conv'[turn[t].conv] = conv[turn[t].conv],
         \A t \in TurnIds : task[t] # "none" \/ t \in writing => t \notin gone
  PROVE  HistInv'
<1>0. NoRow.row = FALSE
  BY DEF NoRow
<1>1. DOMAIN turn' = TurnIds /\ \A t \in TurnIds : turn'[t] = IF ~turn[t].row \/ t \in gone THEN NoRow
                               ELSE [turn[t] EXCEPT !.source = IF @ \in gone THEN NoTurn ELSE @]
  BY DEF Deleted
<1>2. ASSUME NEW t \in TurnRows, t \notin gone
      PROVE  /\ IsTurn(turn'[t]) /\ turn'[t].row = TRUE /\ turn'[t].conv = turn[t].conv /\ turn'[t].project = turn[t].project
             /\ turn'[t].prompt = turn[t].prompt /\ turn'[t].status = turn[t].status
             /\ turn'[t].source = IF turn[t].source \in gone THEN NoTurn ELSE turn[t].source
  <2>1. PICK s : s = IF turn[t].source \in gone THEN NoTurn ELSE turn[t].source
    OBVIOUS
  <2>2. t \in TurnIds /\ turn[t].row = TRUE /\ IsTurn(turn[t])
    BY DEF HistInv, TurnsInv, TurnRows
  <2>3. turn'[t] = [turn[t] EXCEPT !.source = s]
    BY <1>1, <1>2, <2>1, <2>2
  <2>4. turn'[t] = [row |-> TRUE, project |-> turn[t].project, conv |-> turn[t].conv, source |-> s,
                    prompt |-> turn[t].prompt, event |-> turn[t].event, status |-> turn[t].status]
    BY <2>2, <2>3 DEF IsTurn
  <2>. QED BY <2>1, <2>4 DEF IsTurn
<1>3. ASSUME NEW t \in TurnIds, t \notin TurnRows \/ t \in gone PROVE turn'[t] = NoRow
  BY <1>1, <1>3 DEF TurnRows
<1>4. TurnRows' = TurnRows \ gone
  <2>1. ASSUME NEW t \in TurnIds PROVE t \in TurnRows' <=> t \in TurnRows /\ t \notin gone
    BY <1>0, <1>2, <1>3 DEF TurnRows
  <2>2. TurnRows \subseteq TurnIds /\ TurnRows' \subseteq TurnIds
    BY DEF TurnRows
  <2>. QED BY <2>1, <2>2
<1>5. ConvsInv'
  BY <1>0 DEF HistInv, ConvsInv
<1>6. TurnsInv'
  <2>1. ASSUME NEW t \in TurnIds PROVE turn'[t].row \in BOOLEAN
    BY <1>0, <1>2, <1>3
  <2>2. ASSUME NEW t \in TurnRows'
        PROVE  /\ IsTurn(turn'[t]) /\ t <= Len(started) /\ turn'[t].prompt # NoTurn
               /\ turn'[t].conv \in ConvIds /\ conv'[turn'[t].conv].row /\ conv'[turn'[t].conv].project = turn'[t].project
    <3>1. t \in TurnRows /\ t \notin gone
      BY <1>4
    <3>2. /\ t <= Len(started) /\ turn[t].prompt # NoTurn
          /\ turn[t].conv \in ConvIds /\ conv[turn[t].conv].row /\ conv[turn[t].conv].project = turn[t].project
      BY <3>1 DEF HistInv, TurnsInv
    <3>3. conv'[turn[t].conv] = conv[turn[t].conv]
      BY <3>1
    <3>4. IsTurn(turn'[t]) /\ turn'[t].conv = turn[t].conv /\ turn'[t].project = turn[t].project /\ turn'[t].prompt = turn[t].prompt
      BY <1>2, <3>1
    <3>. QED BY <3>2, <3>3, <3>4
  <2>. QED BY <1>1, <2>1, <2>2 DEF HistInv, TurnsInv, IsTurn
<1>7. LastInv'
  BY <1>2, <1>4 DEF HistInv, LastInv
<1>8. SourceInv'
  <2>1. ASSUME NEW t \in TurnRows', turn'[t].source # NoTurn
        PROVE  /\ turn'[t].source \in TurnRows'
               /\ turn'[turn'[t].source].conv = turn'[t].conv
               /\ turn'[turn'[t].source].prompt = turn'[t].prompt
    <3>1. t \in TurnRows /\ t \notin gone /\ turn'[t].source = turn[t].source /\ turn[t].source \notin gone
      BY <1>2, <1>4, <2>1
    <3>2. turn[t].source \in TurnRows /\ turn[turn[t].source].conv = turn[t].conv /\ turn[turn[t].source].prompt = turn[t].prompt
      BY <2>1, <3>1 DEF HistInv, SourceInv
    <3>. QED BY <1>2, <1>4, <3>1, <3>2
  <2>. QED BY <2>1 DEF SourceInv
<1>9. RetryInv'
  BY <1>2, <1>4 DEF HistInv, RetryInv
<1>10. BusyInv'
  BY <1>4 DEF HistInv, BusyInv
<1>. QED BY <1>5, <1>6, <1>7, <1>8, <1>9, <1>10 DEF HistInv

LEMMA DeleteSteps ==
  ASSUME HistInv, NEW c \in ConvIds, delete_agent_conversation(c)
  PROVE  HistInv'
<1>1. /\ \A t \in Active : ~turn[t].row \/ turn[t].conv # c
      /\ InConversation(c) \cap writing = {}
      /\ turn' = Deleted(InConversation(c)) /\ conv' = [conv EXCEPT ![c] = NoRow]
      /\ UNCHANGED <<started, convs, task, writing, retrying>>
  BY DEF delete_agent_conversation
<1>2. DOMAIN conv = ConvIds
  BY DEF HistInv, ConvsInv
<1>3. DOMAIN conv' = ConvIds /\ conv'[c] = NoRow /\ \A d \in ConvIds : d # c => conv'[d] = conv[d]
  BY <1>1, <1>2
<1>4. ASSUME NEW t \in TurnRows \ InConversation(c) PROVE conv'[turn[t].conv] = conv[turn[t].conv]
  <2>1. turn[t].conv # c /\ turn[t].conv \in ConvIds
    BY DEF InConversation, HistInv, TurnsInv
  <2>. QED BY <1>3, <2>1
<1>5. ASSUME NEW t \in TurnIds, task[t] # "none" \/ t \in writing PROVE t \notin InConversation(c)
  BY <1>1, <1>5 DEF Active, InConversation, TurnRows
<1>6. InConversation(c) \subseteq TurnRows
  BY DEF InConversation
<1>. QED BY <1>1, <1>3, <1>4, <1>5, <1>6, DeleteKeeps

LEMMA ClearSteps ==
  ASSUME HistInv, clear_agent_history
  PROVE  HistInv'
<1>. DEFINE gone == {t \in TurnRows : turn[t].project = hroot}
<1>1. /\ Active = {} /\ \A t \in writing : turn[t].project # hroot
      /\ turn' = Deleted(gone)
      /\ conv' = [c \in ConvIds |-> IF conv[c].row /\ conv[c].project = hroot THEN NoRow ELSE conv[c]]
      /\ UNCHANGED <<started, convs, task, writing, retrying>>
  BY DEF clear_agent_history
<1>2. DOMAIN conv' = ConvIds /\ \A c \in ConvIds : conv'[c] = conv[c] \/ conv'[c] = NoRow
  BY <1>1
<1>3. ASSUME NEW t \in TurnRows \ gone PROVE conv'[turn[t].conv] = conv[turn[t].conv]
  <2>1. turn[t].conv \in ConvIds /\ conv[turn[t].conv].project = turn[t].project /\ turn[t].project # hroot
    BY DEF HistInv, TurnsInv
  <2>. QED BY <1>1, <2>1
<1>4. ASSUME NEW t \in TurnIds, task[t] # "none" \/ t \in writing PROVE t \notin gone
  BY <1>1, <1>4 DEF Active
<1>5. gone \subseteq TurnRows
  OBVIOUS
<1>. HIDE DEF gone
<1>. QED BY <1>1, <1>2, <1>3, <1>4, <1>5, DeleteKeeps

LEMMA HistStarts ==
  ASSUME HistInit
  PROVE  HistInv
<1>1. PICK implicit \in BOOLEAN : conv = [c \in ConvIds |-> IF implicit /\ c = 1
                                                   THEN [row |-> TRUE, project |-> hroot, legacy |-> TRUE] ELSE NoRow]
  BY DEF HistInit
<1>2. NoRow.row = FALSE
  BY DEF NoRow
<1>3. 1 \in ConvIds /\ convs = IF conv[1].row THEN 1 ELSE 0
  BY HistAssumption DEF HistInit, ConvIds
<1>4. ASSUME NEW c \in ConvIds PROVE conv[c].row \in BOOLEAN /\ (conv[c].row => c = 1)
  BY <1>1, <1>2
<1>5. ConvsInv
  <2>1. convs \in Nat /\ DOMAIN conv = ConvIds
    BY <1>1, <1>3
  <2>2. ASSUME NEW c \in ConvIds, conv[c].row PROVE c <= convs
    <3>1. c = 1 /\ convs = 1
      BY <1>3, <1>4, <2>2
    <3>. QED BY <3>1
  <2>. QED BY <1>4, <2>1, <2>2 DEF ConvsInv
<1>6. TurnRows = {}
  BY <1>2 DEF HistInit, TurnRows
<1>7. TurnsInv
  <2>1. started \in Seq(Nat)
    BY DEF HistInit
  <2>. QED BY <1>2, <1>6, <2>1 DEF HistInit, TurnsInv
<1>8. LastInv /\ SourceInv /\ RetryInv /\ BusyInv
  BY <1>6 DEF HistInit, LastInv, SourceInv, RetryInv, BusyInv
<1>. QED BY <1>5, <1>7, <1>8 DEF HistInv

LEMMA HistSteps ==
  ASSUME HistInv, [HistNext]_histvars
  PROVE  HistInv'
<1>0. DOMAIN task = TurnIds /\ writing \subseteq TurnIds /\ \A u \in TurnIds : task[u] # "none" \/ u \in writing => u \in TurnRows
  BY DEF HistInv, BusyInv
<1>1. CASE UNCHANGED histvars
  BY <1>0, <1>1, TurnsRest DEF histvars
<1>2. CASE \E p \in HistProjects : LeaveProject(p)
  BY <1>0, <1>2, TurnsRest DEF LeaveProject
<1>3. CASE HistNext /\ ~\E p \in HistProjects : LeaveProject(p)
  BY <1>3, CreateConversationSteps, HistStartSteps, TaskSteps0, EndSteps, DeleteSteps, ClearSteps, RecoverSteps DEF HistNext
<1>. QED BY <1>1, <1>2, <1>3

\* HistInv holds through starts, retries, deletions and deaths of the desktop.
THEOREM HistoryInvariance == HistSpec => []HistInv
<1>1. HistInit => HistInv
  BY HistStarts
<1>2. HistInv /\ [HistNext]_histvars => HistInv'
  BY HistSteps
<1>. QED BY <1>1, <1>2, PTL DEF HistSpec

\* The last turn of a Conversation, which its summary tells the status of.
LEMMA LatestIs ==
  ASSUME HistInv, NEW c, InConversation(c) # {}
  PROVE  LatestTurn(c) \in InConversation(c) /\ \A u \in InConversation(c) : u <= LatestTurn(c)
<1>1. InConversation(c) \subseteq 1 .. MaxTurns
  BY DEF InConversation, TurnRows, TurnIds
<1>2. \E t \in InConversation(c) : \A u \in InConversation(c) : u <= t
  BY <1>1, HistAssumption, LastExists
<1>. QED BY <1>2 DEF LatestTurn

LEMMA WholeFollows ==
  ASSUME HistInv
  PROVE  ConversationsStayWhole
<1>1. ASSUME NEW t \in Active \cup writing
      PROVE  turn[t].row /\ conv[turn[t].conv].row /\ conv[turn[t].conv].project = turn[t].project
  <2>1. t \in TurnRows
    BY DEF Active, HistInv, BusyInv
  <2>. QED BY <2>1 DEF HistInv, TurnsInv, TurnRows
<1>2. ASSUME NEW c, NEW t \in InConversation(c), NEW u \in InConversation(c), turn[t].status \in Nonterminal PROVE u <= t
  BY <1>2 DEF InConversation, HistInv, LastInv
<1>3. ASSUME NEW c PROVE InConversation(c) \subseteq Int
  BY DEF InConversation, TurnRows, TurnIds
<1>4. ASSUME NEW c \in ConvIds
      PROVE  Cardinality({t \in InConversation(c) : turn[t].status \in Nonterminal}) <= 1
  <2>. DEFINE S == {t \in InConversation(c) : turn[t].status \in Nonterminal}
  <2>1. ASSUME NEW t \in S, NEW u \in S PROVE t = u
    <3>1. t \in Int /\ u \in Int /\ t <= u /\ u <= t
      BY <1>2, <1>3
    <3>. QED BY <3>1
  <2>. HIDE DEF S
  <2>2. Cardinality(S) <= 1
    BY <2>1, AtMostOne
  <2>. QED BY <2>2 DEF S
<1>5. ASSUME NEW p \in HistProjects, NEW s \in list_agent_conversations(p)
      PROVE  s.status \in Nonterminal <=> \E t \in InConversation(s.id) : turn[t].status \in Nonterminal
  <2>1. PICK c \in ConvIds : s = [id |-> c, turn_count |-> Cardinality(InConversation(c)),
                                  status |-> IF InConversation(c) = {} THEN "empty" ELSE turn[LatestTurn(c)].status]
    BY DEF list_agent_conversations
  <2>2. s.id = c /\ s.status = IF InConversation(c) = {} THEN "empty" ELSE turn[LatestTurn(c)].status
    BY <2>1
  <2>3. CASE InConversation(c) = {}
    BY <2>2, <2>3 DEF Nonterminal
  <2>4. CASE InConversation(c) # {}
    <3>1. LatestTurn(c) \in InConversation(c) /\ \A u \in InConversation(c) : u <= LatestTurn(c)
      BY <2>4, LatestIs
    <3>2. ASSUME NEW t \in InConversation(c), turn[t].status \in Nonterminal PROVE t = LatestTurn(c)
      <4>1. t <= LatestTurn(c) /\ LatestTurn(c) <= t /\ t \in Int /\ LatestTurn(c) \in Int
        BY <1>2, <1>3, <3>1, <3>2
      <4>. QED BY <4>1
    <3>. QED BY <2>2, <2>4, <3>1, <3>2
  <2>. QED BY <2>3, <2>4
<1>6. ASSUME NEW t \in TurnRows, turn[t].source # NoTurn
      PROVE  turn[turn[t].source].conv = turn[t].conv /\ turn[turn[t].source].prompt = turn[t].prompt
  BY <1>6 DEF HistInv, SourceInv
<1>. QED BY <1>1, <1>4, <1>5, <1>6 DEF ConversationsStayWhole

\* No deletion takes rows from under a task or a file operation, a Conversation has one turn
\* under way at most and its summary tells so, a retry repeats its source
\* (delete_agent_conversation, clear_agent_history, retry_agent_turn).
THEOREM ConversationsWhole == HistSpec => []ConversationsStayWhole
<1>1. HistInv => ConversationsStayWhole
  BY WholeFollows
<1>. QED BY <1>1, HistoryInvariance, PTL

\* A numbering without repetition reaches every number.
LEMMA RankOnto ==
  ASSUME NEW S, IsFiniteSet(S), NEW f \in [S -> 0 .. Cardinality(S) - 1], \A t, u \in S : f[t] = f[u] => t = u,
         NEW k \in 0 .. Cardinality(S) - 1
  PROVE  \E t \in S : f[t] = k
<1>. DEFINE n == Cardinality(S)
<1>1. n \in Nat
  BY FS_CardinalityType
<1>2. IsFiniteSet(0 .. n - 1) /\ Cardinality(0 .. n - 1) = n
  <2>1. n - 1 \in Int /\ 0 \in Int
    BY <1>1
  <2>2. IsFiniteSet(0 .. n - 1) /\ Cardinality(0 .. n - 1) = IF 0 > n - 1 THEN 0 ELSE n - 1 - 0 + 1
    BY <2>1, FS_Interval
  <2>. QED BY <2>2, <1>1
<1>3. f \in Injection(S, 0 .. n - 1)
  BY DEF Injection, IsInjective
<1>4. f \in Surjection(S, 0 .. n - 1)
  <2>1. Cardinality(S) = Cardinality(0 .. n - 1)
    BY <1>2
  <2>. HIDE DEF n
  <2>. QED BY <1>2, <1>3, <2>1, FS_Injection
<1>. QED BY <1>4 DEF Surjection

Older(turns, t) == {u \in turns : u < t}
Newer(turns, t) == {u \in turns : u > t}

LEMMA RanksTyped ==
  ASSUME NEW S \in SUBSET Int, IsFiniteSet(S), NEW t \in S
  PROVE  /\ Cardinality(Older(S, t)) \in 0 .. Cardinality(S) - 1
         /\ Cardinality(Newer(S, t)) \in 0 .. Cardinality(S) - 1
<1>1. Older(S, t) \in SUBSET S /\ t \notin Older(S, t) /\ Newer(S, t) \in SUBSET S /\ t \notin Newer(S, t)
  BY DEF Older, Newer
<1>2. /\ Cardinality(Older(S, t)) <= Cardinality(S) /\ Cardinality(Older(S, t)) # Cardinality(S)
      /\ Cardinality(Newer(S, t)) <= Cardinality(S) /\ Cardinality(Newer(S, t)) # Cardinality(S)
  BY <1>1, FS_Subset
<1>3. Cardinality(Older(S, t)) \in Nat /\ Cardinality(Newer(S, t)) \in Nat /\ Cardinality(S) \in Nat
  BY <1>1, FS_Subset, FS_CardinalityType
<1>. QED BY <1>2, <1>3

\* A later turn has more before it and fewer after it.
LEMMA RanksGrow ==
  ASSUME NEW S \in SUBSET Int, IsFiniteSet(S), NEW t \in S, NEW u \in S, t < u
  PROVE  /\ Cardinality(Older(S, t)) < Cardinality(Older(S, u))
         /\ Cardinality(Newer(S, u)) < Cardinality(Newer(S, t))
<1>0. \A x \in S : (x < t => x < u) /\ (x > u => x > t)
  <2>1. \A x \in S : x \in Int
    OBVIOUS
  <2>. QED BY <2>1
<1>1. /\ Older(S, t) \in SUBSET Older(S, u) /\ t \in Older(S, u) /\ t \notin Older(S, t)
      /\ Newer(S, u) \in SUBSET Newer(S, t) /\ u \in Newer(S, t) /\ u \notin Newer(S, u)
  <2>1. Older(S, t) \in SUBSET Older(S, u)
    BY <1>0 DEF Older
  <2>2. Newer(S, u) \in SUBSET Newer(S, t)
    BY <1>0 DEF Newer
  <2>3. t < u /\ u > t /\ ~ (t < t) /\ ~ (u > u)
    OBVIOUS
  <2>4. t \in Older(S, u) /\ t \notin Older(S, t) /\ u \in Newer(S, t) /\ u \notin Newer(S, u)
    BY <2>3 DEF Older, Newer
  <2>. QED BY <2>1, <2>2, <2>4
<1>2. Older(S, u) \in SUBSET S /\ Newer(S, t) \in SUBSET S
  BY DEF Older, Newer
<1>3. IsFiniteSet(Older(S, u)) /\ IsFiniteSet(Newer(S, t))
  BY <1>2, FS_Subset
<1>4. /\ Cardinality(Older(S, t)) <= Cardinality(Older(S, u)) /\ Cardinality(Older(S, t)) # Cardinality(Older(S, u))
      /\ Cardinality(Newer(S, u)) <= Cardinality(Newer(S, t)) /\ Cardinality(Newer(S, u)) # Cardinality(Newer(S, t))
  BY <1>1, <1>3, FS_Subset
<1>5. /\ Cardinality(Older(S, t)) \in Int /\ Cardinality(Older(S, u)) \in Int
      /\ Cardinality(Newer(S, t)) \in Int /\ Cardinality(Newer(S, u)) \in Int
  BY RanksTyped
<1>. QED BY <1>4, <1>5

LEMMA RanksDiffer ==
  ASSUME NEW S \in SUBSET Int, IsFiniteSet(S), NEW t \in S, NEW u \in S
  PROVE  /\ Cardinality(Older(S, t)) = Cardinality(Older(S, u)) => t = u
         /\ Cardinality(Newer(S, t)) = Cardinality(Newer(S, u)) => t = u
<1>. SUFFICES ASSUME t # u
              PROVE  Cardinality(Older(S, t)) # Cardinality(Older(S, u)) /\ Cardinality(Newer(S, t)) # Cardinality(Newer(S, u))
  OBVIOUS
<1>1. t < u \/ u < t
  OBVIOUS
<1>2. /\ Cardinality(Older(S, t)) \in Int /\ Cardinality(Older(S, u)) \in Int
      /\ Cardinality(Newer(S, t)) \in Int /\ Cardinality(Newer(S, u)) \in Int
  BY RanksTyped
<1>. QED BY <1>1, <1>2, RanksGrow

LEMMA NthIs ==
  ASSUME NEW S \in SUBSET Int, IsFiniteSet(S), NEW i \in 1 .. Cardinality(S)
  PROVE  Nth(S, i) \in S /\ Cardinality(Older(S, Nth(S, i))) = i - 1
<1>. DEFINE f == [t \in S |-> Cardinality(Older(S, t))]
<1>1. f \in [S -> 0 .. Cardinality(S) - 1] /\ \A t, u \in S : f[t] = f[u] => t = u
  BY RanksTyped, RanksDiffer
<1>2. i - 1 \in 0 .. Cardinality(S) - 1
  BY FS_CardinalityType
<1>3. \E t \in S : f[t] = i - 1
  <2>. HIDE DEF f
  <2>. QED BY <1>1, <1>2, RankOnto
<1>4. \E t \in S : Cardinality(Older(S, t)) = i - 1
  BY <1>3
<1>5. Nth(S, i) = CHOOSE t \in S : Cardinality(Older(S, t)) = i - 1
  BY DEF Nth, Older
<1>. QED BY <1>4, <1>5

\* The newest are as many as the limit allows, and newer than the others.
LEMMA NewestAre ==
  ASSUME NEW S \in SUBSET Int, IsFiniteSet(S)
  PROVE  /\ Newest(S) \subseteq S /\ IsFiniteSet(Newest(S)) /\ Cardinality(Newest(S)) \in Nat
         /\ Cardinality(Newest(S)) <= HISTORY_LIMIT
         /\ \A e \in S \ Newest(S) :
               Cardinality(Newest(S)) = HISTORY_LIMIT /\ \A t \in Newest(S) : e < t
<1>. DEFINE N == Newest(S)
            n == Cardinality(S)
            k == IF n < HISTORY_LIMIT THEN n ELSE HISTORY_LIMIT
            rank(t) == Cardinality(Newer(S, t))
            g == [t \in N |-> rank(t)]
<1>1. n \in Nat /\ HISTORY_LIMIT \in Nat \ {0} /\ k \in Nat
  BY FS_CardinalityType, HistAssumption
<1>2. \A t \in S : rank(t) \in 0 .. n - 1 /\ \A u \in S : (rank(t) = rank(u) => t = u)
  BY RanksTyped, RanksDiffer
<1>3. N = {t \in S : rank(t) < HISTORY_LIMIT} /\ N \in SUBSET S
  BY DEF Newest, Newer
<1>4. IsFiniteSet(N) /\ Cardinality(N) \in Nat
  BY <1>3, FS_Subset, FS_CardinalityType
<1>. HIDE DEF N
<1>5. \A j \in 0 .. k - 1 : \E t \in N : rank(t) = j
  <2>. SUFFICES ASSUME NEW j \in 0 .. k - 1 PROVE \E t \in N : rank(t) = j
    OBVIOUS
  <2>. DEFINE f == [t \in S |-> rank(t)]
  <2>1. f \in [S -> 0 .. n - 1] /\ \A t, u \in S : f[t] = f[u] => t = u
    BY <1>2
  <2>2. j \in 0 .. n - 1 /\ j < HISTORY_LIMIT
    BY <1>1
  <2>3. \E t \in S : f[t] = j
    <3>. HIDE DEF f
    <3>. QED BY <2>1, <2>2, RankOnto
  <2>. QED BY <1>3, <2>2, <2>3
<1>6. \A t \in N : rank(t) \in 0 .. k - 1
  BY <1>1, <1>2, <1>3
<1>7. g \in Bijection(N, 0 .. k - 1)
  <2>1. g \in [N -> 0 .. k - 1] /\ \A t, u \in N : g[t] = g[u] => t = u
    BY <1>2, <1>3, <1>6
  <2>2. \A j \in 0 .. k - 1 : \E t \in N : g[t] = j
    BY <1>5
  <2>. HIDE DEF g, k
  <2>. QED BY <2>1, <2>2 DEF Bijection, Injection, Surjection, IsInjective
<1>8. IsFiniteSet(0 .. k - 1) /\ Cardinality(0 .. k - 1) = k
  <2>. HIDE DEF k
  <2>1. k - 1 \in Int /\ 0 \in Int
    BY <1>1
  <2>2. IsFiniteSet(0 .. k - 1) /\ Cardinality(0 .. k - 1) = IF 0 > k - 1 THEN 0 ELSE k - 1 - 0 + 1
    BY <2>1, FS_Interval
  <2>. QED BY <2>2, <1>1
<1>9. Cardinality(N) = k
  <2>. HIDE DEF g, k
  <2>. QED BY <1>4, <1>7, <1>8, FS_Bijection DEF ExistsBijection
<1>10. ASSUME NEW e \in S \ N
       PROVE  k = HISTORY_LIMIT /\ \A t \in N : e < t
  <2>1. rank(e) \in 0 .. n - 1 /\ ~ (rank(e) < HISTORY_LIMIT)
    BY <1>2, <1>3
  <2>2. k = HISTORY_LIMIT
    BY <2>1, <1>1
  <2>3. ASSUME NEW t \in N PROVE e < t
    <3>1. t \in S /\ rank(t) < HISTORY_LIMIT /\ rank(t) \in Int /\ t # e
      BY <1>2, <1>3
    <3>2. ~ (t < e)
      <4>1. t < e => rank(e) < rank(t)
        BY <3>1, RanksGrow
      <4>. QED BY <4>1, <3>1, <2>1, <1>1
    <3>. QED BY <3>1, <3>2
  <2>. QED BY <2>2, <2>3
<1>11. k <= HISTORY_LIMIT
  BY <1>1
<1>. QED BY <1>3, <1>4, <1>9, <1>10, <1>11 DEF N

\* Recent tells the newest in their order.
LEMMA RecentIs ==
  ASSUME NEW S \in SUBSET Int, IsFiniteSet(S)
  PROVE  /\ Len(Recent(S)) <= HISTORY_LIMIT
         /\ \A i \in 1 .. Len(Recent(S)) : Recent(S)[i] \in S
         /\ \A i, j \in 1 .. Len(Recent(S)) : i < j => Recent(S)[i] < Recent(S)[j]
         /\ \A e \in S : \/ \E i \in 1 .. Len(Recent(S)) : Recent(S)[i] = e
                         \/ Len(Recent(S)) = HISTORY_LIMIT /\ \A i \in 1 .. Len(Recent(S)) : e < Recent(S)[i]
<1>. DEFINE N == Newest(S)
            m == Cardinality(N)
            r == Recent(S)
<1>1. /\ N \subseteq S /\ IsFiniteSet(N) /\ m \in Nat /\ m <= HISTORY_LIMIT
      /\ \A e \in S \ N : m = HISTORY_LIMIT /\ \A t \in N : e < t
  BY NewestAre
<1>2. r = [i \in 1 .. m |-> Nth(N, i)]
  BY DEF Recent
<1>. HIDE DEF N, r
<1>3. N \in SUBSET Int
  BY <1>1
<1>4. \A i \in 1 .. m : Nth(N, i) \in N /\ Cardinality(Older(N, Nth(N, i))) = i - 1
  BY <1>1, <1>3, NthIs
<1>. HIDE DEF m
<1>5. Len(r) = m /\ \A i \in 1 .. m : r[i] = Nth(N, i)
  BY <1>1, <1>2
<1>6. \A i, j \in 1 .. m : i < j => r[i] < r[j]
  <2>. SUFFICES ASSUME NEW i \in 1 .. m, NEW j \in 1 .. m, i < j PROVE r[i] < r[j]
    OBVIOUS
  <2>. DEFINE a == Nth(N, i)
              b == Nth(N, j)
  <2>1. a \in N /\ b \in N /\ a \in Int /\ b \in Int
        /\ Cardinality(Older(N, a)) = i - 1 /\ Cardinality(Older(N, b)) = j - 1
    BY <1>3, <1>4
  <2>. HIDE DEF a, b
  <2>2. a # b
    BY <2>1, <1>1
  <2>3. ~ (b < a)
    <3>1. b < a => Cardinality(Older(N, b)) < Cardinality(Older(N, a))
      BY <2>1, <1>1, <1>3, RanksGrow
    <3>2. ~ (j - 1 < i - 1)
      BY <1>1
    <3>. QED BY <3>1, <3>2, <2>1
  <2>4. a < b
    BY <2>1, <2>2, <2>3
  <2>. QED BY <2>4, <1>5 DEF a, b
<1>7. ASSUME NEW e \in N PROVE \E i \in 1 .. m : r[i] = e
  <2>1. Cardinality(Older(N, e)) \in 0 .. m - 1
    BY <1>1, <1>3, RanksTyped DEF m
  <2>2. PICK i : i = Cardinality(Older(N, e)) + 1
    OBVIOUS
  <2>3. i \in 1 .. m /\ i - 1 = Cardinality(Older(N, e))
    BY <2>1, <2>2, <1>1
  <2>4. Nth(N, i) = e
    BY <2>3, <1>1, <1>3, <1>4, RanksDiffer
  <2>. QED BY <2>3, <2>4, <1>5
<1>. QED BY <1>1, <1>4, <1>5, <1>6, <1>7 DEF r

\* A task is of a turn of the active project; one that has not built its prompt is of a
\* turn that has not ended.
LoadInv ==
    /\ DOMAIN told = TurnIds
    /\ \A t \in TurnIds : task[t] # "none" =>
          turn[t].project = hroot /\ (task[t] = "loading" => turn[t].status \in Nonterminal)

LEMMA LoadInsert ==
  ASSUME HistInv, LoadInv, NEW c, NEW source, NEW prompt, NEW outcome, InsertTurn(c, source, prompt, outcome),
         UNCHANGED <<hroot, told>>
  PROVE  LoadInv'
<1>. DEFINE n == Len(started) + 1
<1>1. n \in TurnIds
  BY DEF HistInv, TurnsInv, InsertTurn, TurnIds
<1>2. /\ \A t \in TurnIds : t # n => turn'[t] = turn[t] /\ task'[t] = task[t]
      /\ turn'[n].project = hroot /\ (task'[n] = "loading" => turn'[n].status = "running")
  BY <1>1 DEF HistInv, TurnsInv, BusyInv, InsertTurn
<1>. QED BY <1>2 DEF LoadInv, Nonterminal

LEMMA HistoryLoadSteps ==
  ASSUME HistInv, LoadInv, [HistNext]_histvars
  PROVE  LoadInv'
<1>0. DOMAIN task = TurnIds /\ DOMAIN turn = TurnIds /\ DOMAIN told = TurnIds
  BY DEF HistInv, BusyInv, TurnsInv, LoadInv
<1>1. CASE UNCHANGED <<hroot, turn, task>> /\ UNCHANGED told
  BY <1>1 DEF LoadInv
<1>2. CASE create_agent_conversation
  BY <1>1, <1>2 DEF create_agent_conversation
<1>3. ASSUME NEW o \in StartOutcomes, create_agent_turn_with_conversation(o) PROVE LoadInv'
  <2>1. InsertTurn(convs', NoTurn, NoTurn, o) /\ UNCHANGED <<hroot, told>>
    BY <1>3 DEF create_agent_turn_with_conversation
  <2>. PICK c : c = convs'
    OBVIOUS
  <2>2. InsertTurn(c, NoTurn, NoTurn, o)
    BY <2>1
  <2>. QED BY <2>1, <2>2, LoadInsert
<1>4. ASSUME NEW o \in StartOutcomes, NEW c \in ConvIds, create_agent_turn_in_conversation(c, o) PROVE LoadInv'
  BY <1>4, LoadInsert DEF create_agent_turn_in_conversation
<1>5. ASSUME NEW o \in StartOutcomes, retry_agent_turn(o) PROVE LoadInv'
  <2>1. UNCHANGED <<hroot, told>>
    BY <1>5 DEF retry_agent_turn
  <2>2. UNCHANGED <<turn, task>> \/ InsertTurn(retrying.conv, retrying.source, retrying.prompt, o)
    BY <1>5 DEF retry_agent_turn
  <2>. QED BY <1>1, <2>1, <2>2, LoadInsert
<1>6. ASSUME NEW t \in TurnIds, agent_retry_source(t) \/ BeginFileOperation(t) \/ EndFileOperation(t) PROVE LoadInv'
  BY <1>1, <1>6 DEF agent_retry_source, BeginFileOperation, EndFileOperation
<1>7. ASSUME NEW t \in TurnIds, LoadHistory(t) PROVE LoadInv'
  BY <1>0, <1>7 DEF LoadHistory, LoadInv
<1>8. ASSUME NEW t \in TurnIds, NEW s \in {"completed", "failed"}, finish_agent_turn(t, s) PROVE LoadInv'
  <2>1. /\ \A u \in TurnIds : u # t => turn'[u] = turn[u] /\ task'[u] = task[u]
        /\ task'[t] = "exiting" /\ task[t] # "none" /\ DOMAIN told' = TurnIds /\ hroot' = hroot
    BY <1>0, <1>8 DEF finish_agent_turn
  <2>2. turn'[t].project = turn[t].project
    <3>1. t \in TurnRows
      BY <2>1 DEF HistInv, BusyInv
    <3>2. IsTurn(turn[t])
      BY <3>1 DEF HistInv, TurnsInv
    <3>3. turn'[t] = turn[t] \/ turn'[t] = [turn[t] EXCEPT !.status = s]
      BY <1>0, <1>8 DEF finish_agent_turn
    <3>. QED BY <3>2, <3>3 DEF IsTurn
  <2>. QED BY <2>1, <2>2 DEF LoadInv
<1>9. ASSUME NEW t \in TurnIds, TaskRemoved(t) PROVE LoadInv'
  BY <1>0, <1>9 DEF TaskRemoved, LoadInv
<1>10. ASSUME NEW t \in TurnIds, cancel_agent_turn(t) PROVE LoadInv'
  BY <1>0, <1>10 DEF cancel_agent_turn, LoadInv
<1>11. ASSUME NEW c \in ConvIds, delete_agent_conversation(c) PROVE LoadInv'
  <2>1. UNCHANGED <<hroot, task, told>>
    BY <1>11 DEF delete_agent_conversation
  <2>2. ASSUME NEW t \in TurnIds, task[t] # "none" PROVE turn'[t].project = turn[t].project /\ turn'[t].status = turn[t].status
    <3>1. t \in TurnRows /\ turn[t].row
      BY <2>2 DEF HistInv, BusyInv, TurnRows
    <3>2. turn[t].conv # c
      BY <2>2, <3>1, <1>11 DEF delete_agent_conversation, Active
    <3>3. t \notin InConversation(c)
      BY <3>2 DEF InConversation
    <3>4. IsTurn(turn[t])
      BY <3>1 DEF HistInv, TurnsInv
    <3>5. PICK x : turn'[t] = [turn[t] EXCEPT !.source = x]
      BY <3>1, <3>3, <1>11 DEF delete_agent_conversation, Deleted
    <3>. QED BY <3>4, <3>5 DEF IsTurn
  <2>. QED BY <2>1, <2>2 DEF LoadInv
<1>12. CASE clear_agent_history
  <2>1. \A t \in TurnIds : task[t] = "none" /\ task'[t] = "none"
    BY <1>12 DEF clear_agent_history, Active
  <2>. QED BY <2>1, <1>12 DEF clear_agent_history, LoadInv
<1>13. ASSUME NEW p \in HistProjects, LeaveProject(p) PROVE LoadInv'
  <2>1. \A t \in TurnIds : task[t] = "none" /\ task'[t] = "none"
    BY <1>13 DEF LeaveProject, Active
  <2>. QED BY <2>1, <1>13 DEF LeaveProject, LoadInv
<1>14. CASE recover_incomplete_agent_turns
  BY <1>14 DEF recover_incomplete_agent_turns, LoadInv
<1>15. CASE UNCHANGED histvars
  BY <1>1, <1>15 DEF histvars
<1>. QED BY <1>2, <1>3, <1>4, <1>5, <1>6, <1>7, <1>8, <1>9, <1>10, <1>11, <1>12, <1>13, <1>14, <1>15 DEF HistNext

\* The prompt of a turn is built of what ended before it.
LEMMA LoadTells ==
  ASSUME HistInv, LoadInv, NEW t \in TurnIds, LoadHistory(t), NEW u \in TurnIds
  PROVE  TellsOwnHistory(u)
<1>. DEFINE S == Earlier(t)
<1>0. DOMAIN task = TurnIds /\ DOMAIN told = TurnIds
  BY DEF HistInv, BusyInv, LoadInv
<1>1. task[t] = "loading" /\ t \in TurnRows /\ turn[t].project = hroot /\ turn[t].status \in Nonterminal
  BY DEF LoadHistory, LoadInv, HistInv, BusyInv
<1>2. \A e \in TurnRows : e \in Int /\ e \in TurnIds
  BY DEF TurnRows, TurnIds
<1>3. ASSUME NEW e \in TurnRows, turn[e].conv = turn[t].conv, e # t PROVE e < t
  <2>1. e <= t
    BY <1>1, <1>3 DEF HistInv, LastInv
  <2>. QED BY <2>1, <1>1, <1>2, <1>3
<1>4. \A e \in TurnRows : get_agent_turn_detail(hroot, e) <=> turn[e].project = turn[t].project
  <2>. SUFFICES ASSUME NEW e \in TurnRows
                PROVE  get_agent_turn_detail(hroot, e) <=> turn[e].project = turn[t].project
    OBVIOUS
  <2>1. turn[e].row /\ conv[turn[e].conv].row /\ conv[turn[e].conv].project = turn[e].project
    BY DEF HistInv, TurnsInv, TurnRows
  <2>. QED BY <2>1, <1>1 DEF get_agent_turn_detail
<1>5. \A e \in TurnRows : e < t => e # t
  BY <1>2, <1>1
<1>6. recent_agent_conversation(hroot, turn[t].conv, t) = Recent(S)
  <2>1. {e \in TurnRows : /\ e # t
                          /\ get_agent_turn_detail(hroot, e)
                          /\ turn[e].conv = turn[t].conv
                          /\ turn[e].status \in {"completed", "failed"}} = S
    BY <1>3, <1>4, <1>5 DEF Earlier
  <2>. QED BY <2>1 DEF recent_agent_conversation
<1>7. S \in SUBSET Int /\ IsFiniteSet(S)
  <2>1. S \in SUBSET (1 .. MaxTurns)
    BY DEF Earlier, TurnRows, TurnIds
  <2>2. IsFiniteSet(1 .. MaxTurns)
    BY HistAssumption, FS_Interval
  <2>. HIDE DEF S
  <2>3. IsFiniteSet(S)
    BY <2>1, <2>2, FS_Subset
  <2>4. S \in SUBSET Int
    BY <2>1
  <2>. QED BY <2>3, <2>4
<1>8. told'[t] = Recent(S) /\ task'[t] = "running"
  BY <1>0, <1>6 DEF LoadHistory
<1>9. CASE u = t
  <2>. HIDE DEF S
  <2>1. /\ \A i \in 1 .. Len(told'[t]) : told'[t][i] \in S
        /\ \A i, j \in 1 .. Len(told'[t]) : i < j => told'[t][i] < told'[t][j]
        /\ Len(told'[t]) <= HISTORY_LIMIT
        /\ \A e \in S :
              \/ \E i \in 1 .. Len(told'[t]) : told'[t][i] = e
              \/ Len(told'[t]) = HISTORY_LIMIT /\ \A i \in 1 .. Len(told'[t]) : e < told'[t][i]
    BY <1>7, <1>8, RecentIs
  <2>. QED BY <2>1, <1>1, <1>8, <1>9 DEF TellsOwnHistory, S
<1>10. CASE u # t
  <2>1. told'[u] = told[u] /\ task'[u] = task[u]
    BY <1>0, <1>10 DEF LoadHistory
  <2>. QED BY <2>1 DEF TellsOwnHistory
<1>. QED BY <1>9, <1>10

LEMMA HistoryTells ==
  ASSUME HistInv, LoadInv, [HistNext]_histvars, NEW u \in TurnIds
  PROVE  TellsOwnHistory(u)
<1>0. DOMAIN task = TurnIds /\ DOMAIN told = TurnIds
  BY DEF HistInv, BusyInv, LoadInv
\* Steps of which no prompt is built
<1>1. ASSUME task'[u] = task[u] \/ task'[u] # "running", told'[u] = told[u] \/ told'[u] = << >>
      PROVE  TellsOwnHistory(u)
  BY <1>1 DEF TellsOwnHistory
<1>2. CASE UNCHANGED <<task, told>>
  BY <1>1, <1>2
<1>3. ASSUME NEW c, NEW source, NEW prompt, NEW outcome, InsertTurn(c, source, prompt, outcome), UNCHANGED told
      PROVE  TellsOwnHistory(u)
  <2>1. task'[u] = task[u] \/ task'[u] # "running"
    BY <1>0, <1>3 DEF InsertTurn
  <2>. QED BY <1>1, <1>3, <2>1
<1>4. CASE create_agent_conversation
  BY <1>2, <1>4 DEF create_agent_conversation
<1>5. ASSUME NEW o \in StartOutcomes, create_agent_turn_with_conversation(o) PROVE TellsOwnHistory(u)
  <2>1. InsertTurn(convs', NoTurn, NoTurn, o) /\ UNCHANGED told
    BY <1>5 DEF create_agent_turn_with_conversation
  <2>. PICK c : c = convs'
    OBVIOUS
  <2>2. InsertTurn(c, NoTurn, NoTurn, o)
    BY <2>1
  <2>. QED BY <2>1, <2>2, <1>3
<1>6. ASSUME NEW o \in StartOutcomes, NEW c \in ConvIds, create_agent_turn_in_conversation(c, o)
      PROVE  TellsOwnHistory(u)
  BY <1>3, <1>6 DEF create_agent_turn_in_conversation
<1>7. ASSUME NEW o \in StartOutcomes, retry_agent_turn(o) PROVE TellsOwnHistory(u)
  <2>1. UNCHANGED told /\ (UNCHANGED task \/ InsertTurn(retrying.conv, retrying.source, retrying.prompt, o))
    BY <1>7 DEF retry_agent_turn
  <2>. QED BY <2>1, <1>2, <1>3
<1>8. ASSUME NEW t \in TurnIds, agent_retry_source(t) \/ BeginFileOperation(t) \/ EndFileOperation(t)
      PROVE  TellsOwnHistory(u)
  BY <1>2, <1>8 DEF agent_retry_source, BeginFileOperation, EndFileOperation
<1>9. ASSUME NEW t \in TurnIds, LoadHistory(t) PROVE TellsOwnHistory(u)
  BY <1>9, LoadTells
<1>10. ASSUME NEW t \in TurnIds, NEW s \in {"completed", "failed"}, finish_agent_turn(t, s) PROVE TellsOwnHistory(u)
  <2>1. task'[u] = task[u] \/ task'[u] # "running"
    BY <1>0, <1>10 DEF finish_agent_turn
  <2>2. told'[u] = told[u] \/ told'[u] = << >>
    BY <1>0, <1>10 DEF finish_agent_turn
  <2>. QED BY <1>1, <2>1, <2>2
<1>11. ASSUME NEW t \in TurnIds, TaskRemoved(t) PROVE TellsOwnHistory(u)
  <2>1. task'[u] = task[u] \/ task'[u] # "running"
    BY <1>0, <1>11 DEF TaskRemoved
  <2>. QED BY <1>1, <1>11, <2>1 DEF TaskRemoved
<1>12. ASSUME NEW t \in TurnIds, cancel_agent_turn(t) PROVE TellsOwnHistory(u)
  <2>1. task'[u] = task[u] \/ task'[u] # "running"
    BY <1>0, <1>12 DEF cancel_agent_turn
  <2>2. told'[u] = told[u] \/ told'[u] = << >>
    BY <1>0, <1>12 DEF cancel_agent_turn
  <2>. QED BY <1>1, <2>1, <2>2
<1>13. ASSUME NEW c \in ConvIds, delete_agent_conversation(c) PROVE TellsOwnHistory(u)
  BY <1>2, <1>13 DEF delete_agent_conversation
<1>14. CASE clear_agent_history
  BY <1>2, <1>14 DEF clear_agent_history
<1>15. ASSUME NEW p \in HistProjects, LeaveProject(p) PROVE TellsOwnHistory(u)
  BY <1>2, <1>15 DEF LeaveProject
<1>16. CASE recover_incomplete_agent_turns
  <2>1. task'[u] # "running" /\ told'[u] = << >>
    BY <1>16 DEF recover_incomplete_agent_turns
  <2>. QED BY <1>1, <2>1
<1>17. CASE UNCHANGED histvars
  BY <1>2, <1>17 DEF histvars
<1>. QED BY <1>4, <1>5, <1>6, <1>7, <1>8, <1>9, <1>10, <1>11, <1>12, <1>13, <1>14, <1>15, <1>16, <1>17 DEF HistNext

\* A prompt tells the newest turns that ended before its own in its Conversation and project,
\* in their order and all of them up to the limit, whatever is started, retried, finished or
\* deleted beside it (recent_agent_conversation, run_agent_turn).
THEOREM PromptsTell == HistSpec => PromptsTellOwnHistory
<1>1. HistInit => LoadInv
  BY DEF HistInit, LoadInv
<1>2. HistInv /\ LoadInv /\ [HistNext]_histvars => LoadInv'
  BY HistoryLoadSteps
<1>3. HistInv /\ LoadInv /\ [HistNext]_histvars => [\A t \in TurnIds : TellsOwnHistory(t)]_histvars
  BY HistoryTells
<1>. QED BY <1>1, <1>2, <1>3, HistoryInvariance, PTL DEF HistSpec, PromptsTellOwnHistory

-----------------------------------------------------------------------------
(* ModelAccess *)

\* A model that is known has a tri-state tool capability.
CapValues == {"yes", "no", "unknown"}
IsModel(x) == x.known => "function_call" \in DOMAIN x /\ x.function_call.value \in CapValues
IsModels(ms) == DOMAIN ms = Models /\ \A m \in Models : IsModel(ms[m])

\* The fields of a settings file.
IsSettings(s) == DOMAIN s = {"revision", "providers", "config", "models", "routes"} /\ IsModels(s.models)

\* The file on disk is one that a save accepts.
FileInv == IsSettings(settings) /\ validate_settings(settings)

\* A command that has changed the system store and not yet the cache, or that
\* has removed a key and not yet its provider.
GuardInv ==
    \/ guard = Free
    \/ /\ guard.op \in {"remember", "delete_provider"}
       /\ guard.provider \in Providers /\ guard.provider \in settings.providers
       /\ guard.op = "remember" => keychain[guard.provider] = guard.key
       /\ guard.op = "remember" /\ guard.then # "end" =>
             guard.key = NoKey /\ validate_settings(WithoutProvider(guard.provider))
       /\ guard.op = "delete_provider" =>
             keychain[guard.provider] = NoKey /\ validate_settings(WithoutProvider(guard.provider))

\* The key p's command will still bring into the cache.
Pending(p) == guard.op = "remember" /\ guard.provider = p

\* A key belongs to a provider of the file; the cache and the reader know the
\* key of the system store, except the one the command still brings.
KeysInv ==
    /\ DOMAIN keychain = Providers /\ DOMAIN cache = Providers /\ cacheLock \in BOOLEAN
    /\ \A p \in Providers : p \notin settings.providers => keychain[p] = NoKey
    /\ \A p \in Providers : cache[p] = Uncached \/ cache[p] = keychain[p] \/ Pending(p)
    /\ cacheLock <=> reader.phase = "insert"
    /\ reader.phase = "insert" =>
          reader.provider \in Providers /\ (reader.key = keychain[reader.provider] \/ Pending(reader.provider))

\* A connection test carries the capability it found.
IsFrame(f) == {"function_call", "phase"} \subseteq DOMAIN f /\ f.function_call \in CapValues
TestsInv == DOMAIN test = Tests /\ \A i \in Tests : test[i] = Off \/ IsFrame(test[i])

ModelInv == FileInv /\ GuardInv /\ KeysInv /\ TestsInv

LEMMA TestsKept ==
  ASSUME TestsInv, UNCHANGED test
  PROVE  TestsInv'
BY DEF TestsInv

\* What a save writes is what it was given, under a new revision.
LEMMA SaveKeeps ==
  ASSUME NEW s, IsSettings(s), validate_settings(s), save_settings(s)
  PROVE  FileInv' /\ settings'.providers = s.providers
<1>1. PICK r : settings' = [s EXCEPT !.revision = r]
  BY DEF save_settings
<1>2. IsSettings(settings') /\ settings'.providers = s.providers /\ settings'.models = s.models /\ settings'.routes = s.routes
  BY <1>1 DEF IsSettings
<1>3. ASSUME NEW m PROVE HasModel(settings', m) <=> HasModel(s, m)
  BY <1>2 DEF HasModel
<1>4. ASSUME NEW c, NEW m PROVE validate_route_candidate(s, c, m, FALSE) => validate_route_candidate(settings', c, m, FALSE)
  BY <1>2, <1>3 DEF validate_route_candidate
<1>5. validate_settings(settings')
  BY <1>2, <1>3, <1>4 DEF validate_settings
<1>. QED BY <1>2, <1>5 DEF FileInv

\* A command that changes the file and no key, and forgets no provider.
LEMMA EditKeeps ==
  ASSUME ModelInv, NEW s, IsSettings(s), settings.providers \subseteq s.providers, Edit(s)
  PROVE  ModelInv'
<1>1. guard = Free /\ guard' = Free /\ FileInv' /\ settings'.providers = s.providers
      /\ UNCHANGED <<keychain, cache, cacheLock, reader>>
  BY SaveKeeps DEF Edit, Saves
<1>2. GuardInv'
  BY <1>1 DEF GuardInv
<1>3. KeysInv'
  BY <1>1 DEF ModelInv, KeysInv, Pending
<1>9. TestsInv'
  BY TestsKept DEF ModelInv, Edit
<1>. QED BY <1>1, <1>2, <1>3, <1>9 DEF ModelInv

LEMMA ProviderSteps ==
  ASSUME ModelInv, NEW p \in Providers, NEW config, save_provider(p, config)
  PROVE  ModelInv'
<1>1. PICK s : s = [settings EXCEPT !.providers = @ \cup {p}, !.config[p] = config]
  OBVIOUS
<1>2. Edit(s)
  BY <1>1 DEF save_provider
<1>3. IsSettings(s) /\ s.providers = settings.providers \cup {p}
  BY <1>1 DEF ModelInv, FileInv, IsSettings
<1>. QED BY <1>2, <1>3, EditKeeps

LEMMA ModelSteps ==
  ASSUME ModelInv, NEW m \in Models,
         \/ \E p \in Providers, e \in BOOLEAN : save_model(m, p, e)
         \/ delete_model(m)
         \/ \E type \in {"language", "image"}, fc \in {"yes", "no"} : declare_model_capabilities(m, type, fc)
  PROVE  ModelInv'
<1>0. IsSettings(settings) /\ IsModels(settings.models) /\ IsModel(settings.models[m])
  BY DEF ModelInv, FileInv, IsSettings, IsModels
<1>1. PICK s, x : s = [settings EXCEPT !.models[m] = x] /\ Edit(s) /\ IsModel(x)
  <2>1. ASSUME NEW p \in Providers, NEW e \in BOOLEAN, save_model(m, p, e)
        PROVE  \E s, x : s = [settings EXCEPT !.models[m] = x] /\ Edit(s) /\ IsModel(x)
    <3>1. CASE HasModel(settings, m)
      <4>1. PICK x : x = [settings.models[m] EXCEPT !.provider = p, !.enabled = e]
        OBVIOUS
      <4>2. IsModel(x)
        BY <1>0, <3>1, <4>1 DEF HasModel, IsModel
      <4>3. Edit([settings EXCEPT !.models[m] = x])
        BY <2>1, <3>1, <4>1 DEF save_model
      <4>. QED BY <4>2, <4>3
    <3>2. CASE ~HasModel(settings, m)
      <4>1. PICK x : x = [Described(p, "unknown", "unknown") EXCEPT !.enabled = e]
        OBVIOUS
      <4>2. IsModel(x)
        BY <4>1 DEF Described, IsModel, Cap, CapValues
      <4>3. Edit([settings EXCEPT !.models[m] = x])
        BY <2>1, <3>2, <4>1 DEF save_model
      <4>. QED BY <4>2, <4>3
    <3>. QED BY <3>1, <3>2
  <2>2. CASE delete_model(m)
    <3>1. IsModel(NoProfile) /\ Edit([settings EXCEPT !.models[m] = NoProfile])
      BY <2>2 DEF delete_model, IsModel, NoProfile
    <3>. QED BY <3>1
  <2>3. ASSUME NEW type \in {"language", "image"}, NEW fc \in {"yes", "no"}, declare_model_capabilities(m, type, fc)
        PROVE  \E s, x : s = [settings EXCEPT !.models[m] = x] /\ Edit(s) /\ IsModel(x)
    <3>1. PICK x : x = [settings.models[m] EXCEPT !.type = type, !.function_call = Cap(fc, "user_declared"),
                                                  !.reasoning = Cap("no", "user_declared")]
      OBVIOUS
    <3>2. IsModel(x)
      BY <1>0, <2>3, <3>1 DEF declare_model_capabilities, HasModel, IsModel, Cap, CapValues
    <3>3. PICK s : s = [settings EXCEPT !.models[m].type = type, !.models[m].function_call = Cap(fc, "user_declared"),
                                        !.models[m].reasoning = Cap("no", "user_declared")]
      OBVIOUS
    <3>4. s = [settings EXCEPT !.models[m] = x]
      BY <1>0, <3>1, <3>3 DEF IsSettings, IsModels
    <3>5. Edit(s)
      BY <2>3, <3>3 DEF declare_model_capabilities
    <3>. QED BY <3>2, <3>4, <3>5
  <2>. QED BY <2>1, <2>2, <2>3
<1>2. IsSettings(s) /\ s.providers = settings.providers
  BY <1>0, <1>1 DEF IsSettings, IsModels
<1>. QED BY <1>1, <1>2, EditKeeps

LEMMA RouteSteps ==
  ASSUME ModelInv,
         delete_capability_route \/ \E c \in Capabilities, m \in Models : save_capability_route(c, m)
  PROVE  ModelInv'
<1>1. PICK s, c, x : s = [settings EXCEPT !.routes[c] = x] /\ Edit(s)
  BY DEF delete_capability_route, save_capability_route
<1>2. IsSettings(s) /\ s.providers = settings.providers
  BY <1>1 DEF ModelInv, FileInv, IsSettings
<1>. QED BY <1>1, <1>2, EditKeeps

\* set and delete of a key: the system store, and the cache owed to it.
LEMMA CredentialSteps ==
  ASSUME ModelInv, NEW p \in Providers, set_credential(p) \/ delete_credential(p)
  PROVE  ModelInv'
<1>1. PICK key \in {TheKey, NoKey} :
         /\ guard = Free /\ p \in settings.providers
         /\ keychain' = [keychain EXCEPT ![p] = key]
         /\ guard' = [op |-> "remember", provider |-> p, key |-> key, then |-> "end"]
         /\ UNCHANGED <<settings, cache, cacheLock, reader>>
  BY DEF set_credential, delete_credential
<1>2. GuardInv'
  BY <1>1 DEF ModelInv, KeysInv, GuardInv
<1>3. KeysInv'
  BY <1>1 DEF ModelInv, KeysInv, Pending, Free
<1>4. FileInv'
  BY <1>1 DEF ModelInv, FileInv
<1>9. TestsInv'
  BY TestsKept DEF ModelInv, set_credential, delete_credential
<1>. QED BY <1>2, <1>3, <1>4, <1>9 DEF ModelInv

LEMMA RememberSteps ==
  ASSUME ModelInv, RememberKey
  PROVE  ModelInv'
<1>1. PICK p \in Providers :
         /\ guard.op = "remember" /\ guard.provider = p /\ ~cacheLock
         /\ p \in settings.providers /\ keychain[p] = guard.key
         /\ guard.then # "end" => guard.key = NoKey /\ validate_settings(WithoutProvider(p))
  BY DEF ModelInv, GuardInv, RememberKey, Free
<1>2. /\ cache' = [cache EXCEPT ![p] = keychain[p]]
      /\ UNCHANGED <<settings, keychain, cacheLock, reader>>
      /\ \/ guard' = Free
         \/ /\ guard' = [op |-> "delete_provider", provider |-> p, step |-> "save", key |-> guard.then]
            /\ guard.then # "end"
  BY <1>1 DEF RememberKey
<1>3. FileInv'
  BY <1>2 DEF ModelInv, FileInv
<1>4. WithoutProvider(p)' = WithoutProvider(p)
  BY <1>2 DEF WithoutProvider
<1>5. GuardInv'
  BY <1>1, <1>2, <1>4 DEF GuardInv
<1>6. KeysInv'
  BY <1>1, <1>2 DEF ModelInv, KeysInv, Pending, Free
<1>9. TestsInv'
  BY TestsKept DEF ModelInv, RememberKey
<1>. QED BY <1>3, <1>5, <1>6, <1>9 DEF ModelInv

LEMMA RemovalSteps ==
  ASSUME ModelInv, NEW p \in Providers, delete_provider(p)
  PROVE  ModelInv'
<1>1. PICK key :
         /\ guard = Free /\ p \in settings.providers /\ validate_settings(WithoutProvider(p)) /\ ~cacheLock
         /\ keychain' = [keychain EXCEPT ![p] = NoKey]
         /\ guard' = [op |-> "remember", provider |-> p, key |-> NoKey, then |-> key]
         /\ UNCHANGED <<settings, cache, cacheLock, reader>>
  BY DEF delete_provider, Saves
<1>2. FileInv'
  BY <1>1 DEF ModelInv, FileInv
<1>3. WithoutProvider(p)' = WithoutProvider(p)
  BY <1>1 DEF WithoutProvider
<1>4. GuardInv'
  BY <1>1, <1>3 DEF ModelInv, KeysInv, GuardInv
<1>5. KeysInv'
  BY <1>1 DEF ModelInv, KeysInv, Pending, Free
<1>9. TestsInv'
  BY TestsKept DEF ModelInv, delete_provider
<1>. QED BY <1>2, <1>4, <1>5, <1>9 DEF ModelInv

LEMMA ProviderSavedSteps ==
  ASSUME ModelInv, ProviderSaved
  PROVE  ModelInv'
<1>1. PICK p \in Providers :
         /\ guard.op = "delete_provider" /\ guard.provider = p
         /\ keychain[p] = NoKey /\ validate_settings(WithoutProvider(p))
  BY DEF ModelInv, GuardInv, ProviderSaved, Free
<1>2. PICK s : s = WithoutProvider(p)
  OBVIOUS
<1>3. save_settings(s) /\ guard' = Free /\ UNCHANGED <<keychain, cache, cacheLock, reader>>
  BY <1>1, <1>2 DEF ProviderSaved
<1>4. IsSettings(s) /\ s.providers = settings.providers \ {p}
  <2>1. IsModel(NoProfile)
    BY DEF IsModel, NoProfile
  <2>2. PICK gone : gone = {m \in Models : HasModel(settings, m) /\ settings.models[m].provider = p}
    OBVIOUS
  <2>3. PICK ms, rs : /\ ms = [m \in Models |-> IF m \in gone THEN NoProfile ELSE settings.models[m]]
                      /\ rs = [c \in Capabilities |-> IF settings.routes[c] \in gone THEN NoModel ELSE settings.routes[c]]
    OBVIOUS
  <2>4. s = [settings EXCEPT !.providers = @ \ {p}, !.models = ms, !.routes = rs]
    BY <1>2, <2>2, <2>3 DEF WithoutProvider
  <2>5. IsModels(ms)
    BY <2>1, <2>3 DEF ModelInv, FileInv, IsSettings, IsModels
  <2>. QED BY <2>4, <2>5 DEF ModelInv, FileInv, IsSettings
<1>5. FileInv' /\ settings'.providers = settings.providers \ {p}
  BY <1>1, <1>2, <1>3, <1>4, SaveKeeps
<1>6. GuardInv'
  BY <1>3 DEF GuardInv
<1>7. KeysInv'
  BY <1>1, <1>3, <1>5 DEF ModelInv, KeysInv, Pending, Free
<1>9. TestsInv'
  BY TestsKept DEF ModelInv, ProviderSaved
<1>. QED BY <1>5, <1>6, <1>7, <1>9 DEF ModelInv

LEMMA ProviderNotSavedSteps ==
  ASSUME ModelInv, NEW restored \in BOOLEAN, ProviderNotSaved(restored)
  PROVE  ModelInv'
<1>1. PICK p \in Providers :
         /\ guard.op = "delete_provider" /\ guard.provider = p
         /\ p \in settings.providers /\ keychain[p] = NoKey
  BY DEF ModelInv, GuardInv, ProviderNotSaved, Free
<1>2. UNCHANGED <<settings, cache, cacheLock, reader>>
  BY DEF ProviderNotSaved
<1>3. FileInv'
  BY <1>2 DEF ModelInv, FileInv
<1>9. TestsInv'
  BY TestsKept DEF ModelInv, ProviderNotSaved
<1>4. CASE guard' = Free /\ UNCHANGED keychain
  <2>1. GuardInv'
    BY <1>4 DEF GuardInv
  <2>2. KeysInv'
    BY <1>1, <1>2, <1>4 DEF ModelInv, KeysInv, Pending, Free
  <2>. QED BY <1>3, <1>9, <2>1, <2>2 DEF ModelInv
<1>5. ASSUME NEW key, keychain' = [keychain EXCEPT ![p] = key],
             guard' = [op |-> "remember", provider |-> p, key |-> key, then |-> "end"]
      PROVE  ModelInv'
  <2>1. GuardInv'
    BY <1>1, <1>2, <1>5 DEF ModelInv, KeysInv, GuardInv
  <2>2. KeysInv'
    BY <1>1, <1>2, <1>5 DEF ModelInv, KeysInv, Pending
  <2>. QED BY <1>3, <1>9, <2>1, <2>2 DEF ModelInv
<1>. QED BY <1>1, <1>4, <1>5 DEF ProviderNotSaved

\* The steps that leave the file, the system store and the command alone: the
\* cache follows the store, and the reader the key it has loaded.
LEMMA CacheSteps ==
  ASSUME ModelInv, UNCHANGED <<settings, keychain, guard>>, KeysInv', TestsInv'
  PROVE  ModelInv'
<1>1. FileInv'
  BY DEF ModelInv, FileInv
<1>2. ASSUME NEW p PROVE WithoutProvider(p)' = WithoutProvider(p)
  BY DEF WithoutProvider
<1>3. GuardInv'
  BY <1>2 DEF ModelInv, GuardInv
<1>. QED BY <1>1, <1>3 DEF ModelInv

LEMMA LoadSteps ==
  ASSUME ModelInv,
         \/ clear_session_credentials
         \/ \E p \in Providers : get_or_load(p)
         \/ InsertLoaded
         \/ discover_models
         \/ \E mode \in {"ask", "act"} : resolve_model_and_credential_for_turn(mode)
  PROVE  ModelInv'
<1>0. TestsInv'
  BY TestsKept DEF ModelInv, clear_session_credentials, get_or_load, InsertLoaded, discover_models,
     resolve_model_and_credential_for_turn
<1>1. CASE clear_session_credentials
  <2>1. cache' = [p \in Providers |-> Uncached] /\ UNCHANGED <<settings, keychain, guard, cacheLock, reader>>
    BY <1>1 DEF clear_session_credentials
  <2>2. KeysInv'
    BY <2>1 DEF ModelInv, KeysInv, Pending
  <2>. QED BY <2>1, <2>2, <1>0, CacheSteps
<1>2. ASSUME NEW p \in Providers, get_or_load(p) PROVE ModelInv'
  <2>1. UNCHANGED <<settings, keychain, cache, guard>>
    BY <1>2 DEF get_or_load
  <2>2. CASE cache[p] # Uncached
    <3>1. reader' = [phase |-> "request", provider |-> p, key |-> cache[p]] /\ cacheLock' = cacheLock /\ ~cacheLock
      BY <1>2, <2>2 DEF get_or_load
    <3>2. KeysInv'
      BY <2>1, <3>1 DEF ModelInv, KeysInv, Pending
    <3>. QED BY <2>1, <3>2, <1>0, CacheSteps
  <2>3. CASE cache[p] = Uncached
    <3>1. reader' = [phase |-> "insert", provider |-> p, key |-> keychain[p]] /\ cacheLock' = TRUE
      BY <1>2, <2>3 DEF get_or_load
    <3>2. KeysInv'
      BY <2>1, <3>1 DEF ModelInv, KeysInv, Pending
    <3>. QED BY <2>1, <3>2, <1>0, CacheSteps
  <2>. QED BY <2>2, <2>3
<1>3. CASE InsertLoaded
  <2>1. /\ reader.phase = "insert" /\ cache' = [cache EXCEPT ![reader.provider] = reader.key] /\ cacheLock' = FALSE
        /\ reader' = [reader EXCEPT !.phase = "request"] /\ UNCHANGED <<settings, keychain, guard>>
    BY <1>3 DEF InsertLoaded
  <2>2. reader'.phase # "insert"
    BY <2>1
  <2>3. KeysInv'
    BY <2>1, <2>2 DEF ModelInv, KeysInv, Pending
  <2>. QED BY <2>1, <2>3, <1>0, CacheSteps
<1>4. CASE discover_models
  <2>1. reader.phase = "request" /\ reader' = Off /\ UNCHANGED <<settings, keychain, cache, cacheLock, guard>>
    BY <1>4 DEF discover_models
  <2>2. KeysInv'
    BY <2>1 DEF ModelInv, KeysInv, Pending, Off
  <2>. QED BY <2>1, <2>2, <1>0, CacheSteps
<1>5. ASSUME NEW mode, resolve_model_and_credential_for_turn(mode) PROVE ModelInv'
  <2>1. PICK p : cache' = [cache EXCEPT ![p] = Known(p)]
    BY <1>5 DEF resolve_model_and_credential_for_turn
  <2>2. guard = Free /\ UNCHANGED <<settings, keychain, guard, cacheLock, reader>>
    BY <1>5 DEF resolve_model_and_credential_for_turn
  <2>3. KeysInv'
    BY <2>1, <2>2 DEF ModelInv, KeysInv, Pending, Known, Free
  <2>. QED BY <2>2, <2>3, <1>0, CacheSteps
<1>. QED BY <1>1, <1>2, <1>3, <1>4, <1>5

\* A test's process and its control; the model was known when it began.
LEMMA TestSteps ==
  ASSUME ModelInv, NEW i \in Tests,
         \/ \E m \in Models : test_model(i, m)
         \/ \E result \in {"ready", "error", "killed"}, reasoning \in {"yes", "unknown"} : ProbeEnds(i, result, reasoning)
         \/ run_r_json(i)
  PROVE  ModelInv'
<1>0. TestsInv /\ FileInv
  BY DEF ModelInv
<1>1. UNCHANGED <<settings, keychain, cache, cacheLock, reader, guard>>
  BY DEF test_model, ProbeEnds, run_r_json
<1>2. KeysInv'
  BY <1>1 DEF ModelInv, KeysInv, Pending
<1>3. ASSUME NEW x, x = Off \/ IsFrame(x), test' = [test EXCEPT ![i] = x] PROVE TestsInv'
  BY <1>0, <1>3 DEF TestsInv
<1>4. ASSUME NEW m \in Models, test_model(i, m) PROVE TestsInv'
  <2>1. PICK tools : tools = settings.models[m].function_call.value
    OBVIOUS
  <2>2. tools \in CapValues
    BY <1>0, <1>4, <2>1 DEF test_model, Resolvable, HasModel, FileInv, IsSettings, IsModels, IsModel
  <2>3. PICK profile : profile = resolve_model_id_with_settings(settings, m)
    OBVIOUS
  <2>4. profile.tools = tools
    BY <2>1, <2>3 DEF resolve_model_id_with_settings
  <2>5. PICK f : f = [phase |-> "running", model |-> m, profile |-> profile, result |-> "none",
                      function_call |-> profile.tools, reasoning |-> "unknown"]
    OBVIOUS
  <2>6. IsFrame(f) /\ IsFrame([f EXCEPT !.phase = "store", !.result = "error"])
    BY <2>2, <2>4, <2>5 DEF IsFrame
  <2>7. test' = [test EXCEPT ![i] = f] \/ test' = [test EXCEPT ![i] = [f EXCEPT !.phase = "store", !.result = "error"]]
    BY <1>4, <2>3, <2>5 DEF test_model
  <2>. QED BY <1>3, <2>6, <2>7
<1>5. ASSUME NEW result, NEW reasoning, ProbeEnds(i, result, reasoning) PROVE TestsInv'
  <2>1. IsFrame(test[i])
    BY <1>0, <1>5 DEF ProbeEnds, TestsInv, Off
  <2>2. PICK e : e = IF result = "ready" THEN reasoning ELSE "unknown"
    OBVIOUS
  <2>3. PICK x : x = [test[i] EXCEPT !.phase = "exited", !.result = result, !.reasoning = e]
    OBVIOUS
  <2>4. test' = [test EXCEPT ![i] = x]
    BY <1>0, <1>5, <2>2, <2>3 DEF ProbeEnds, TestsInv
  <2>5. IsFrame(x)
    BY <2>1, <2>3 DEF IsFrame
  <2>. QED BY <1>3, <2>4, <2>5
<1>6. ASSUME run_r_json(i) PROVE TestsInv'
  <2>1. IsFrame(test[i])
    BY <1>0, <1>6 DEF run_r_json, TestsInv, Off
  <2>2. IsFrame([test[i] EXCEPT !.phase = "store"])
    BY <2>1 DEF IsFrame
  <2>3. test' = [test EXCEPT ![i] = Off] \/ test' = [test EXCEPT ![i] = [test[i] EXCEPT !.phase = "store"]]
    BY <1>6 DEF run_r_json
  <2>. QED BY <1>3, <2>2, <2>3
<1>. QED BY <1>1, <1>2, <1>4, <1>5, <1>6, CacheSteps

\* Cancelling kills the process recorded last.
LEMMA CancelTestSteps ==
  ASSUME ModelInv, cancel_test
  PROVE  ModelInv'
<1>0. TestsInv
  BY DEF ModelInv
<1>1. UNCHANGED <<settings, keychain, cache, cacheLock, reader, guard>>
  BY DEF cancel_test
<1>2. KeysInv'
  BY <1>1 DEF ModelInv, KeysInv, Pending
<1>3. DOMAIN test' = Tests
  BY DEF cancel_test
<1>4. ASSUME NEW j \in Tests PROVE test'[j] = Off \/ IsFrame(test'[j])
  <2>1. CASE test'[j] = test[j]
    BY <1>0, <2>1 DEF TestsInv
  <2>2. CASE test[j].phase = "running" /\ test'[j] = [test[j] EXCEPT !.phase = "exited", !.result = "killed"]
    <3>1. IsFrame(test[j])
      BY <1>0, <2>2 DEF TestsInv, Off
    <3>. QED BY <2>2, <3>1 DEF IsFrame
  <2>. QED BY <2>1, <2>2 DEF cancel_test
<1>5. TestsInv'
  BY <1>3, <1>4 DEF TestsInv
<1>. QED BY <1>1, <1>2, <1>5, CacheSteps

\* A test's result is stored only into a file that it leaves valid.
LEMMA StoreTestSteps ==
  ASSUME ModelInv, NEW i \in Tests, StoreTest(i)
  PROVE  ModelInv'
<1>1. guard = Free /\ guard' = Free /\ UNCHANGED <<keychain, cache, cacheLock, reader>>
  BY DEF StoreTest
<1>2. PICK s : s = update_model_after_test(settings, test[i])
  OBVIOUS
<1>3. \/ validate_settings(s) /\ save_settings(s)
      \/ UNCHANGED settings
  BY <1>2 DEF StoreTest
<1>4. IsSettings(s) /\ s.providers = settings.providers
  <2>0. IsSettings(settings) /\ IsModels(settings.models) /\ IsFrame(test[i])
    BY DEF ModelInv, FileInv, IsSettings, TestsInv, StoreTest, Off
  <2>1. PICK m : m = test[i].model
    OBVIOUS
  <2>2. PICK old : old = settings.models[m]
    OBVIOUS
  <2>3. PICK fc : fc = Observed(old.function_call, test[i].function_call)
    OBVIOUS
  <2>4. PICK re, la : re = Observed(old.reasoning, test[i].reasoning) /\ la = test[i].result
    OBVIOUS
  <2>5. PICK x : x = [old EXCEPT !.last = la, !.function_call = fc, !.reasoning = re]
    OBVIOUS
  <2>6. s = [settings EXCEPT !.models[m] = x]
    BY <1>2, <2>0, <2>1, <2>2, <2>3, <2>4, <2>5 DEF update_model_after_test, IsSettings, IsModels
  <2>7. m \in Models => IsModel(x)
    <3>1. ASSUME m \in Models, x.known PROVE fc.value \in CapValues /\ "function_call" \in DOMAIN old
      BY <2>0, <2>2, <2>3, <2>5, <3>1 DEF IsModels, IsModel, IsFrame, Observed, Cap
    <3>. QED BY <2>5, <3>1 DEF IsModel
  <2>. QED BY <2>0, <2>6, <2>7 DEF IsSettings, IsModels
<1>5. FileInv' /\ settings'.providers = settings.providers
  BY <1>3, <1>4, SaveKeeps DEF ModelInv, FileInv
<1>6. GuardInv'
  BY <1>1 DEF GuardInv
<1>7. KeysInv'
  BY <1>1, <1>5 DEF ModelInv, KeysInv, Pending
<1>8. TestsInv'
  <2>1. test' = [test EXCEPT ![i] = Off]
    BY DEF StoreTest
  <2>. QED BY <2>1 DEF ModelInv, TestsInv
<1>. QED BY <1>5, <1>6, <1>7, <1>8 DEF ModelInv

LEMMA DeathSteps ==
  ASSUME ModelInv, DesktopDies
  PROVE  ModelInv'
<1>1. /\ cache' = [p \in Providers |-> Uncached] /\ cacheLock' = FALSE /\ reader' = Off /\ guard' = Free
      /\ UNCHANGED <<settings, keychain>> /\ test' = [i \in Tests |-> Off]
  BY DEF DesktopDies
<1>2. FileInv'
  BY <1>1 DEF ModelInv, FileInv
<1>3. KeysInv'
  BY <1>1 DEF ModelInv, KeysInv, Pending, Off, Free
<1>. QED BY <1>1, <1>2, <1>3 DEF ModelInv, GuardInv, TestsInv

\* The file a desktop starts with, or the V1 file it finds, is valid.
LEMMA DefaultValid ==
  ASSUME NEW p \in Providers, NEW m \in Models, NEW s, NEW x,
         IsSettings(s), s.providers = {p},
         s.models = [n \in Models |-> IF n = m THEN x ELSE NoProfile],
         s.routes = [c \in Capabilities |-> IF c = "agent.chat" THEN m ELSE NoModel],
         x.known, x.provider = p, x.enabled, x.type \in {"language", "unknown"},
         validate_model(x)
  PROVE  validate_settings(s)
<1>1. ASSUME NEW n PROVE HasModel(s, n) <=> n = m
  BY DEF HasModel, NoProfile
<1>2. s.models[m] = x /\ s.routes["agent.chat"] = m /\ m # NoModel
      /\ \A c \in Capabilities : s.routes[c] # NoModel => c = "agent.chat"
  BY ModelsAssumption DEF Capabilities
<1>3. validate_route_candidate(s, "agent.chat", m, FALSE)
  BY <1>1, <1>2 DEF validate_route_candidate, standard_route_contract
<1>. QED BY <1>1, <1>2, <1>3 DEF validate_settings

\* The file is always one a save accepts; a key has a provider, and the cache
\* and the reader know the key of the system store, except the one that a
\* command under the settings lock still brings (agent_llm.rs).
THEOREM ModelInvariance == ModelSpec => []ModelInv
<1>1. ModelInit => ModelInv
  <2>. SUFFICES ASSUME ModelInit PROVE ModelInv
    OBVIOUS
  <2>1. GuardInv /\ KeysInv /\ TestsInv
    BY DEF ModelInit, GuardInv, KeysInv, TestsInv, Off, Free, Pending
  <2>2. PICK p \in Providers, m \in Models :
           settings = default_settings(p, m) \/ \E fc \in {"yes", "unknown"} : settings = migrate_settings_v1(p, m, fc)
    BY DEF ModelInit
  <2>3. CASE settings = default_settings(p, m)
    <3>1. PICK x : x = Described(p, "yes", "aisdk_catalog")
      OBVIOUS
    <3>2. x.known /\ x.provider = p /\ x.enabled /\ x.type \in {"language", "unknown"} /\ validate_model(x) /\ IsModel(x)
      BY <3>1 DEF IsModel, CapValues, Described, validate_model, validate_capability_value, Cap
    <3>3. /\ IsSettings(settings) /\ settings.providers = {p}
          /\ settings.models = [n \in Models |-> IF n = m THEN x ELSE NoProfile]
          /\ settings.routes = [c \in Capabilities |-> IF c = "agent.chat" THEN m ELSE NoModel]
      BY <2>3, <3>1, <3>2 DEF default_settings, IsSettings, IsModels, IsModel, NoProfile
    <3>4. validate_settings(settings)
      BY <3>2, <3>3, DefaultValid
    <3>. QED BY <2>1, <3>3, <3>4 DEF ModelInv, FileInv
  <2>4. ASSUME NEW fc \in {"yes", "unknown"}, settings = migrate_settings_v1(p, m, fc) PROVE FileInv
    <3>1. PICK x : x = [Described(p, fc, IF fc = "unknown" THEN "unknown" ELSE "user_declared") EXCEPT !.type = "unknown"]
      OBVIOUS
    <3>2. x.known /\ x.provider = p /\ x.enabled /\ x.type = "unknown" /\ validate_model(x) /\ IsModel(x)
      BY <2>4, <3>1 DEF IsModel, CapValues, Described, validate_model, validate_capability_value, Cap
    <3>3. PICK d : d = default_settings(p, m)
      OBVIOUS
    <3>4. settings = [d EXCEPT !.revision = 0, !.models[m] = x]
      BY <2>4, <3>1, <3>3 DEF migrate_settings_v1
    <3>5. /\ IsSettings(settings) /\ settings.providers = {p}
          /\ settings.models = [n \in Models |-> IF n = m THEN x ELSE NoProfile]
          /\ settings.routes = [c \in Capabilities |-> IF c = "agent.chat" THEN m ELSE NoModel]
      BY <3>2, <3>3, <3>4 DEF default_settings, IsSettings, IsModels, IsModel, NoProfile
    <3>. QED BY <3>2, <3>5, DefaultValid DEF FileInv
  <2>. QED BY <2>1, <2>2, <2>3, <2>4 DEF ModelInv
<1>2. ModelInv /\ [ModelNext]_modelvars => ModelInv'
  <2>. SUFFICES ASSUME ModelInv, [ModelNext]_modelvars PROVE ModelInv'
    OBVIOUS
  <2>1. CASE UNCHANGED modelvars
    <3>1. UNCHANGED <<settings, keychain, guard>> /\ KeysInv' /\ TestsInv'
      BY <2>1 DEF modelvars, ModelInv, KeysInv, Pending, TestsInv
    <3>. QED BY <3>1, CacheSteps
  <2>2. CASE ModelNext
    BY <2>2, ProviderSteps, ModelSteps, RouteSteps, CredentialSteps, RememberSteps, RemovalSteps, ProviderSavedSteps,
       ProviderNotSavedSteps, LoadSteps, TestSteps, CancelTestSteps, StoreTestSteps, DeathSteps DEF ModelNext
  <2>. QED BY <2>1, <2>2
<1>. QED BY <1>1, <1>2, PTL DEF ModelSpec

\* What the settings page shows of a valid file is what a turn resolves.
LEMMA ValidTells ==
  ASSUME FileInv
  PROVE  ViewTellsResolution
<1>. DEFINE chat == settings.routes["agent.chat"]
            act == settings.routes["agent.act"]
            used == IF act = NoModel THEN chat ELSE act
<1>0. "agent.chat" \in Capabilities /\ "agent.act" \in Capabilities
  BY DEF Capabilities
<1>1. /\ chat # NoModel /\ validate_route_candidate(settings, "agent.chat", chat, FALSE)
      /\ act # NoModel => validate_route_candidate(settings, "agent.act", act, FALSE)
  BY <1>0 DEF FileInv, validate_settings
<1>2. ASSUME NEW m, HasModel(settings, m) PROVE settings.models[m].provider \in settings.providers
  BY <1>2 DEF FileInv, validate_settings, HasModel
<1>3. ASSUME NEW c \in Capabilities, NEW m, validate_route_candidate(settings, c, m, FALSE)
      PROVE  Resolvable(settings, m) /\ settings.models[m].type \in {"unknown", "language"}
  BY <1>2, <1>3 DEF validate_route_candidate, Resolvable, standard_route_contract
<1>4. Resolvable(settings, chat) /\ Resolvable(settings, used) /\ settings.models[used].type \in {"unknown", "language"}
  BY <1>0, <1>1, <1>3
<1>5. settings.routes[RouteOf(settings, "ask")] = chat /\ settings.routes[RouteOf(settings, "act")] = used
  BY DEF RouteOf
<1>6. resolve_model_for_turn(settings, "ask")
  BY <1>4, <1>5 DEF resolve_model_for_turn
<1>7. resolve_model_for_turn(settings, "act") <=> settings.models[used].function_call.value = "yes"
  BY <1>4, <1>5 DEF resolve_model_for_turn
<1>8. HasModel(settings, used) /\ settings.models[used].function_call.value \in CapValues
  BY <1>4 DEF Resolvable, HasModel, FileInv, IsSettings, IsModels, IsModel
<1>9. /\ route_compatibility(settings, "agent.act") = "compatible" =>
            settings.models[used].function_call.value = "yes"
      /\ route_compatibility(settings, "agent.act") \in {"incompatible", "unassigned"} =>
            settings.models[used].function_call.value = "no"
  BY <1>4, <1>8 DEF route_compatibility, standard_route_contract, CapValues
<1>. QED BY <1>6, <1>7, <1>9 DEF ViewTellsResolution

\* What the user sees of keys and routes is what a turn finds (agent_llm.rs
\* build_capability_route_view, resolve_model_and_credential_for_turn).
THEOREM SettingsTold == ModelSpec => []SettingsTellTurns
<1>1. ModelInv => SettingsTellTurns
  <2>. SUFFICES ASSUME ModelInv PROVE SettingsTellTurns
    OBVIOUS
  <2>1. KeysFollowProviders
    BY DEF ModelInv, KeysInv, Pending, Free, KeysFollowProviders
  <2>. QED BY <2>1, ValidTells DEF ModelInv, SettingsTellTurns
<1>. QED BY <1>1, ModelInvariance, PTL

-----------------------------------------------------------------------------
(* GitReview *)

IsRepo(r) == r = [head |-> r.head, index |-> r.index, work |-> r.work, inst |-> r.inst, commit |-> r.commit]
IsCall(c) == c = [op |-> c.op, step |-> c.step, root |-> c.root, staged |-> c.staged, n |-> c.n,
                  hunks |-> c.hunks, clean |-> c.clean]

\* The revisions of a repository r of project p.
FileRev(p, r, kind) ==
    [repository |-> [root |-> p, inst |-> r.inst, commit |-> r.commit],
     status |-> <<Letter(r.head, r.index), Letter(r.index, r.work)>>,
     index |-> r.index, head |-> r.head,
     working |-> IF kind = "staged" THEN <<"staged-view">> ELSE <<"working", r.work>>]
TreeRev(p, r) ==
    [repository |-> [root |-> p, inst |-> r.inst, commit |-> r.commit], status |-> <<>>,
     index |-> r.index, head |-> <<>>, working |-> <<"tree">>]

KindOf(gop) == IF gop = "commit" THEN "tree" ELSE IF OnStaged(gop) THEN "staged" ELSE "working"
RevOf(kind, p, r) == IF kind = "tree" THEN TreeRev(p, r) ELSE FileRev(p, r, kind)

\* The hunks a view of this kind shows.
Shows(kind, r) ==
    IF kind = "staged" THEN review_hunks(r.head, r.index)
    ELSE IF r.index = NoFile THEN <<>> ELSE review_hunks(r.index, r.work)
ViewKind(staged) == IF staged THEN "staged" ELSE "working"

GuardedSteps == {"diff", "revision", "write"}
ReviewOps == {"review_diff", "staged_revision"}

\* A view keeps the revision of the repository it saw; unless somebody wrote meanwhile its
\* hunks are those of that repository.
ViewInv ==
    view.kind # "none" =>
        /\ view.kind \in {"working", "staged", "tree"} /\ IsRepo(view.seen)
        /\ view.revision = RevOf(view.kind, view.root, view.seen)
        /\ view.clean /\ view.kind # "tree" => view.hunks = Shows(view.kind, view.seen)

\* A write that was admitted is one of the view's project; what nobody wrote to is still
\* what the call read.
CallInv ==
    /\ IsCall(gcall)
    /\ gcall.step # "none" => gcall.root \in GitProjects
    /\ gcall.step \in GuardedSteps => gcall.op \in GitOps \cup ReviewOps
    /\ gcall.step = "write" => gcall.op \in GitOps
    /\ gcall.op \in GitOps => view.kind = KindOf(gcall.op)
    /\ gcall.op \in GitOps \ {"commit"} => ViewKind(gcall.staged) = KindOf(gcall.op)

ReadInv ==
    /\ gcall.step = "write" => view.root = gcall.root
    /\ gcall.step = "write" /\ gcall.clean => view.revision = RevOf(view.kind, gcall.root, repo[gcall.root])
    /\ gcall.step \in {"revision", "write"} /\ gcall.clean /\ WithDiff(gcall.op) =>
          gcall.hunks = Shows(ViewKind(gcall.staged), repo[gcall.root])

ReposInv == DOMAIN repo = GitProjects /\ open \in GitProjects /\ \A p \in GitProjects : IsRepo(repo[p])

GitInv == ReposInv /\ ViewInv /\ CallInv /\ ReadInv

LEMMA RevisionsAre ==
  ASSUME NEW p, NEW staged
  PROVE  /\ file_revision(p, staged) = FileRev(p, repo[p], ViewKind(staged))
         /\ staged_revision(p) = TreeRev(p, repo[p])
BY DEF file_revision, staged_revision, repository_revision, FileRev, TreeRev, ViewKind

LEMMA DiffShows ==
  ASSUME NEW r, NEW staged
  PROVE  diff_output(r, staged) = Shows(ViewKind(staged), r)
BY DEF diff_output, Shows, ViewKind

\* A revision tells the project, the directory, the commit, the index and, for a working
\* view, the file.
LEMMA RevisionTells ==
  ASSUME NEW kind \in {"working", "staged", "tree"}, NEW p, NEW q, NEW r, NEW s, RevOf(kind, p, r) = RevOf(kind, q, s)
  PROVE  /\ p = q /\ r.inst = s.inst /\ r.commit = s.commit /\ r.index = s.index
         /\ kind # "tree" => r.head = s.head
         /\ kind = "working" => r.work = s.work
<1>. DEFINE a == RevOf(kind, p, r)
            b == RevOf(kind, q, s)
<1>1. a.repository = [root |-> p, inst |-> r.inst, commit |-> r.commit] /\ a.index = r.index
      /\ b.repository = [root |-> q, inst |-> s.inst, commit |-> s.commit] /\ b.index = s.index
  BY DEF RevOf, FileRev, TreeRev
<1>2. kind # "tree" => a.head = r.head /\ b.head = s.head
  BY DEF RevOf, FileRev
<1>3. kind = "working" => a.working = <<"working", r.work>> /\ b.working = <<"working", s.work>>
  BY DEF RevOf, FileRev
<1>4. a = b
  OBVIOUS
<1>. HIDE DEF a, b
<1>5. PICK x, y : x = [root |-> p, inst |-> r.inst, commit |-> r.commit] /\ y = [root |-> q, inst |-> s.inst, commit |-> s.commit] /\ x = y
  BY <1>1, <1>4
<1>6. x.root = p /\ x.inst = r.inst /\ x.commit = r.commit /\ y.root = q /\ y.inst = s.inst /\ y.commit = s.commit
  BY <1>5
<1>7. kind = "working" => r.work = s.work
  BY <1>3, <1>4
<1>. QED BY <1>1, <1>2, <1>4, <1>5, <1>6, <1>7

Patched(index, h, reverse) == IF h.at = 0 THEN Into(h, reverse) ELSE [index EXCEPT ![h.at] = Into(h, reverse)[1]]

\* The fields of a repository after a write.
LEMMA EffectFields ==
  ASSUME NEW r, IsRepo(r), NEW h, NEW n, NEW gop \in GitOps, NEW a, a = Effect(gop, r, h, n)
  PROVE  /\ IsRepo(a)
         /\ gop # "commit" => a.head = r.head
         /\ gop = "commit" => a.head = r.index /\ a.index = r.index
         /\ gop # "restore_file" => a.work = r.work
         /\ gop = "restore_file" => a.work = r.index /\ a.index = r.index
         /\ gop = "stage_file" => a.index = r.work
         /\ gop = "unstage_file" => a.index = r.head
         /\ gop \in {"stage_hunk", "unstage_hunk"} => a.index = Patched(r.index, h[n], gop = "unstage_hunk")
<1>1. ASSUME NEW i, a = [r EXCEPT !.index = i] PROVE IsRepo(a) /\ a.index = i /\ a.head = r.head /\ a.work = r.work
  <2>1. a = [head |-> r.head, index |-> i, work |-> r.work, inst |-> r.inst, commit |-> r.commit]
    BY <1>1 DEF IsRepo
  <2>. QED BY <2>1 DEF IsRepo
<1>2. CASE gop = "stage_hunk"
  <2>1. a = [r EXCEPT !.index = Patched(r.index, h[n], FALSE)]
    BY <1>2 DEF Effect, apply_hunk, Patched
  <2>. QED BY <1>1, <1>2, <2>1
<1>3. CASE gop = "unstage_hunk"
  <2>1. a = [r EXCEPT !.index = Patched(r.index, h[n], TRUE)]
    BY <1>3 DEF Effect, apply_hunk, Patched
  <2>. QED BY <1>1, <1>3, <2>1
<1>4. CASE gop = "stage_file" \/ gop = "unstage_file"
  <2>1. (gop = "stage_file" /\ a = [r EXCEPT !.index = r.work]) \/ (gop = "unstage_file" /\ a = [r EXCEPT !.index = r.head])
    BY <1>4 DEF Effect
  <2>. QED BY <1>1, <2>1
<1>5. CASE gop = "restore_file"
  <2>1. a = [head |-> r.head, index |-> r.index, work |-> r.index, inst |-> r.inst, commit |-> r.commit]
    <3>1. a = [r EXCEPT !.work = r.index]
      BY <1>5 DEF Effect
    <3>. QED BY <3>1 DEF IsRepo
  <2>. QED BY <1>5, <2>1 DEF IsRepo
<1>6. CASE gop = "commit"
  <2>1. a = [head |-> r.index, index |-> r.index, work |-> r.work, inst |-> r.inst, commit |-> r.commit + 1]
    <3>1. a = [r EXCEPT !.head = r.index, !.commit = @ + 1]
      BY <1>6 DEF Effect
    <3>. QED BY <3>1 DEF IsRepo
  <2>. QED BY <1>6, <2>1 DEF IsRepo
<1>. QED BY <1>2, <1>3, <1>4, <1>5, <1>6 DEF GitOps

\* Two repositories with the same revision get the same from a write, in all that the
\* view tells.
LEMMA EffectsAgree ==
  ASSUME NEW gop \in GitOps, NEW r, NEW s, IsRepo(r), IsRepo(s), NEW h, NEW g, NEW n, NEW a, NEW b,
         a = Effect(gop, r, h, n), b = Effect(gop, s, g, n),
         WithDiff(gop) => h = g,
         r.index = s.index, KindOf(gop) # "tree" => r.head = s.head, KindOf(gop) = "working" => r.work = s.work
  PROVE  /\ a.head = b.head /\ a.index = b.index
         /\ KindOf(gop) = "working" => a.work = b.work
         /\ KindOf(gop) # "working" => a.work = r.work
<1>1. /\ gop # "commit" => a.head = r.head
      /\ gop = "commit" => a.head = r.index /\ a.index = r.index
      /\ gop # "restore_file" => a.work = r.work
      /\ gop = "restore_file" => a.work = r.index /\ a.index = r.index
      /\ gop = "stage_file" => a.index = r.work
      /\ gop = "unstage_file" => a.index = r.head
      /\ gop \in {"stage_hunk", "unstage_hunk"} => a.index = Patched(r.index, h[n], gop = "unstage_hunk")
  BY EffectFields
<1>2. /\ gop # "commit" => b.head = s.head
      /\ gop = "commit" => b.head = s.index /\ b.index = s.index
      /\ gop # "restore_file" => b.work = s.work
      /\ gop = "restore_file" => b.work = s.index /\ b.index = s.index
      /\ gop = "stage_file" => b.index = s.work
      /\ gop = "unstage_file" => b.index = s.head
      /\ gop \in {"stage_hunk", "unstage_hunk"} => b.index = Patched(s.index, g[n], gop = "unstage_hunk")
  BY EffectFields
<1>3. gop \in {"stage_hunk", "unstage_hunk"} => h = g
  BY DEF WithDiff
<1>. QED BY <1>1, <1>2, <1>3 DEF GitOps, KindOf, OnStaged

\* The write of an admitted call, on a repository that nobody else wrote to.
LEMMA WriteShown ==
  ASSUME GitInv, Write
  PROVE  WriteIsShown
<1>. DEFINE p == gcall.root
            r == repo[p]
            s == view.seen
<1>1. gcall.step = "write" /\ repo' = [repo EXCEPT ![p] = Effect(gcall.op, r, gcall.hunks, gcall.n)]
  BY DEF Write
<1>2. p \in GitProjects /\ DOMAIN repo = GitProjects /\ IsRepo(r) /\ p = view.root /\ gcall.op \in GitOps
      /\ view.kind = KindOf(gcall.op) /\ (gcall.op # "commit" => ViewKind(gcall.staged) = KindOf(gcall.op))
  BY <1>1 DEF GitInv, CallInv, ReadInv, ReposInv
<1>3. view.kind \in {"working", "staged", "tree"}
  BY <1>2 DEF KindOf
<1>4. IsRepo(s) /\ view.revision = RevOf(view.kind, view.root, s)
      /\ (view.clean /\ view.kind # "tree" => view.hunks = Shows(view.kind, s))
  BY <1>3 DEF GitInv, ViewInv
<1>5. ASSUME gcall.clean, view.clean
      PROVE  /\ r.inst = s.inst
             /\ LET a == Effect(gcall.op, r, gcall.hunks, gcall.n)
                    b == Effect(gcall.op, s, view.hunks, gcall.n)
                IN  /\ a.head = b.head /\ a.index = b.index
                    /\ view.kind = "working" => a.work = b.work
                    /\ view.kind # "working" => a.work = r.work
  <2>1. view.revision = RevOf(view.kind, p, r)
    BY <1>1, <1>5, Zenon DEF GitInv, ReadInv
  <2>2. r.inst = s.inst /\ r.index = s.index /\ (view.kind # "tree" => r.head = s.head)
        /\ (view.kind = "working" => r.work = s.work)
    <3>1. RevOf(view.kind, p, r) = RevOf(view.kind, view.root, s)
      BY <1>4, <2>1
    <3>. QED BY <1>3, <3>1, RevisionTells
  <2>3. ASSUME WithDiff(gcall.op) PROVE gcall.hunks = view.hunks
    <3>1. gcall.hunks = Shows(ViewKind(gcall.staged), r)
      BY <1>1, <1>5, <2>3, Zenon DEF GitInv, ReadInv
    <3>2. gcall.op # "commit" /\ view.kind \in {"working", "staged"} /\ ViewKind(gcall.staged) = view.kind
      BY <1>2, <2>3 DEF KindOf, OnStaged, WithDiff
    <3>3. view.hunks = Shows(view.kind, s)
      BY <1>4, <1>5, <3>2
    <3>4. Shows(view.kind, r) = Shows(view.kind, s)
      BY <2>2, <3>2 DEF Shows
    <3>. QED BY <3>1, <3>2, <3>3, <3>4
  <2>. QED BY <1>2, <1>4, <2>2, <2>3, EffectsAgree
<1>6. repo'[p] = Effect(gcall.op, r, gcall.hunks, gcall.n)
  BY <1>1, <1>2
<1>. QED BY <1>2, <1>5, <1>6 DEF WriteIsShown

\* A new call.
LEMMA BeginsGuarded ==
  ASSUME GitInv, NEW gop, NEW staged, NEW n, Begins(gop, staged, n),
         gop \in GitOps \cup ReviewOps \cup {"ours", "theirs", "mark"},
         gop \in GitOps => view.kind = KindOf(gop),
         gop \in GitOps \ {"commit"} => ViewKind(staged) = KindOf(gop)
  PROVE  GitInv'
<1>1. PICK step : /\ step = IF WithDiff(gop) THEN "diff"
                            ELSE IF gop \in {"ours", "theirs"} THEN "checkout"
                            ELSE IF gop = "mark" THEN "add" ELSE "revision"
                  /\ gcall' = [NoCall EXCEPT !.op = gop, !.root = open, !.staged = staged, !.n = n, !.step = step]
  BY DEF Begins
<1>2. UNCHANGED <<repo, open, view>>
  BY DEF Begins
<1>3. gcall' = [op |-> gop, step |-> step, root |-> open, staged |-> staged, n |-> n, hunks |-> <<>>, clean |-> TRUE]
  BY <1>1 DEF NoCall
<1>4. IsCall(gcall)' /\ gcall'.op = gop /\ gcall'.step = step /\ gcall'.root = open /\ gcall'.staged = staged
  BY <1>3 DEF IsCall
<1>5. open \in GitProjects
  BY DEF GitInv, ReposInv
<1>6. CallInv'
  <2>1. step \in GuardedSteps => gop \in GitOps \cup ReviewOps
    BY <1>1 DEF GuardedSteps, WithDiff
  <2>2. step # "write"
    BY <1>1
  <2>. QED BY <1>2, <1>4, <1>5, <2>1, <2>2 DEF CallInv
<1>7. ReadInv'
  <2>1. step # "write" /\ (step = "revision" => ~WithDiff(gop))
    BY <1>1
  <2>. QED BY <1>4, <2>1 DEF ReadInv
<1>. QED BY <1>2, <1>6, <1>7 DEF GitInv, ReposInv, ViewInv

LEMMA BeginSteps ==
  ASSUME GitInv,
         \/ \E staged \in BOOLEAN : BeginReviewDiff(staged)
         \/ BeginStagedRevision
         \/ \E gop \in GitOps : \E n \in 0 .. Places : BeginWrite(gop, n)
         \/ \E how \in {"ours", "theirs", "mark"} : BeginResolve(how)
  PROVE  GitInv'
<1>1. ASSUME NEW staged \in BOOLEAN, BeginReviewDiff(staged) PROVE GitInv'
  <2>1. Begins("review_diff", staged, 0) /\ "review_diff" \in ReviewOps /\ "review_diff" \notin GitOps
    BY <1>1 DEF BeginReviewDiff, ReviewOps, GitOps
  <2>. QED BY <2>1, BeginsGuarded
<1>2. ASSUME BeginStagedRevision PROVE GitInv'
  <2>1. PICK staged : Begins("staged_revision", staged, 0)
    BY <1>2 DEF BeginStagedRevision
  <2>2. "staged_revision" \in ReviewOps /\ "staged_revision" \notin GitOps
    BY DEF ReviewOps, GitOps
  <2>. QED BY <2>1, <2>2, BeginsGuarded
<1>3. ASSUME NEW gop \in GitOps, NEW n, BeginWrite(gop, n) PROVE GitInv'
  <2>1. PICK staged : Begins(gop, staged, n) /\ ViewKind(staged) = ViewKind(OnStaged(gop))
    BY <1>3 DEF BeginWrite
  <2>2. view.kind = KindOf(gop)
    BY <1>3 DEF BeginWrite, KindOf
  <2>3. gop # "commit" => ViewKind(staged) = KindOf(gop)
    BY <2>1 DEF ViewKind, KindOf
  <2>. QED BY <2>1, <2>2, <2>3, BeginsGuarded
<1>4. ASSUME NEW how \in {"ours", "theirs", "mark"}, BeginResolve(how) PROVE GitInv'
  <2>1. PICK staged : Begins(how, staged, 0)
    BY <1>4 DEF BeginResolve
  <2>2. how \notin GitOps
    BY DEF GitOps
  <2>. QED BY <2>1, <2>2, BeginsGuarded
<1>. QED BY <1>1, <1>2, <1>3, <1>4

\* The call is over: what is left is the view.
LEMMA CallOver ==
  ASSUME GitInv, gcall' = NoCall, ReposInv', ViewInv'
  PROVE  GitInv'
<1>1. IsCall(gcall)' /\ gcall'.op = "none" /\ gcall'.step = "none"
  BY DEF NoCall, IsCall
<1>. QED BY <1>1 DEF GitInv, CallInv, ReadInv, GuardedSteps, GitOps

LEMMA ReadDiffSteps ==
  ASSUME GitInv, ReadDiff
  PROVE  GitInv'
<1>1. gcall.step = "diff" /\ UNCHANGED <<repo, open, view>>
      /\ gcall' = [gcall EXCEPT !.step = "revision", !.hunks = diff_output(repo[gcall.root], gcall.staged)]
  BY DEF ReadDiff
<1>2. IsCall(gcall)
  BY DEF GitInv, CallInv
<1>3. PICK h : h = diff_output(repo[gcall.root], gcall.staged)
  OBVIOUS
<1>4. h = Shows(ViewKind(gcall.staged), repo[gcall.root])
  BY <1>3, DiffShows
<1>5. gcall' = [op |-> gcall.op, step |-> "revision", root |-> gcall.root, staged |-> gcall.staged, n |-> gcall.n,
                hunks |-> h, clean |-> gcall.clean]
  BY <1>1, <1>2, <1>3 DEF IsCall
<1>6. IsCall(gcall)' /\ gcall'.op = gcall.op /\ gcall'.step = "revision" /\ gcall'.root = gcall.root
      /\ gcall'.staged = gcall.staged /\ gcall'.hunks = h
  BY <1>5 DEF IsCall
<1>7. CallInv'
  BY <1>1, <1>6 DEF GitInv, CallInv, GuardedSteps
<1>8. ReadInv'
  BY <1>1, <1>4, <1>6 DEF ReadInv
<1>. QED BY <1>1, <1>7, <1>8 DEF GitInv, ReposInv, ViewInv

LEMMA ReadRevisionSteps ==
  ASSUME GitInv, ReadRevision
  PROVE  GitInv'
<1>. DEFINE p == gcall.root
            r == repo[p]
            tree == gcall.op \in {"staged_revision", "commit"}
            kind == IF tree THEN "tree" ELSE ViewKind(gcall.staged)
<1>1. gcall.step = "revision" /\ UNCHANGED <<repo, open>> /\ gcall.op \in GitOps \cup ReviewOps /\ p \in GitProjects /\ IsCall(gcall)
  BY DEF ReadRevision, GitInv, CallInv, GuardedSteps
<1>2. PICK revision : revision = IF tree THEN staged_revision(p) ELSE file_revision(p, gcall.staged)
  OBVIOUS
<1>3. revision = RevOf(kind, p, r) /\ kind \in {"working", "staged", "tree"}
  BY <1>2, RevisionsAre DEF RevOf, ViewKind
<1>4. ReposInv'
  BY <1>1 DEF GitInv, ReposInv
<1>5. CASE gcall.op \in ReviewOps
  <2>1. gcall' = NoCall /\
        view' = [kind |-> kind, root |-> p, hunks |-> gcall.hunks, revision |-> revision,
                 seen |-> [head |-> r.head, index |-> r.index, work |-> r.work, commit |-> r.commit, inst |-> r.inst],
                 clean |-> gcall.clean]
    BY <1>2, <1>5 DEF ReadRevision, ReviewOps, ViewKind
  <2>2. PICK s : s = [head |-> r.head, index |-> r.index, work |-> r.work, commit |-> r.commit, inst |-> r.inst]
    OBVIOUS
  <2>3. IsRepo(s) /\ s.head = r.head /\ s.index = r.index /\ s.work = r.work /\ s.commit = r.commit /\ s.inst = r.inst
    BY <2>2 DEF IsRepo
  <2>4. view'.kind = kind /\ view'.root = p /\ view'.hunks = gcall.hunks /\ view'.revision = revision /\ view'.seen = s
        /\ view'.clean = gcall.clean
    BY <2>1, <2>2
  <2>5. RevOf(kind, p, s) = RevOf(kind, p, r) /\ Shows(kind, s) = Shows(kind, r)
    BY <2>3 DEF RevOf, TreeRev, FileRev, Shows
  <2>6. ASSUME gcall.clean, kind # "tree" PROVE gcall.hunks = Shows(kind, r)
    <3>1. WithDiff(gcall.op) /\ kind = ViewKind(gcall.staged)
      BY <1>5, <2>6 DEF WithDiff, ReviewOps
    <3>2. gcall.hunks = Shows(ViewKind(gcall.staged), r)
      BY <1>1, <2>6, <3>1, Zenon DEF GitInv, ReadInv
    <3>. QED BY <3>1, <3>2
  <2>. HIDE DEF kind, tree
  <2>7. ViewInv'
    BY <1>3, <2>3, <2>4, <2>5, <2>6 DEF ViewInv
  <2>. QED BY <1>4, <2>1, <2>7, CallOver
<1>6. CASE gcall.op \notin ReviewOps
  <2>1. UNCHANGED view /\ gcall' = IF revision = view.revision THEN [gcall EXCEPT !.step = "write"] ELSE NoCall
    BY <1>2, <1>6 DEF ReadRevision, ReviewOps
  <2>2. ViewInv'
    BY <2>1 DEF GitInv, ViewInv
  <2>3. CASE revision # view.revision
    BY <1>4, <2>1, <2>2, <2>3, CallOver
  <2>4. CASE revision = view.revision
    <3>1. gcall' = [op |-> gcall.op, step |-> "write", root |-> p, staged |-> gcall.staged, n |-> gcall.n,
                    hunks |-> gcall.hunks, clean |-> gcall.clean]
      BY <1>1, <2>1, <2>4 DEF IsCall
    <3>2. IsCall(gcall)' /\ gcall'.op = gcall.op /\ gcall'.step = "write" /\ gcall'.root = p
          /\ gcall'.staged = gcall.staged /\ gcall'.hunks = gcall.hunks /\ gcall'.clean = gcall.clean
      BY <3>1 DEF IsCall
    <3>3. gcall.op \in GitOps /\ view.kind = KindOf(gcall.op) /\ view.kind # "none"
      BY <1>1, <1>6 DEF GitInv, CallInv, KindOf
    <3>4. kind = view.kind
      <4>1. gcall.op # "staged_revision"
        BY <1>6 DEF ReviewOps
      <4>2. CASE gcall.op = "commit"
        BY <3>3, <4>2 DEF KindOf
      <4>3. CASE gcall.op # "commit"
        BY <3>3, <4>1, <4>3 DEF GitInv, CallInv
      <4>. QED BY <4>2, <4>3
    <3>5. view.revision = RevOf(view.kind, view.root, view.seen) /\ view.kind \in {"working", "staged", "tree"}
      BY <3>3 DEF GitInv, ViewInv
    <3>6. view.root = p
      <4>1. RevOf(view.kind, p, r) = RevOf(view.kind, view.root, view.seen)
        BY <1>3, <2>4, <3>4, <3>5
      <4>. QED BY <3>5, <4>1, RevisionTells
    <3>7. CallInv'
      BY <1>1, <2>1, <3>2, <3>3 DEF GitInv, CallInv
    <3>8. view.revision = RevOf(view.kind, p, r)
      BY <1>3, <2>4, <3>4
    <3>9. gcall.clean /\ WithDiff(gcall.op) => gcall.hunks = Shows(ViewKind(gcall.staged), r)
      BY <1>1, Zenon DEF GitInv, ReadInv
    <3>10. ReadInv'
      BY <1>1, <2>1, <3>2, <3>6, <3>8, <3>9 DEF ReadInv
    <3>. QED BY <1>4, <2>2, <3>7, <3>10 DEF GitInv
  <2>. QED BY <2>3, <2>4
<1>. QED BY <1>5, <1>6

LEMMA RepoSet ==
  ASSUME NEW r, IsRepo(r), NEW x
  PROVE  IsRepo([r EXCEPT !.work = x]) /\ IsRepo([r EXCEPT !.index = x]) /\ IsRepo([r EXCEPT !.inst = x])
<1>1. ASSUME NEW s, s = [r EXCEPT !.work = x] \/ s = [r EXCEPT !.index = x] \/ s = [r EXCEPT !.inst = x] PROVE IsRepo(s)
  BY <1>1 DEF IsRepo
<1>. QED BY <1>1

LEMMA ReposSet ==
  ASSUME ReposInv, NEW p \in GitProjects, NEW r, IsRepo(r), repo' = [repo EXCEPT ![p] = r], open' = open
  PROVE  ReposInv'
BY DEF ReposInv

LEMMA WriteSteps ==
  ASSUME GitInv, Write \/ Checkout \/ AddResolved \/ GitFails
  PROVE  GitInv'
<1>1. ViewInv' /\ open' = open
  BY DEF GitInv, ViewInv, Write, Checkout, AddResolved, GitFails
<1>2. ReposInv /\ (gcall.step # "none" => gcall.root \in GitProjects /\ IsRepo(repo[gcall.root]))
  BY DEF GitInv, CallInv, ReposInv
<1>3. CASE Write
  <2>1. gcall.op \in GitOps /\ gcall.step = "write" /\ gcall' = NoCall
    BY <1>3 DEF GitInv, CallInv, Write
  <2>2. PICK a : a = Effect(gcall.op, repo[gcall.root], gcall.hunks, gcall.n) /\ repo' = [repo EXCEPT ![gcall.root] = a]
    BY <1>3 DEF Write
  <2>3. IsRepo(a)
    BY <1>2, <2>1, <2>2, EffectFields
  <2>. QED BY <1>1, <1>2, <2>1, <2>2, <2>3, ReposSet, CallOver
<1>4. CASE AddResolved
  <2>1. PICK a : a = [repo[gcall.root] EXCEPT !.index = repo[gcall.root].work] /\ repo' = [repo EXCEPT ![gcall.root] = a]
    BY <1>4 DEF AddResolved
  <2>2. gcall.step = "add" /\ gcall' = NoCall
    BY <1>4 DEF AddResolved
  <2>. QED BY <1>1, <1>2, <2>1, <2>2, RepoSet, ReposSet, CallOver
<1>5. CASE GitFails
  <2>1. gcall' = NoCall /\ repo' = repo
    BY <1>5 DEF GitFails
  <2>. QED BY <1>1, <1>2, <2>1, CallOver DEF ReposInv
<1>6. CASE Checkout
  <2>1. gcall.step = "checkout" /\ gcall' = [gcall EXCEPT !.step = "add"] /\ view' = view
    BY <1>6 DEF Checkout
  <2>2. PICK w : repo' = [repo EXCEPT ![gcall.root] = [repo[gcall.root] EXCEPT !.work = w]]
    BY <1>6 DEF Checkout
  <2>3. ReposInv'
    BY <1>1, <1>2, <2>1, <2>2, RepoSet, ReposSet
  <2>4. gcall' = [op |-> gcall.op, step |-> "add", root |-> gcall.root, staged |-> gcall.staged, n |-> gcall.n,
                  hunks |-> gcall.hunks, clean |-> gcall.clean]
    BY <2>1 DEF GitInv, CallInv, IsCall
  <2>5. IsCall(gcall)' /\ gcall'.op = gcall.op /\ gcall'.step = "add" /\ gcall'.root = gcall.root /\ gcall'.staged = gcall.staged
    BY <2>4 DEF IsCall
  <2>6. CallInv' /\ ReadInv'
    BY <1>2, <2>1, <2>5 DEF GitInv, CallInv, ReadInv, GuardedSteps
  <2>. QED BY <1>1, <2>3, <2>6 DEF GitInv
<1>. QED BY <1>3, <1>4, <1>5, <1>6

\* Somebody else writes: a call on that repository is told, another sees no difference.
LEMMA OthersSteps ==
  ASSUME GitInv, NEW p \in GitProjects, NEW r, IsRepo(r), OthersWrite(p, r)
  PROVE  GitInv'
<1>1. repo' = [repo EXCEPT ![p] = r] /\ UNCHANGED <<open, view>>
      /\ gcall' = IF gcall.root = p THEN [gcall EXCEPT !.clean = FALSE] ELSE gcall
  BY DEF OthersWrite
<1>2. ReposInv' /\ ViewInv'
  BY <1>1, ReposSet DEF GitInv, ViewInv
<1>3. IsCall(gcall)
  BY DEF GitInv, CallInv
<1>4. CASE gcall.root = p
  <2>1. gcall' = [op |-> gcall.op, step |-> gcall.step, root |-> gcall.root, staged |-> gcall.staged, n |-> gcall.n,
                  hunks |-> gcall.hunks, clean |-> FALSE]
    BY <1>1, <1>3, <1>4 DEF IsCall
  <2>2. IsCall(gcall)' /\ gcall'.op = gcall.op /\ gcall'.step = gcall.step /\ gcall'.root = gcall.root
        /\ gcall'.staged = gcall.staged /\ gcall'.clean = FALSE
    BY <2>1 DEF IsCall
  <2>3. CallInv' /\ ReadInv'
    BY <1>1, <2>2 DEF GitInv, CallInv, ReadInv
  <2>. QED BY <1>2, <2>3 DEF GitInv
<1>5. CASE gcall.root # p
  <2>1. gcall' = gcall /\ CallInv'
    BY <1>1, <1>5 DEF GitInv, CallInv, IsCall
  <2>2. gcall.step # "none" => repo'[gcall.root] = repo[gcall.root]
    BY <1>1, <1>5 DEF GitInv, CallInv, ReposInv
  <2>3. ReadInv'
    BY <1>1, <2>1, <2>2, Zenon DEF GitInv, ReadInv
  <2>. QED BY <1>2, <2>1, <2>3 DEF GitInv
<1>. QED BY <1>4, <1>5

LEMMA OtherSteps ==
  ASSUME GitInv, NEW p \in GitProjects,
         SaveWork(p) \/ ChangeIndex(p) \/ CommitOutside(p) \/ Merge(p) \/ CloneAgain(p) \/ OpenOther(p)
  PROVE  GitInv'
<1>1. IsRepo(repo[p])
  BY DEF GitInv, ReposInv
<1>2. CASE SaveWork(p)
  BY <1>1, <1>2, RepoSet, OthersSteps DEF SaveWork
<1>3. CASE ChangeIndex(p)
  BY <1>1, <1>3, RepoSet, OthersSteps DEF ChangeIndex
<1>4. CASE CommitOutside(p)
  <2>1. PICK a : a = Effect("commit", repo[p], <<>>, 0) /\ OthersWrite(p, a)
    BY <1>4 DEF CommitOutside
  <2>2. "commit" \in GitOps
    BY DEF GitOps
  <2>. QED BY <1>1, <2>1, <2>2, EffectFields, OthersSteps
<1>5. CASE Merge(p)
  BY <1>1, <1>5, RepoSet, OthersSteps DEF Merge
<1>6. CASE CloneAgain(p)
  BY <1>1, <1>6, RepoSet, OthersSteps DEF CloneAgain
<1>7. CASE OpenOther(p)
  <2>1. open' = p /\ UNCHANGED <<repo, view, gcall>>
    BY <1>7 DEF OpenOther
  <2>2. ReposInv' /\ ViewInv'
    BY <2>1 DEF GitInv, ReposInv, ViewInv
  <2>3. CallInv'
    BY <2>1 DEF GitInv, CallInv, IsCall
  <2>4. ReadInv'
    BY <2>1, Zenon DEF GitInv, ReadInv
  <2>. QED BY <2>2, <2>3, <2>4 DEF GitInv
<1>. QED BY <1>2, <1>3, <1>4, <1>5, <1>6, <1>7

LEMMA GitStarts ==
  ASSUME GitInit
  PROVE  GitInv
<1>1. PICK h \in {NoFile, Base}, i \in FileTexts \cup {NoFile}, w \in FileTexts \cup {NoFile} :
         repo = [p \in GitProjects |-> [head |-> h, index |-> i, work |-> w, inst |-> 0,
                                        commit |-> IF h = NoFile THEN 0 ELSE 1]]
  BY Zenon DEF GitInit
<1>2. ReposInv
  BY <1>1 DEF ReposInv, GitInit, IsRepo
<1>3. view.kind = "none" /\ gcall = NoCall
  BY DEF GitInit, NoView
<1>4. IsCall(gcall) /\ gcall.op = "none" /\ gcall.step = "none"
  BY <1>3 DEF NoCall, IsCall
<1>. QED BY <1>2, <1>3, <1>4 DEF GitInv, ViewInv, CallInv, ReadInv, GuardedSteps, GitOps

LEMMA GitSteps ==
  ASSUME GitInv, [GitNext]_gitvars
  PROVE  GitInv'
<1>1. CASE GitNext
  BY <1>1, BeginSteps, ReadDiffSteps, ReadRevisionSteps, WriteSteps, OtherSteps DEF GitNext
<1>2. CASE UNCHANGED gitvars
  <2>1. UNCHANGED <<repo, open, view, gcall>>
    BY <1>2 DEF gitvars
  <2>2. ReposInv' /\ ViewInv' /\ CallInv'
    BY <2>1 DEF GitInv, ReposInv, ViewInv, CallInv, IsCall
  <2>3. ReadInv'
    BY <2>1, Zenon DEF GitInv, ReadInv
  <2>. QED BY <2>2, <2>3 DEF GitInv
<1>. QED BY <1>1, <1>2

\* Of all steps only Write ends an admitted call and changes a repository.
LEMMA OnlyWrite ==
  ASSUME GitInv, GitNext, gcall.step = "write", gcall' = NoCall, repo' # repo
  PROVE  Write
<1>1. NoCall.step = "none" /\ gcall # NoCall
  BY DEF NoCall
<1>2. ASSUME NEW p, NEW r, OthersWrite(p, r) PROVE FALSE
  <2>1. gcall'.step = "write"
    BY <1>2 DEF OthersWrite, GitInv, CallInv, IsCall
  <2>. QED BY <1>1, <2>1
<1>3. ASSUME NEW gop, NEW staged, NEW n, Begins(gop, staged, n) PROVE FALSE
  BY <1>1, <1>3 DEF Begins
<1>. QED BY <1>2, <1>3 DEF GitNext, BeginReviewDiff, BeginStagedRevision, BeginWrite, BeginResolve, ReadDiff, ReadRevision,
            Checkout, AddResolved, GitFails, SaveWork, ChangeIndex, CommitOutside, Merge, CloneAgain, OpenOther

\* GitInv holds whatever others do to the repositories between the commands of a call.
THEOREM GitInvariance == GitSpec => []GitInv
<1>1. GitInit => GitInv
  BY GitStarts
<1>2. GitInv /\ [GitNext]_gitvars => GitInv'
  BY GitSteps
<1>. QED BY <1>1, <1>2, PTL DEF GitSpec

\* A guarded call writes to the repository the user was shown, and, unless others write while
\* it runs, what it would have done to what was shown (review_diff and the writes of
\* git_review.rs, with expected_revision).
THEOREM WritesShown == GitSpec => WritesWhatWasShown
<1>1. GitInv /\ [GitNext]_gitvars => [WriteIsShown]_gitvars
  <2>1. ASSUME GitInv, GitNext, ~WriteIsShown PROVE FALSE
    <3>1. gcall.step = "write" /\ gcall' = NoCall /\ repo' # repo
      BY <2>1 DEF WriteIsShown
    <3>. QED BY <2>1, <3>1, OnlyWrite, WriteShown
  <2>. QED BY <2>1
<1>. QED BY <1>1, GitInvariance, PTL DEF GitSpec, WritesWhatWasShown
=============================================================================
