------------------------ MODULE EnvironmentOperations ------------------------
(***************************************************************************)
(* Reviewed changes of the project environment (renv and package           *)
(* operations): preview, the user's decision, the single-use claim and the *)
(* execution, in the direct lane (commands of the user interface) and in   *)
(* the Agent lane (crates/rho-server/src/coordinator.rs,                   *)
(* desktop/src-tauri/src/main.rs, environment_operation_requests of        *)
(* crates/rho-store/src/lib.rs).                                           *)
(*                                                                         *)
(* An actor is an Agent turn's task or one command of the interface.  Both *)
(* dispatch through dispatch_workspace_request_with_execution_id, which is *)
(* one set of actions here.                                                *)
(***************************************************************************)
EXTENDS BrokerIdentity, FiniteSets

CONSTANTS
    Requests,       \* request ids (uuids), each used once
    Turns,          \* Agent turns in Act mode, each started once
    Commands,       \* concurrent preview and respond commands
    Evidences,      \* contents of the project's environment
    Degraded,       \* the snapshot of an environment R could not describe
    Nobody,         \* no lock holder, no request, no turn
    MaxGen,         \* bound on Workspace starts
    MaxOther        \* bound on the state revisions other runs make

ASSUME EnvironmentAssumption ==
    /\ Turns \cap Commands = {}
    /\ Nobody \notin Turns \cup Commands \cup Requests
    /\ Degraded \notin Evidences /\ Evidences # {}
    /\ MaxGen \in Nat \ {0} /\ MaxOther \in Nat

Actors == Turns \cup Commands
Gens == 1 .. MaxGen
Snapshots == Evidences \cup {Degraded}

VARIABLES
    row,        \* environment_operation_requests
    run,        \* the run of each request: its status
    flagged,    \* runs.cancel_requested of that run
    granted,    \* the user sent "approve" for the request
    broker,     \* BrokerState of each context
    ctx,        \* holder of each context's mutex
    evidence,   \* what rho_environment_evidence describes
    ready,      \* state.context and state.session are Some
    gen,        \* generation of the current context
    op,         \* the cancel or restart that holds project_transition_gate
    pc,         \* where each actor is
    on,         \* the context an actor cloned
    req,        \* the request an actor works on
    say,        \* the decision a command carries, or was sent to a turn
    waiters,    \* environment_approvals: the requests with a waiter
    turn,       \* agent_turns.status
    seen,       \* the identity the turn's Agent R adopted
    live        \* approved_mutations of a turn

rowVars == <<row, run, flagged, granted>>
workVars == <<broker, ctx, evidence>>
startVars == <<ready, gen, op>>
actorVars == <<pc, on, req, say>>
turnVars == <<waiters, turn, seen, live>>
vars == <<rowVars, workVars, startVars, actorVars, turnVars>>

Decisions == {"approve", "reject", "cancel"}
Denied == {"rejected", "cancelled", "stale"}
OpenStatus == {"requested", "approved", "running"}
Status == OpenStatus \cup Denied \cup {"absent", "completed", "failed", "interrupted"}
RunStatus == {"none", "running", "completed", "failed", "interrupted"}
Outcomes == {"ok", "r_error", "lost"}

\* Labels inside the dispatcher, all under the context's mutex
Dispatching == {"claim", "snapshot", "executing", "settle", "lost", "reconcile"}
Labels == Dispatching \cup {"none", "preview", "answer", "deliver", "recheck", "idle",
                            "registering", "awaiting", "deciding", "replying", "ctxwait"}
OpSteps == {"none", "stop", "record", "drain", "take", "wait", "launch"}

Idle == [kind |-> "idle", turn |-> Nobody, step |-> "none"]
Cancelling(t, s) == [kind |-> "cancel", turn |-> t, step |-> s]
Restarting(s) == [kind |-> "restart", turn |-> Nobody, step |-> s]

\* "claimed" is run_id IS NOT NULL; source is "agent" exactly when there is a turn
NoRow == [status |-> "absent", turn |-> Nobody, at |-> NewIdentity(1),
          before |-> Degraded, claimed |-> FALSE]

Init ==
    /\ row = [q \in Requests |-> NoRow]
    /\ run = [q \in Requests |-> "none"]
    /\ flagged = [q \in Requests |-> FALSE]
    /\ granted = [q \in Requests |-> FALSE]
    /\ broker = [g \in Gens |-> Apply(NewIdentity(g), "state_capable")]
    /\ ctx = [g \in Gens |-> Nobody]
    /\ evidence \in Evidences
    /\ ready = TRUE
    /\ gen = 1
    /\ op = Idle
    /\ pc = [a \in Actors |-> "none"]
    /\ on = [a \in Actors |-> 1]
    /\ req = [a \in Actors |-> Nobody]
    /\ say = [a \in Actors |-> "cancel"]
    /\ waiters = {}
    /\ turn = [t \in Turns |-> "absent"]
    /\ seen = [t \in Turns |-> NewIdentity(1)]
    /\ live = [t \in Turns |-> {}]

-----------------------------------------------------------------------------
(* Helpers *)

Free(a) == ctx[on[a]] = Nobody
Goto(a, label) == pc' = [pc EXCEPT ![a] = label]
Lock(a) == ctx' = [ctx EXCEPT ![on[a]] = a]
SetStatus(q, s) == row' = [row EXCEPT ![q].status = s]
Direct(q) == row[q].status # "absent" /\ row[q].turn = Nobody

\* A command returns; a turn's task answers its Agent R
Leave(a) ==
    /\ ctx' = [ctx EXCEPT ![on[a]] = IF @ = a THEN Nobody ELSE @]
    /\ Goto(a, IF a \in Turns THEN "replying" ELSE "none")
    /\ req' = [req EXCEPT ![a] = Nobody]

\* capture_environment_snapshot_id: what R says, or the degraded snapshot
Captured == {evidence, Degraded}

\* preview_environment_operation inserts the reviewed row
Previewed(g, t, snapshot) ==
    [status |-> "requested", turn |-> t, at |-> broker[g], before |-> snapshot, claimed |-> FALSE]

\* Fault variant: only the environment evidence is compared.
StillCurrent_Evidence(q, g, snapshot) == snapshot = row[q].before

\* environment_operation_stale_reason finds nothing
StillCurrent(q, g, snapshot) ==
    /\ Check(broker[g], row[q].at)
    /\ snapshot = row[q].before

\* The status a decision is recorded with
DecidedStatus(q, g, d, snapshot) ==
    CASE d = "approve" /\ StillCurrent(q, g, snapshot) -> "approved"
      [] d = "approve" /\ ~StillCurrent(q, g, snapshot) -> "stale"
      [] d = "cancel" -> "cancelled"
      [] OTHER -> "rejected"

-----------------------------------------------------------------------------
(* Commands of the interface *)

\* request_environment_operation_preview clones the context ...
PreviewCall(k) ==
    /\ ready
    /\ pc[k] = "none"
    /\ on' = [on EXCEPT ![k] = gen]
    /\ Goto(k, "preview")
    /\ UNCHANGED <<rowVars, workVars, startVars, req, say, turnVars>>

\* ... and inserts a row under its mutex, unless the package preview is refused
Preview(k, q, snapshot) ==
    /\ pc[k] = "preview" /\ Free(k)
    /\ row[q].status = "absent"
    /\ row' = [row EXCEPT ![q] = Previewed(on[k], Nobody, snapshot)]
    /\ Goto(k, "none")
    /\ UNCHANGED <<run, flagged, granted, workVars, startVars, on, req, say, turnVars>>

PreviewRefused(k) ==
    /\ pc[k] = "preview" /\ Free(k)
    /\ Goto(k, "none")
    /\ UNCHANGED <<rowVars, workVars, startVars, on, req, say, turnVars>>

\* respond_environment_operation reads a row that is requested; for a direct
\* request it clones the current context
Answer(k, q, d) ==
    /\ pc[k] = "none"
    /\ row[q].status = "requested"
    /\ Direct(q) => ready
    /\ Goto(k, IF Direct(q) THEN "answer" ELSE "deliver")
    /\ on' = [on EXCEPT ![k] = gen]
    /\ req' = [req EXCEPT ![k] = q]
    /\ say' = [say EXCEPT ![k] = d]
    /\ granted' = IF d = "approve" THEN [granted EXCEPT ![q] = TRUE] ELSE granted
    /\ UNCHANGED <<row, run, flagged, workVars, startVars, turnVars>>

\* The request's waiter is registered and its receiver still exists
Listening(q) == q \in waiters /\ \E t \in Turns : pc[t] = "awaiting" /\ req[t] = q

\* ... for an Agent's request it hands the decision to the waiter, or closes the
\* row when nobody listens
Deliver(k) ==
    /\ pc[k] = "deliver"
    /\ LET q == req[k]
           t == row[q].turn
       IN  /\ waiters' = waiters \ {q}
           /\ IF Listening(q)
                THEN /\ say' = [say EXCEPT ![t] = say[k]]
                     /\ pc' = [pc EXCEPT ![k] = "none", ![t] = "deciding"]
                     /\ UNCHANGED row
                ELSE /\ SetStatus(q, "interrupted")
                     /\ Goto(k, "none")
                     /\ UNCHANGED say
    /\ req' = [req EXCEPT ![k] = Nobody]
    /\ UNCHANGED <<run, flagged, granted, workVars, startVars, on, turn, seen, live>>

\* Fault variant: the row read before the mutex was taken is trusted.
StillPending_Cached(k) == TRUE

StillPending(k) == row[req[k]].status = "requested"

\* decide_environment_operation reads the row again under the mutex ...
Recheck(k) ==
    /\ pc[k] = "answer" /\ Free(k)
    /\ IF StillPending(k)
         THEN Lock(k) /\ Goto(k, "recheck") /\ UNCHANGED req
         ELSE Leave(k)
    /\ UNCHANGED <<rowVars, broker, evidence, startVars, on, say, turnVars>>

\* ... and records the decision; an approval is executed at once
Decide(k, snapshot) ==
    /\ pc[k] = "recheck"
    /\ LET s == DecidedStatus(req[k], on[k], say[k], snapshot) IN
       /\ SetStatus(req[k], s)
       /\ IF s = "approved" THEN Goto(k, "claim") /\ UNCHANGED <<ctx, req>> ELSE Leave(k)
    /\ UNCHANGED <<run, flagged, granted, broker, evidence, startVars, on, say, turnVars>>

-----------------------------------------------------------------------------
(* An Agent turn's task *)

StartTurn(t) ==
    /\ op = Idle /\ ready
    /\ turn[t] = "absent"
    /\ turn' = [turn EXCEPT ![t] = "active"]
    /\ on' = [on EXCEPT ![t] = gen]
    /\ seen' = [seen EXCEPT ![t] = broker[gen]]
    /\ Goto(t, "idle")
    /\ UNCHANGED <<rowVars, workVars, startVars, req, say, waiters, live>>

\* handle_tool_approval_required: the row is inserted, then the waiter registered
RequestOperation(t, q, snapshot) ==
    /\ pc[t] = "idle" /\ Free(t)
    /\ row[q].status = "absent"
    /\ row' = [row EXCEPT ![q] = Previewed(on[t], t, snapshot)]
    /\ req' = [req EXCEPT ![t] = q]
    /\ Lock(t)
    /\ Goto(t, "registering")
    /\ UNCHANGED <<run, flagged, granted, broker, evidence, startVars, on, say, turnVars>>

RegisterWaiter(t) ==
    /\ pc[t] = "registering"
    /\ waiters' = waiters \cup {req[t]}
    /\ ctx' = [ctx EXCEPT ![on[t]] = Nobody]
    /\ Goto(t, "awaiting")
    /\ UNCHANGED <<rowVars, broker, evidence, startVars, on, req, say, turn, seen, live>>

\* ... the decision is recorded under the mutex, whatever the row says by now
DecideForTurn(t, snapshot) ==
    /\ pc[t] = "deciding" /\ Free(t)
    /\ LET s == DecidedStatus(req[t], on[t], say[t], snapshot) IN
       /\ SetStatus(req[t], s)
       /\ live' = IF s = "approved" THEN [live EXCEPT ![t] = @ \cup {req[t]}] ELSE live
    /\ Leave(t)
    /\ UNCHANGED <<run, flagged, granted, broker, evidence, startVars, on, say,
                   waiters, turn, seen>>

\* The response carries the identity read under a new lock
Reply(t) ==
    /\ pc[t] = "replying" /\ Free(t)
    /\ seen' = [seen EXCEPT ![t] = broker[on[t]]]
    /\ Goto(t, "idle")
    /\ UNCHANGED <<rowVars, workVars, startVars, on, req, say, waiters, turn, live>>

\* authorize_agent_workspace_request: the live approval is used up, and the
\* request goes on if its arguments are the approved ones
RequestDispatch(t, q, matches) ==
    /\ pc[t] = "idle"
    /\ q \in live[t]
    /\ live' = [live EXCEPT ![t] = @ \ {q}]
    /\ req' = [req EXCEPT ![t] = IF matches THEN q ELSE Nobody]
    /\ Goto(t, IF matches THEN "ctxwait" ELSE "replying")
    /\ UNCHANGED <<rowVars, workVars, startVars, on, say, waiters, turn, seen>>

\* begin_execution refuses a turn that is being cancelled
RefuseCancelled(t) ==
    /\ pc[t] = "ctxwait"
    /\ op.kind = "cancel" /\ op.turn = t
    /\ Leave(t)
    /\ UNCHANGED <<rowVars, broker, evidence, startVars, on, say, turnVars>>

\* broker.authorize against the identity Agent R expects
Authorize(t) ==
    /\ pc[t] = "ctxwait" /\ Free(t)
    /\ IF Check(broker[on[t]], seen[t])
         THEN Lock(t) /\ Goto(t, "claim") /\ UNCHANGED req
         ELSE Leave(t)
    /\ UNCHANGED <<rowVars, broker, evidence, startVars, on, say, turnVars>>

FinishTurn(t) ==
    /\ pc[t] = "idle" /\ Free(t)
    /\ turn' = [turn EXCEPT ![t] = "over"]
    /\ live' = [live EXCEPT ![t] = {}]
    /\ Goto(t, "none")
    /\ UNCHANGED <<rowVars, workVars, startVars, on, req, say, waiters, seen>>

-----------------------------------------------------------------------------
(* dispatch_workspace_request_with_execution_id *)

\* A failure before there is a run: decide_environment_operation closes the row,
\* the Agent lane only reports the error
FailedBeforeRun(a) == IF a \in Commands THEN SetStatus(req[a], "failed") ELSE UNCHANGED row

Claimable(q) == row[q].status = "approved" /\ ~row[q].claimed

\* claim_environment_operation_request
Claim(a) ==
    /\ pc[a] = "claim"
    /\ IF Claimable(req[a])
         THEN /\ row' = [row EXCEPT ![req[a]].status = "running", ![req[a]].claimed = TRUE]
              /\ Goto(a, "snapshot")
              /\ UNCHANGED <<ctx, req>>
         ELSE /\ FailedBeforeRun(a)
              /\ Leave(a)
    /\ UNCHANGED <<run, flagged, granted, broker, evidence, startVars, on, say, turnVars>>

\* The snapshot before the run could not be stored
SnapshotFails(a) ==
    /\ pc[a] = "snapshot"
    /\ FailedBeforeRun(a)
    /\ Leave(a)
    /\ UNCHANGED <<run, flagged, granted, broker, evidence, startVars, on, say, turnVars>>

CreateRun(a) ==
    /\ pc[a] = "snapshot"
    /\ run' = [run EXCEPT ![req[a]] = "running"]
    /\ Goto(a, "executing")
    /\ UNCHANGED <<row, flagged, granted, workVars, startVars, on, req, say, turnVars>>

\* The run's status for what Ark reported: "lost" is an execution error or a
\* result that cannot be read
RunOutcome(q, o) ==
    CASE o = "ok" -> "completed"
      [] o = "r_error" -> "failed"
      [] o = "lost" -> IF flagged[q] THEN "interrupted" ELSE "failed"

\* Ark is done: the broker moves on unless the outcome is lost, and the run row
\* is finished.  A package operation changes R's state, renv the project.
FinishRun(a, o, class) ==
    /\ pc[a] = "executing"
    /\ class \in {"state_capable", "project_mutation"}
    /\ broker' = IF o = "lost" THEN broker ELSE [broker EXCEPT ![on[a]] = Apply(@, class)]
    /\ evidence' \in Evidences
    /\ run' = [run EXCEPT ![req[a]] = RunOutcome(req[a], o)]
    /\ flagged' = [flagged EXCEPT ![req[a]] = FALSE]
    /\ Goto(a, IF o = "lost" THEN "lost" ELSE "settle")
    /\ UNCHANGED <<row, granted, ctx, startVars, on, req, say, turnVars>>

\* finish_environment_operation_request with the run's outcome; the error of a
\* lost run goes back to decide_environment_operation
Settle(a) ==
    /\ pc[a] \in {"settle", "lost"}
    /\ SetStatus(req[a], run[req[a]])
    /\ IF a \in Commands /\ pc[a] = "lost"
         THEN Goto(a, "reconcile") /\ UNCHANGED <<ctx, req>>
         ELSE Leave(a)
    /\ UNCHANGED <<run, flagged, granted, broker, evidence, startVars, on, say, turnVars>>

\* ... which records a dispatch error over it
Reconcile(k) ==
    /\ pc[k] = "reconcile"
    /\ SetStatus(req[k], "failed")
    /\ Leave(k)
    /\ UNCHANGED <<run, flagged, granted, broker, evidence, startVars, on, say, turnVars>>

-----------------------------------------------------------------------------
(* Everything else that moves the Workspace *)

\* Another run or command under the context's mutex
OtherRun(class) ==
    /\ ready
    /\ ctx[gen] = Nobody
    /\ broker[gen].seq <= MaxOther
    /\ broker' = [broker EXCEPT ![gen] = Apply(@, class)]
    /\ evidence' \in Evidences
    /\ UNCHANGED <<rowVars, ctx, startVars, actorVars, turnVars>>

\* request_run_interrupt flags the run and interrupts Ark
InterruptRun(q) ==
    /\ ready
    /\ run[q] = "running"
    /\ flagged' = [flagged EXCEPT ![q] = TRUE]
    /\ UNCHANGED <<row, run, granted, workVars, startVars, actorVars, turnVars>>

\* cancel_turn and cancel_all of environment_approvals
CancelWaiters(T) ==
    LET Woken == {t \in T : pc[t] = "awaiting" /\ req[t] \in waiters} IN
    /\ pc' = [a \in Actors |-> IF a \in Woken THEN "deciding" ELSE pc[a]]
    /\ say' = [a \in Actors |-> IF a \in Woken THEN "cancel" ELSE say[a]]
    /\ waiters' = {q \in waiters : row[q].turn \notin T}

\* The futures of the tasks are dropped, with their guards and approved_mutations
AbortTasks(T) ==
    /\ pc' = [a \in Actors |-> IF a \in T THEN "none" ELSE pc[a]]
    /\ req' = [a \in Actors |-> IF a \in T THEN Nobody ELSE req[a]]
    /\ ctx' = [g \in Gens |-> IF ctx[g] \in T THEN Nobody ELSE ctx[g]]
    /\ live' = [t \in Turns |-> IF t \in T THEN {} ELSE live[t]]

\* interrupt_agent_environment_operations
InterruptOperations(T) ==
    row' = [q \in Requests |-> IF row[q].turn \in T /\ row[q].status \in OpenStatus
                                 THEN [row[q] EXCEPT !.status = "interrupted"] ELSE row[q]]

\* cancel_agent_turn_state: the waiter is told, the turn's run flagged ...
CancelTurn(t) ==
    /\ op = Idle
    /\ turn[t] = "active"
    /\ CancelWaiters({t})
    /\ flagged' = IF pc[t] = "executing" THEN [flagged EXCEPT ![req[t]] = TRUE] ELSE flagged
    /\ op' = Cancelling(t, "stop")
    /\ UNCHANGED <<row, run, granted, workVars, ready, gen, on, req, turn, seen, live>>

\* ... the task ends by itself or is aborted ...
CancelStops(t) ==
    /\ op = Cancelling(t, "stop")
    /\ AbortTasks({t})
    /\ op' = Cancelling(t, "record")
    /\ UNCHANGED <<rowVars, broker, evidence, ready, gen, on, say, waiters, turn, seen>>

\* ... and the rows are closed
CancelRecords(t) ==
    /\ op = Cancelling(t, "record")
    /\ ready => ctx[gen] = Nobody
    /\ InterruptOperations({t})
    /\ turn' = [turn EXCEPT ![t] = "over"]
    /\ op' = Idle
    /\ UNCHANGED <<run, flagged, granted, workVars, ready, gen, actorVars, waiters, seen, live>>

-----------------------------------------------------------------------------
(* Restart, crash and recovery *)

\* restart_workspace: interrupt_all_agent_tasks wakes the waiters ...
Restart ==
    /\ op = Idle
    /\ gen < MaxGen
    /\ CancelWaiters(Turns)
    /\ op' = Restarting("drain")
    /\ UNCHANGED <<rowVars, workVars, ready, gen, on, req, turn, seen, live>>

\* ... aborts every task and closes the rows of the turns it found active
RestartDrains ==
    LET T == {t \in Turns : pc[t] # "none"} IN
    /\ op = Restarting("drain")
    /\ AbortTasks(T)
    /\ InterruptOperations({t \in T : turn[t] = "active"})
    /\ turn' = [t \in Turns |-> IF t \in T THEN "over" ELSE turn[t]]
    /\ op' = Restarting("take")
    /\ UNCHANGED <<run, flagged, granted, broker, evidence, ready, gen, on, say, waiters, seen>>

\* ... flags the latest active run and takes the context away
RestartTakes ==
    /\ op = Restarting("take")
    /\ \/ (\A q \in Requests : run[q] # "running") /\ UNCHANGED flagged
       \/ \E q \in Requests : run[q] = "running" /\ flagged' = [flagged EXCEPT ![q] = TRUE]
    /\ ready' = FALSE
    /\ op' = Restarting(IF ready THEN "wait" ELSE "launch")
    /\ UNCHANGED <<row, run, granted, workVars, gen, actorVars, turnVars>>

RestartWaits ==
    /\ op = Restarting("wait")
    /\ ctx[gen] = Nobody
    /\ op' = Restarting("launch")
    /\ UNCHANGED <<rowVars, workVars, ready, gen, actorVars, turnVars>>

\* After fifteen seconds the old context is put back
RestartTimesOut ==
    /\ op = Restarting("wait")
    /\ ctx[gen] # Nobody
    /\ ready' = TRUE
    /\ op' = Idle
    /\ UNCHANGED <<rowVars, workVars, gen, actorVars, turnVars>>

\* recover_incomplete_environment_operations
RecoverOperations ==
    row' = [q \in Requests |->
              CASE row[q].status = "requested" -> [row[q] EXCEPT !.status = "stale"]
                [] row[q].status \in {"approved", "running"} -> [row[q] EXCEPT !.status = "interrupted"]
                [] OTHER -> row[q]]

\* recover_incomplete_runs
RecoverRuns ==
    /\ run' = [q \in Requests |-> IF run[q] = "running" THEN "interrupted" ELSE run[q]]
    /\ flagged' = [q \in Requests |-> run[q] # "running" /\ flagged[q]]

StartWorkspace ==
    /\ op = Restarting("launch")
    /\ RecoverRuns
    /\ turn' = [t \in Turns |-> IF turn[t] = "active" THEN "over" ELSE turn[t]]
    /\ RecoverOperations
    /\ gen' = gen + 1
    /\ ready' = TRUE
    /\ op' = Idle
    /\ UNCHANGED <<granted, workVars, actorVars, waiters, seen, live>>

StartFails ==
    /\ op = Restarting("launch")
    /\ op' = Idle
    /\ UNCHANGED <<rowVars, workVars, ready, gen, actorVars, turnVars>>

\* The desktop dies with everything it had in memory; next is workspace_start
Crash ==
    /\ gen < MaxGen
    /\ ready' = FALSE
    /\ op' = Restarting("launch")
    /\ ctx' = [g \in Gens |-> Nobody]
    /\ pc' = [a \in Actors |-> "none"]
    /\ req' = [a \in Actors |-> Nobody]
    /\ waiters' = {}
    /\ live' = [t \in Turns |-> {}]
    /\ UNCHANGED <<rowVars, broker, evidence, gen, on, say, turn, seen>>

-----------------------------------------------------------------------------

CommandStep(k) ==
    \/ PreviewCall(k) \/ PreviewRefused(k) \/ Deliver(k) \/ Recheck(k) \/ Reconcile(k)
    \/ \E q \in Requests, s \in Captured : Preview(k, q, s)
    \/ \E q \in Requests, d \in Decisions : Answer(k, q, d)
    \/ \E s \in Captured : Decide(k, s)

TurnStep(t) ==
    \/ StartTurn(t) \/ RegisterWaiter(t) \/ Reply(t)
    \/ RefuseCancelled(t) \/ Authorize(t) \/ FinishTurn(t)
    \/ \E q \in Requests, s \in Captured : RequestOperation(t, q, s)
    \/ \E s \in Captured : DecideForTurn(t, s)
    \/ \E q \in Requests, matches \in BOOLEAN : RequestDispatch(t, q, matches)

DispatchStep(a) ==
    \/ Claim(a) \/ SnapshotFails(a) \/ CreateRun(a) \/ Settle(a)
    \/ \E o \in Outcomes, class \in {"state_capable", "project_mutation"} : FinishRun(a, o, class)

RestartStep ==
    \/ Restart \/ RestartDrains \/ RestartTakes \/ RestartWaits \/ RestartTimesOut
    \/ StartWorkspace \/ StartFails

Next ==
    \/ \E k \in Commands : CommandStep(k)
    \/ \E t \in Turns : TurnStep(t) \/ CancelTurn(t) \/ CancelStops(t) \/ CancelRecords(t)
    \/ \E a \in Actors : DispatchStep(a)
    \/ \E class \in {"state_capable", "project_mutation"} : OtherRun(class)
    \/ \E q \in Requests : InterruptRun(q)
    \/ RestartStep \/ Crash

Spec == Init /\ [][Next]_vars

-----------------------------------------------------------------------------
(* Properties *)

Rows == [status : Status, turn : Turns \cup {Nobody}, at : Identities,
         before : Snapshots, claimed : BOOLEAN]

\* The type of the rows, the contexts and the actors.
TypeOK ==
    /\ row \in [Requests -> Rows]
    /\ run \in [Requests -> RunStatus]
    /\ flagged \in [Requests -> BOOLEAN]
    /\ granted \in [Requests -> BOOLEAN]
    /\ broker \in [Gens -> Identities]
    /\ ctx \in [Gens -> Actors \cup {Nobody}]
    /\ evidence \in Evidences
    /\ ready \in BOOLEAN
    /\ gen \in Gens
    /\ op \in [kind : {"idle", "cancel", "restart"}, turn : Turns \cup {Nobody}, step : OpSteps]
    /\ pc \in [Actors -> Labels]
    /\ on \in [Actors -> Gens]
    /\ req \in [Actors -> Requests \cup {Nobody}]
    /\ say \in [Actors -> Decisions]
    /\ waiters \subseteq Requests
    /\ turn \in [Turns -> {"absent", "active", "over"}]
    /\ seen \in [Turns -> Identities]
    /\ live \in [Turns -> SUBSET Requests]

\* The environment is changed only by a request the user approved, and the row
\* of a request that was ever executed never reads as if it had not been: not
\* as requested, approved, rejected, cancelled or stale.  A row that reads as
\* completed had its run.
RowTellsRun ==
    \A q \in Requests :
        /\ run[q] # "none" => granted[q] /\ row[q].status \notin Denied \cup {"absent", "requested", "approved"}
        /\ row[q].status = "completed" => run[q] # "none"

\* A direct operation executes at the Workspace and project revision its preview
\* was reviewed at: the mutex is held from the comparison to the execution.
ExecutesAsReviewed ==
    \A k \in Commands :
        pc[k] \in {"claim", "snapshot", "executing"} => Check(broker[on[k]], row[req[k]].at)

\* A direct request that reads as approved or running has a command that is
\* executing it: failures before the run, a lost run, a crash and a restart all
\* close it, so that it cannot block a project switch for ever.
DirectRequestsSettle ==
    ready => \A q \in Requests :
        Direct(q) /\ row[q].status \in {"approved", "running"} =>
            \E k \in Commands : req[k] = q /\ pc[k] \in Dispatching

\* What a request reads as is what was done for it, while it is worked on and after.
RequestsTellRuns == RowTellsRun /\ DirectRequestsSettle

-----------------------------------------------------------------------------
(* Why a direct operation executes as reviewed *)

\* Labels at which an actor holds its context's mutex, and at which it has a request
Locked == Dispatching \cup {"recheck", "registering"}
Busy == Locked \cup {"answer", "deliver", "awaiting", "deciding", "ctxwait"}

\* An actor that is between lock and unlock holds the mutex; the request it works
\* on exists, is its own where a turn waits for a decision, and has a run where
\* the outcome is recorded; and a command that is about to execute still sees the
\* identity that was reviewed.
ActorOK(a) ==
    /\ pc[a] \in Locked => ctx[on[a]] = a
    /\ pc[a] \in Busy => req[a] \in Requests /\ row[req[a]].status # "absent"
    /\ a \in Turns => \A q \in live[a] : row[q].status # "absent"
    /\ a \in Turns /\ pc[a] \in {"registering", "awaiting", "deciding"} => row[req[a]].turn = a
    /\ pc[a] \in {"settle", "lost"} => run[req[a]] # "none"
    /\ a \in Commands /\ pc[a] \in {"claim", "snapshot", "executing"} =>
         Check(broker[on[a]], row[req[a]].at)

ReviewDiscipline == \A a \in Actors : ActorOK(a)

\* A restart, or the start after a crash, has a generation left for it.
StartsBounded == op.kind = "restart" => gen < MaxGen

=============================================================================
