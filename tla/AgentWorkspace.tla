--------------------------- MODULE AgentWorkspace ---------------------------
(***************************************************************************)
(* Concurrent Agent turns, console runs, approvals, cancellation, restart  *)
(* and crash recovery around the one authoritative Workspace R             *)
(* (crates/rho-server/src/coordinator.rs, desktop/src-tauri/src/main.rs,   *)
(* the run/turn/approval tables of crates/rho-store/src/lib.rs).           *)
(*                                                                         *)
(* A caller is an Agent turn's task or one execute_r command.  A caller    *)
(* works on the context (broker, store, session) it cloned when it began;  *)
(* a restart replaces the current context by the next generation but the   *)
(* old one lives on while a caller still holds it.                         *)
(***************************************************************************)
EXTENDS BrokerIdentity, FiniteSets

CONSTANTS
    Turns,          \* Agent turn ids, each used once
    Conversations,
    ConvOf,         \* the Conversation a turn is started in
    Consoles,       \* concurrent execute_r commands
    Requests,       \* approval request ids (uuids), each used once
    Runs,           \* run ids (uuids), each used once
    Codes,          \* argument payloads of mutating requests
    Probe,          \* the payload of a read-only request
    Nobody,         \* no lock holder, no run, no request
    StartModes,     \* the modes turns are started in
    Replies,        \* the decisions users send
    MaxTurns,       \* MAX_CONCURRENT_AGENT_TURNS
    MaxGen,         \* bound on Workspace starts
    MaxProject,     \* bound on a Workspace's project revision
    MaxSignals      \* bound on pending request_run_interrupt commands

ASSUME ConstantsAssumption ==
    /\ ConvOf \in [Turns -> Conversations]
    /\ MaxTurns \in Nat \ {0}
    /\ MaxGen \in Nat \ {0}
    /\ MaxProject \in Nat /\ MaxSignals \in Nat
    /\ StartModes \subseteq {"ask", "act", "auto"}
    /\ Replies \subseteq {"approve", "reject", "cancel"}
    /\ Probe \notin Codes
    /\ Turns \cap Consoles = {}
    /\ Nobody \notin Turns \cup Consoles \cup Requests \cup Runs

Callers == Turns \cup Consoles
Gens == 1 .. MaxGen

VARIABLES
    ready,      \* state.context and state.session are Some
    gen,        \* generation of the current context
    broker,     \* BrokerState of each context
    ctx,        \* holder of each context's mutex
    op,         \* the command holding project_transition_gate across steps
    tasks,      \* state.agent_tasks
    turn,       \* agent_turns.status
    mode,       \* mode and auto_approve of a turn
    pc,         \* where each caller is
    on,         \* the context a caller cloned
    seen,       \* .rho_agent_state$workspace_identity of the turn's Agent R
    req,        \* the approval request a turn is handling
    pay,        \* the payload a caller is dispatching
    cur,        \* the execution id a caller is dispatching
    live,       \* approved_mutations of a turn
    appr,       \* approval_requests rows
    waiters,    \* PendingApprovalRegistry.waiters
    inbox,      \* what was sent on a request's oneshot channel
    answers,    \* respond_approval commands between their read and their delivery
    gate,       \* holder of AgentWorkspaceLane.gate (and its active execution)
    cancelled,  \* AgentWorkspaceLane.cancelled_turns
    run,        \* runs rows
    kernel,     \* what became of a run inside Ark
    signals     \* sessions request_run_interrupt is about to interrupt

turnVars == <<tasks, turn, mode>>
callerVars == <<pc, on, seen, req, pay, cur, live>>
apprVars == <<appr, waiters, inbox, answers>>
laneVars == <<gate, cancelled>>
runVars == <<run, kernel, signals>>
brokerVars == <<ready, gen, broker, ctx, op>>
vars == <<brokerVars, turnVars, callerVars, apprVars, laneVars, runVars>>

-----------------------------------------------------------------------------
(* Row and state domains *)

ActiveTurn == {"running", "waiting"}
TurnStatus == ActiveTurn \cup {"absent", "completed", "failed", "interrupted"}
Modes == {"ask", "act", "auto"}     \* "plan" is treated exactly as "ask"
Decisions == {"approve", "reject", "cancel"}
ApprovalStatus == {"absent", "waiting", "approved", "rejected", "cancelled", "stale", "interrupted"}
ActiveRun == {"running"}            \* "queued" lasts no longer than create_run
RunStatus == ActiveRun \cup {"absent", "completed", "failed", "interrupted"}
KernelStates == {"none", "queued", "running", "interrupting", "ok", "r_error", "kernel_error"}
Outcomes == {"ok", "r_error", "kernel_error"}

\* Where a caller holds the context mutex across an await, and where a turn
\* holds the lane.
HoldsContext == {"registering", "snapshot", "executing"}
HoldsLane == {"ctxwait", "snapshot", "executing"}
PCs == HoldsContext \cup HoldsLane
         \cup {"none", "launch", "idle", "awaiting", "deciding", "replying", "lane", "exiting"}

OpSteps == {"read", "signal", "poke", "join", "abort", "record",
            "drain", "stop", "wait", "launch", "boot", "sync"}
Idle == [kind |-> "idle", turn |-> Nobody, step |-> "read"]
Cancelling(t, s) == [kind |-> "cancel", turn |-> t, step |-> s]
Restarting(s) == [kind |-> "restart", turn |-> Nobody, step |-> s]

RunRows == [status : RunStatus, owner : Callers \cup {Nobody}, on : Gens,
            request : Requests \cup {Nobody}, pay : Codes \cup {Probe},
            before : Identities, cancel : BOOLEAN, committed : BOOLEAN]
ApprovalRows == [status : ApprovalStatus, turn : Turns \cup {Nobody},
                 pay : Codes \cup {Probe}, at : Identities]

\* runs.state_revision_after and project_revision_after are set when a run's
\* effect was committed to the broker; "request" is the approval the run used.
NoRow == [status |-> "absent", owner |-> Nobody, on |-> 1, request |-> Nobody,
          pay |-> Probe, before |-> NewIdentity(1), cancel |-> FALSE, committed |-> FALSE]
NoApproval == [status |-> "absent", turn |-> Nobody, pay |-> Probe, at |-> NewIdentity(1)]

Init ==
    /\ ready = TRUE
    /\ gen = 1
    /\ broker = [g \in Gens |-> Apply(NewIdentity(g), "state_capable")]
    /\ ctx = [g \in Gens |-> Nobody]
    /\ op = Idle
    /\ tasks = {}
    /\ turn = [t \in Turns |-> "absent"]
    /\ mode = [t \in Turns |-> "ask"]
    /\ pc = [c \in Callers |-> "none"]
    /\ on = [c \in Callers |-> 1]
    /\ seen = [t \in Turns |-> NewIdentity(1)]
    /\ req = [t \in Turns |-> Nobody]
    /\ pay = [c \in Callers |-> Probe]
    /\ cur = [c \in Callers |-> Nobody]
    /\ live = [t \in Turns |-> {}]
    /\ appr = [q \in Requests |-> NoApproval]
    /\ waiters = {}
    /\ inbox = [q \in Requests |-> "none"]
    /\ answers = {}
    /\ gate = Nobody
    /\ cancelled = {}
    /\ run = [r \in Runs |-> NoRow]
    /\ kernel = [r \in Runs |-> "none"]
    /\ signals = {}

-----------------------------------------------------------------------------
(* Helpers *)

\* The context a caller cloned is unlocked.
Free(c) == ctx[on[c]] = Nobody

Goto(c, label) == pc' = [pc EXCEPT ![c] = label]

\* OperationClass of a request, from bridge_expression
ClassOf(p) == IF p = Probe THEN "probe" ELSE "state_capable"

\* Ark executes one request of a session at a time.
InArk(r) == kernel[r] \in {"running", "interrupting"}
ArkBusy(g) == \E r \in Runs : InArk(r) /\ run[r].on = g

\* agent_turn_admission_error, and create_agent_turn_in_conversation's check
\* that the Conversation has no nonterminal turn
Admissible(t) ==
    /\ \A u \in tasks : ConvOf[u] # ConvOf[t]
    /\ Cardinality(tasks) < MaxTurns
    /\ \A u \in Turns : ConvOf[u] = ConvOf[t] => turn[u] \notin ActiveTurn

-----------------------------------------------------------------------------
(* An Agent turn's task *)

\* start_agent_turn: under the transition gate and the task registry lock
StartTurn(t, m) ==
    /\ op = Idle /\ ready
    /\ turn[t] = "absent"
    /\ Admissible(t)
    /\ ctx[gen] = Nobody
    /\ turn' = [turn EXCEPT ![t] = "running"]
    /\ mode' = [mode EXCEPT ![t] = m]
    /\ tasks' = tasks \cup {t}
    /\ on' = [on EXCEPT ![t] = gen]
    /\ Goto(t, "launch")
    /\ UNCHANGED <<brokerVars, seen, req, pay, cur, live, apprVars, laneVars, runVars>>

\* run_agent_turn: Agent R is spawned, authenticates and is sent the identity
Launch(t) ==
    /\ pc[t] = "launch" /\ Free(t)
    /\ seen' = [seen EXCEPT ![t] = broker[on[t]]]
    /\ Goto(t, "idle")
    /\ UNCHANGED <<brokerVars, turnVars, on, req, pay, cur, live, apprVars, laneVars, runVars>>

\* run_agent_turn: the terminal event, a dead Agent R, or a launch failure
FinishTurn(t, s) ==
    /\ pc[t] = "idle" \/ (pc[t] = "launch" /\ s = "failed")
    /\ Free(t)
    /\ turn' = [turn EXCEPT ![t] = s]
    /\ live' = [live EXCEPT ![t] = {}]
    /\ Goto(t, "exiting")
    /\ UNCHANGED <<brokerVars, tasks, mode, on, seen, req, pay, cur, apprVars, laneVars, runVars>>

\* start_agent_turn's spawned task removes itself from the registry
ExitTask(t) ==
    /\ pc[t] = "exiting"
    /\ tasks' = tasks \ {t}
    /\ Goto(t, "none")
    /\ UNCHANGED <<brokerVars, turn, mode, on, seen, req, pay, cur, live, apprVars, laneVars, runVars>>

\* handle_tool_approval_required in a mode that is not Act: policy denied
DenyApproval(t) ==
    /\ pc[t] = "idle" /\ Free(t)
    /\ mode[t] = "ask"
    /\ Goto(t, "replying")
    /\ UNCHANGED <<brokerVars, turnVars, on, seen, req, pay, cur, live, apprVars, laneVars, runVars>>

\* handle_tool_approval_required: create_approval_request at the current
\* identity; with auto_approve it is resolved and made usable at once.
RequestApproval(t, q, p) ==
    /\ pc[t] = "idle" /\ Free(t)
    /\ mode[t] # "ask"
    /\ appr[q].status = "absent"
    /\ req' = [req EXCEPT ![t] = q]
    /\ LET auto == mode[t] = "auto" IN
       /\ appr' = [appr EXCEPT ![q] =
                     [status |-> IF auto THEN "approved" ELSE "waiting",
                      turn |-> t, pay |-> p, at |-> broker[on[t]]]]
       /\ live' = IF auto THEN [live EXCEPT ![t] = @ \cup {q}] ELSE live
       /\ ctx' = IF auto THEN ctx ELSE [ctx EXCEPT ![on[t]] = t]
       /\ Goto(t, IF auto THEN "replying" ELSE "registering")
    /\ UNCHANGED <<ready, gen, broker, op, turnVars, on, seen, pay, cur,
                   waiters, inbox, answers, laneVars, runVars>>

\* ... then the waiter is registered, the turn waits, the context is unlocked
RegisterWaiter(t) ==
    /\ pc[t] = "registering"
    /\ waiters' = waiters \cup {req[t]}
    /\ turn' = [turn EXCEPT ![t] = "waiting"]
    /\ ctx' = [ctx EXCEPT ![on[t]] = Nobody]
    /\ Goto(t, "awaiting")
    /\ UNCHANGED <<ready, gen, broker, op, tasks, mode, on, seen, req, pay, cur, live,
                   appr, inbox, answers, laneVars, runVars>>

\* Fault variant: the task looks for its waiter before it reads the channel.
ReceiveDecision_Registered(t) ==
    /\ pc[t] = "awaiting"
    /\ inbox[req[t]] # "none"
    /\ req[t] \in waiters
    /\ waiters' = waiters \ {req[t]}
    /\ Goto(t, "deciding")
    /\ UNCHANGED <<brokerVars, turnVars, on, seen, req, pay, cur, live,
                   appr, inbox, answers, laneVars, runVars>>

\* ... the oneshot resolves and the waiter is removed
ReceiveDecision(t) ==
    /\ pc[t] = "awaiting"
    /\ inbox[req[t]] # "none"
    /\ waiters' = waiters \ {req[t]}
    /\ Goto(t, "deciding")
    /\ UNCHANGED <<brokerVars, turnVars, on, seen, req, pay, cur, live,
                   appr, inbox, answers, laneVars, runVars>>

\* The staleness test of an approval: workspace and revisions as requested
StillCurrent(t) ==
    LET then == appr[req[t]].at
        now == broker[on[t]]
    IN  /\ then.kernel = now.kernel
        /\ then.state = now.state
        /\ then.project = now.project

\* ... the context is locked again and the request resolved
DecideApproval(t) ==
    /\ pc[t] = "deciding" /\ Free(t)
    /\ LET q == req[t]
           status == CASE inbox[q] = "approve" /\ StillCurrent(t) -> "approved"
                       [] inbox[q] = "approve" /\ ~StillCurrent(t) -> "stale"
                       [] inbox[q] = "cancel" -> "cancelled"
                       [] OTHER -> "rejected"
       IN  /\ appr' = [appr EXCEPT ![q].status = status]
           /\ live' = IF status = "approved" THEN [live EXCEPT ![t] = @ \cup {q}] ELSE live
    /\ turn' = [turn EXCEPT ![t] = "running"]
    /\ Goto(t, "replying")
    /\ UNCHANGED <<brokerVars, tasks, mode, on, seen, req, pay, cur,
                   waiters, inbox, answers, laneVars, runVars>>

\* serve_desktop_agent: the response carries the identity read under a new
\* lock of the context; rho_agent_request adopts it.
Reply(t) ==
    /\ pc[t] = "replying" /\ Free(t)
    /\ seen' = [seen EXCEPT ![t] = broker[on[t]]]
    /\ req' = [req EXCEPT ![t] = Nobody]
    /\ Goto(t, "idle")
    /\ UNCHANGED <<brokerVars, turnVars, on, pay, cur, live, apprVars, laneVars, runVars>>

\* authorize_agent_workspace_request: a read-only request
RequestProbe(t) ==
    /\ pc[t] = "idle" /\ Free(t)
    /\ pay' = [pay EXCEPT ![t] = Probe]
    /\ Goto(t, "lane")
    /\ UNCHANGED <<brokerVars, turnVars, on, seen, req, cur, live, apprVars, laneVars, runVars>>

\* Fault variant: the arguments are not compared with those reviewed.
MutationAllowed_AnyArgs(t, q, p) == mode[t] # "ask" /\ q \in live[t]

\* authorize_agent_workspace_request: a mutation needs Act mode and a live
\* approval with the same arguments; the approval is removed either way.
MutationAllowed(t, q, p) ==
    /\ mode[t] # "ask"
    /\ q \in live[t]
    /\ appr[q].pay = p

ConsumeApproval(t, q) == live' = [live EXCEPT ![t] = @ \ {q}]

RequestMutation(t, q, p) ==
    /\ pc[t] = "idle" /\ Free(t)
    /\ ConsumeApproval(t, q)
    /\ IF MutationAllowed(t, q, p)
         THEN /\ pay' = [pay EXCEPT ![t] = p]
              /\ req' = [req EXCEPT ![t] = q]
              /\ Goto(t, "lane")
         ELSE /\ Goto(t, "replying")
              /\ UNCHANGED <<pay, req>>
    /\ UNCHANGED <<brokerVars, turnVars, on, seen, cur, apprVars, laneVars, runVars>>

\* dispatch_agent_workspace_request: the lane's gate and begin_execution
AdmitExecution(t) == t \notin cancelled

EnterLane(t, r) ==
    /\ pc[t] = "lane"
    /\ gate = Nobody
    /\ run[r].status = "absent" /\ \A c \in Callers : cur[c] # r
    /\ IF AdmitExecution(t)
         THEN /\ gate' = t
              /\ cur' = [cur EXCEPT ![t] = r]
              /\ Goto(t, "ctxwait")
         ELSE /\ Goto(t, "replying")
              /\ UNCHANGED <<gate, cur>>
    /\ UNCHANGED <<brokerVars, turnVars, on, seen, req, pay, live, apprVars, cancelled, runVars>>

-----------------------------------------------------------------------------
(* dispatch_workspace_request_with_execution_id *)

\* execute_r: the command clones the current context, then waits for it
ConsoleCall(c, p, r) ==
    /\ ready
    /\ pc[c] = "none"
    /\ run[r].status = "absent" /\ \A d \in Callers : cur[d] # r
    /\ on' = [on EXCEPT ![c] = gen]
    /\ pay' = [pay EXCEPT ![c] = p]
    /\ cur' = [cur EXCEPT ![c] = r]
    /\ Goto(c, "ctxwait")
    /\ UNCHANGED <<brokerVars, turnVars, seen, req, live, apprVars, laneVars, runVars>>

\* expected_workspace: what Agent R last saw, or for a console run the
\* broker's identity read under the same lock
Expected(c) == IF c \in Turns THEN seen[c] ELSE broker[on[c]]

\* broker.authorize; a stale request returns its error and drops the lane
Authorize(c) ==
    /\ pc[c] = "ctxwait" /\ Free(c)
    /\ IF Check(broker[on[c]], Expected(c))
         THEN /\ ctx' = [ctx EXCEPT ![on[c]] = c]
              /\ Goto(c, "snapshot")
              /\ UNCHANGED <<gate, cur>>
         ELSE /\ gate' = Nobody
              /\ cur' = [cur EXCEPT ![c] = Nobody]
              /\ Goto(c, "replying")
              /\ UNCHANGED ctx
    /\ UNCHANGED <<ready, gen, broker, op, turnVars, on, seen, req, pay, live,
                   apprVars, cancelled, runVars>>

\* capture_environment_snapshot_id has returned: create_run, status running,
\* and the code is handed to Ark
CreateRun(c) ==
    /\ pc[c] = "snapshot"
    /\ run' = [run EXCEPT ![cur[c]] =
                 [status |-> "running", owner |-> c, on |-> on[c],
                  request |-> IF c \in Turns THEN req[c] ELSE Nobody,
                  pay |-> pay[c], before |-> broker[on[c]],
                  cancel |-> FALSE, committed |-> FALSE]]
    /\ kernel' = [kernel EXCEPT ![cur[c]] = IF ArkBusy(on[c]) THEN "queued" ELSE "running"]
    /\ Goto(c, "executing")
    /\ UNCHANGED <<brokerVars, turnVars, on, seen, req, pay, cur, live, apprVars, laneVars, signals>>

\* Leaving the dispatcher: the context guard and the lane guards drop
LeaveDispatch(c) ==
    /\ ctx' = [ctx EXCEPT ![on[c]] = Nobody]
    /\ cur' = [cur EXCEPT ![c] = Nobody]
    /\ pay' = [pay EXCEPT ![c] = Probe]
    /\ gate' = IF c \in Turns THEN Nobody ELSE gate
    /\ Goto(c, IF c \in Turns THEN "replying" ELSE "none")

\* The environment snapshot could not be captured: no run row exists
SnapshotFails(c) ==
    /\ pc[c] = "snapshot"
    /\ LeaveDispatch(c)
    /\ UNCHANGED <<ready, gen, broker, op, turnVars, on, seen, req, live,
                   apprVars, cancelled, runVars>>

\* The reply of Ark: a kernel error leaves the broker's identity alone;
\* otherwise the request's class is applied, R errors included.
Committed(r) == kernel[r] \in {"ok", "r_error"}

FinishRun(c) ==
    /\ pc[c] = "executing"
    /\ LET r == cur[c]
           status == CASE kernel[r] = "ok" -> "completed"
                       [] kernel[r] = "kernel_error" /\ run[r].cancel -> "interrupted"
                       [] OTHER -> "failed"
       IN  /\ kernel[r] \in Outcomes
           /\ broker' = IF Committed(r)
                          THEN [broker EXCEPT ![on[c]] = Apply(@, ClassOf(pay[c]))]
                          ELSE broker
           /\ run' = [run EXCEPT ![r].status = status, ![r].cancel = FALSE,
                                 ![r].committed = Committed(r)]
    /\ LeaveDispatch(c)
    /\ UNCHANGED <<ready, gen, op, turnVars, on, seen, req, live,
                   apprVars, cancelled, kernel, signals>>

\* broker.project_changed: a file command of the desktop
ProjectChanged ==
    /\ ready
    /\ ctx[gen] = Nobody
    /\ broker[gen].project < MaxProject
    /\ broker' = [broker EXCEPT ![gen] = Apply(@, "project_mutation")]
    /\ UNCHANGED <<ready, gen, ctx, op, turnVars, callerVars, apprVars, laneVars, runVars>>

-----------------------------------------------------------------------------
(* Ark: a request waits while an abandoned one still executes *)

ArkStarts(r) ==
    /\ kernel[r] = "queued"
    /\ ~ArkBusy(run[r].on)
    /\ kernel' = [kernel EXCEPT ![r] = "running"]
    /\ UNCHANGED <<brokerVars, turnVars, callerVars, apprVars, laneVars, run, signals>>

ArkEnds(r, o) ==
    /\ InArk(r)
    /\ kernel' = [kernel EXCEPT ![r] = o]
    /\ UNCHANGED <<brokerVars, turnVars, callerVars, apprVars, laneVars, run, signals>>

\* ArkSession::interrupt reaches whatever that session is executing
Interrupted(g) ==
    [r \in Runs |-> IF kernel[r] = "running" /\ run[r].on = g THEN "interrupting" ELSE kernel[r]]

-----------------------------------------------------------------------------
(* Commands of the user *)

\* respond_approval reads a waiting row ...
ReadApproval(q, d) ==
    /\ appr[q].status = "waiting"
    /\ answers' = answers \cup {<<q, d>>}
    /\ UNCHANGED <<brokerVars, turnVars, callerVars, appr, waiters, inbox, laneVars, runVars>>

\* The request's waiter is registered and its receiver still exists
Listening(q) == q \in waiters /\ \E t \in Turns : pc[t] = "awaiting" /\ req[t] = q

\* ... and delivers the decision, or marks the row interrupted
DeliverAnswer(q, d) ==
    /\ <<q, d>> \in answers
    /\ answers' = answers \ {<<q, d>>}
    /\ waiters' = waiters \ {q}
    /\ IF Listening(q)
         THEN /\ inbox' = [inbox EXCEPT ![q] = d]
              /\ UNCHANGED appr
         ELSE /\ appr' = [appr EXCEPT ![q].status = "interrupted"]
              /\ UNCHANGED inbox
    /\ UNCHANGED <<brokerVars, turnVars, callerVars, laneVars, runVars>>

\* Fault variant: the request is written to the status column.
RequestCancel_Status(r) == [run EXCEPT ![r].status = "cancel_requested"]

\* request_cancel on a run row
RequestCancel(r) == [run EXCEPT ![r].cancel = TRUE]

\* request_run_interrupt marks an active run ...
InterruptRun(r) ==
    /\ ready
    /\ run[r].status \in ActiveRun
    /\ Cardinality(signals) < MaxSignals
    /\ run' = RequestCancel(r)
    /\ signals' = signals \cup {gen}
    /\ UNCHANGED <<brokerVars, turnVars, callerVars, apprVars, laneVars, kernel>>

\* ... then interrupts the session
DeliverInterrupt(g) ==
    /\ g \in signals
    /\ signals' = signals \ {g}
    /\ kernel' = Interrupted(g)
    /\ UNCHANGED <<brokerVars, turnVars, callerVars, apprVars, laneVars, run>>

-----------------------------------------------------------------------------
(* Stopping tasks *)

\* Fault variant: the JoinHandle is dropped, which detaches the task.
AbortTasks_Detached(T) == UNCHANGED <<pc, ctx, gate, cur, req, live>>

\* Aborting the tasks of T: their futures are dropped, and with them the
\* context guard, the lane guards and approved_mutations.  Ark is not told.
AbortTasks(T) ==
    /\ pc' = [c \in Callers |-> IF c \in T THEN "none" ELSE pc[c]]
    /\ ctx' = [g \in Gens |-> IF ctx[g] \in T THEN Nobody ELSE ctx[g]]
    /\ gate' = IF gate \in T THEN Nobody ELSE gate
    /\ cur' = [c \in Callers |-> IF c \in T THEN Nobody ELSE cur[c]]
    /\ req' = [t \in Turns |-> IF t \in T THEN Nobody ELSE req[t]]
    /\ live' = [t \in Turns |-> IF t \in T THEN {} ELSE live[t]]

\* PendingApprovalRegistry::cancel_turn and cancel_all on the waiters of Q
CancelWaiters(Q) ==
    /\ inbox' = [q \in Requests |-> IF q \in Q \cap waiters THEN "cancel" ELSE inbox[q]]
    /\ waiters' = waiters \ Q

RequestsOf(T) == {q \in Requests : appr[q].turn \in T}

\* interrupt_agent_approvals: only rows still waiting
InterruptApprovals(T) ==
    appr' = [q \in Requests |->
               IF q \in RequestsOf(T) /\ appr[q].status = "waiting"
                 THEN [appr[q] EXCEPT !.status = "interrupted"] ELSE appr[q]]

\* cancel_agent_turn_state takes the gate and reads an active turn row
CancelTurn(t) ==
    /\ op = Idle
    /\ turn[t] \in ActiveTurn
    /\ op' = Cancelling(t, "read")
    /\ UNCHANGED <<ready, gen, broker, ctx, turnVars, callerVars, apprVars, laneVars, runVars>>

\* ... fails if the task is gone; else takes it out of the registry, cancels
\* its waiters, marks the lane and flags the turn's active run if there is one
CancelTakesTask(t) ==
    /\ op = Cancelling(t, "read")
    /\ IF t \in tasks
         THEN /\ tasks' = tasks \ {t}
              /\ CancelWaiters(RequestsOf({t}))
              /\ cancelled' = cancelled \cup {t}
              /\ \/ /\ gate # t
                    /\ UNCHANGED run
                    /\ op' = Cancelling(t, "abort")
                 \/ /\ gate = t /\ run[cur[t]].status \in ActiveRun
                    /\ run' = RequestCancel(cur[t])
                    /\ op' = Cancelling(t, "signal")
                 \/ /\ gate = t /\ run[cur[t]].status \notin ActiveRun
                    /\ UNCHANGED run
                    /\ op' = Cancelling(t, "poke")
         ELSE /\ op' = Idle
              /\ UNCHANGED <<tasks, waiters, inbox, cancelled, run>>
    /\ UNCHANGED <<ready, gen, broker, ctx, turn, mode, callerVars, appr, answers,
                   gate, kernel, signals>>

\* ... interrupts the session, and waits for the task only if the run was flagged
CancelSignals(t) ==
    /\ op \in {Cancelling(t, "signal"), Cancelling(t, "poke")}
    /\ kernel' = Interrupted(gen)
    /\ op' = Cancelling(t, IF op.step = "signal" THEN "join" ELSE "abort")
    /\ UNCHANGED <<ready, gen, broker, ctx, turnVars, callerVars, apprVars, laneVars, run, signals>>

\* ... the task ended by itself within five seconds
CancelJoins(t) ==
    /\ op = Cancelling(t, "join")
    /\ pc[t] = "none"
    /\ op' = Cancelling(t, "record")
    /\ UNCHANGED <<ready, gen, broker, ctx, turnVars, callerVars, apprVars, laneVars, runVars>>

\* Fault variant: the join after an interrupt has no timeout.
CancelAborts_NoTimeout(t) ==
    /\ op = Cancelling(t, "abort")
    /\ AbortTasks({t})
    /\ op' = Cancelling(t, "record")
    /\ UNCHANGED <<ready, gen, broker, turnVars, on, seen, pay, apprVars, cancelled, runVars>>

\* ... or is aborted, at once or after the five seconds
CancelAborts(t) ==
    /\ op \in {Cancelling(t, "join"), Cancelling(t, "abort")}
    /\ AbortTasks({t})
    /\ op' = Cancelling(t, "record")
    /\ UNCHANGED <<ready, gen, broker, turnVars, on, seen, pay, apprVars, cancelled, runVars>>

\* ... and the outcome is recorded, whatever the row says by now
CancelRecords(t) ==
    /\ op = Cancelling(t, "record")
    /\ ready => ctx[gen] = Nobody
    /\ cancelled' = cancelled \ {t}
    /\ InterruptApprovals({t})
    /\ turn' = [turn EXCEPT ![t] = "interrupted"]
    /\ op' = Idle
    /\ UNCHANGED <<ready, gen, broker, ctx, tasks, mode, callerVars,
                   waiters, inbox, answers, gate, runVars>>

-----------------------------------------------------------------------------
(* Restart, crash and recovery *)

\* restart_workspace: interrupt_all_agent_tasks cancels every waiter ...
Restart ==
    /\ op = Idle
    /\ gen < MaxGen
    /\ CancelWaiters(Requests)
    /\ op' = Restarting("drain")
    /\ UNCHANGED <<ready, gen, broker, ctx, turnVars, callerVars, appr, answers, laneVars, runVars>>

\* ... aborts every task, then records the turns that were still active
RestartDrains ==
    /\ op = Restarting("drain")
    /\ AbortTasks(tasks)
    /\ LET T == {t \in tasks : turn[t] \in ActiveTurn} IN
       /\ turn' = [t \in Turns |-> IF t \in T THEN "interrupted" ELSE turn[t]]
       /\ InterruptApprovals(T)
    /\ tasks' = {}
    /\ op' = Restarting("stop")
    /\ UNCHANGED <<ready, gen, broker, mode, on, seen, pay, waiters, inbox, answers,
                   cancelled, runVars>>

\* ... flags and interrupts the latest active run; takes context and session
RestartStops ==
    /\ op = Restarting("stop")
    /\ \/ /\ \A r \in Runs : run[r].status \notin ActiveRun
          /\ UNCHANGED <<run, kernel>>
       \/ \E r \in Runs :
            /\ run[r].status \in ActiveRun
            /\ run' = RequestCancel(r)
            /\ kernel' = IF ready THEN Interrupted(gen) ELSE kernel
    /\ ready' = FALSE
    /\ op' = Restarting(IF ready THEN "wait" ELSE "launch")
    /\ UNCHANGED <<gen, broker, ctx, turnVars, callerVars, apprVars, laneVars, signals>>

\* ... waits until the old context is unlocked
RestartWaits ==
    /\ op = Restarting("wait")
    /\ ctx[gen] = Nobody
    /\ op' = Restarting("launch")
    /\ UNCHANGED <<ready, gen, broker, ctx, turnVars, callerVars, apprVars, laneVars, runVars>>

\* ... or gives up after fifteen seconds and puts the old context back
RestartTimesOut ==
    /\ op = Restarting("wait")
    /\ ctx[gen] # Nobody
    /\ ready' = TRUE
    /\ op' = Idle
    /\ UNCHANGED <<gen, broker, ctx, turnVars, callerVars, apprVars, laneVars, runVars>>

RecoverTurns_All ==
    turn' = [t \in Turns |-> IF turn[t] # "absent" THEN "interrupted" ELSE turn[t]]
RecoverApprovals_None == UNCHANGED appr

\* recover_incomplete_runs, recover_incomplete_agent_turns and
\* recover_incomplete_approvals
RecoverRuns ==
    run' = [r \in Runs |-> IF run[r].status \in ActiveRun
                             THEN [run[r] EXCEPT !.status = "interrupted", !.cancel = FALSE]
                             ELSE run[r]]
RecoverTurns ==
    turn' = [t \in Turns |-> IF turn[t] \in ActiveTurn THEN "interrupted" ELSE turn[t]]
RecoverApprovals ==
    appr' = [q \in Requests |-> IF appr[q].status = "waiting"
                                  THEN [appr[q] EXCEPT !.status = "interrupted"] ELSE appr[q]]

\* start_workspace: recovery, a new Ark and broker, the bridge bootstrapped
StartWorkspace ==
    /\ op \in {Restarting("launch"), Restarting("boot")}
    /\ RecoverRuns
    /\ RecoverTurns
    /\ RecoverApprovals
    /\ gen' = gen + 1
    /\ ready' = TRUE
    /\ op' = IF op.step = "launch" THEN Restarting("sync") ELSE Idle
    /\ UNCHANGED <<broker, ctx, tasks, mode, callerVars, waiters, inbox, answers,
                   laneVars, kernel, signals>>

\* Ark does not launch: the desktop is left without a Workspace
StartFails ==
    /\ op \in {Restarting("launch"), Restarting("boot")}
    /\ op' = Idle
    /\ UNCHANGED <<ready, gen, broker, ctx, turnVars, callerVars, apprVars, laneVars, runVars>>

\* Fault variant: the broker is advanced without the context lock.
SyncProjectRoot_Unlocked ==
    /\ op = Restarting("sync")
    /\ broker' = [broker EXCEPT ![gen] = Apply(@, "state_and_project")]
    /\ op' = Idle
    /\ UNCHANGED <<ready, gen, ctx, turnVars, callerVars, apprVars, laneVars, runVars>>

\* sync_workspace_project_root: workspace.set_project_root by the system
SyncProjectRoot ==
    /\ op = Restarting("sync")
    /\ ctx[gen] = Nobody
    /\ broker' = [broker EXCEPT ![gen] = Apply(@, "state_and_project")]
    /\ op' = Idle
    /\ UNCHANGED <<ready, gen, ctx, turnVars, callerVars, apprVars, laneVars, runVars>>

\* The desktop process dies, Ark and every Agent R with it; what it had in
\* memory is gone and the next thing is workspace_start.
Crash ==
    /\ gen < MaxGen
    /\ ready' = FALSE
    /\ op' = Restarting("boot")
    /\ ctx' = [g \in Gens |-> Nobody]
    /\ tasks' = {}
    /\ pc' = [c \in Callers |-> "none"]
    /\ cur' = [c \in Callers |-> Nobody]
    /\ req' = [t \in Turns |-> Nobody]
    /\ live' = [t \in Turns |-> {}]
    /\ waiters' = {}
    /\ answers' = {}
    /\ gate' = Nobody
    /\ cancelled' = {}
    /\ signals' = {}
    /\ kernel' = [r \in Runs |-> IF kernel[r] \in Outcomes \cup {"none"}
                                   THEN kernel[r] ELSE "kernel_error"]
    /\ UNCHANGED <<gen, broker, turn, mode, on, seen, pay, appr, inbox, run>>

-----------------------------------------------------------------------------

TaskStep(t) ==
    \/ Launch(t) \/ ExitTask(t)
    \/ RegisterWaiter(t) \/ ReceiveDecision(t) \/ DecideApproval(t) \/ Reply(t)
    \/ \E r \in Runs : EnterLane(t, r)

AgentStep(t) ==
    \/ DenyApproval(t)
    \/ RequestProbe(t)
    \/ \E q \in Requests, p \in Codes : RequestApproval(t, q, p) \/ RequestMutation(t, q, p)
    \/ \E s \in {"completed", "failed"} : FinishTurn(t, s)

DispatchStep(c) == Authorize(c) \/ CreateRun(c) \/ SnapshotFails(c) \/ FinishRun(c)

ArkStep == \E r \in Runs : ArkStarts(r) \/ (\E o \in Outcomes : ArkEnds(r, o))

CancelStep(t) ==
    CancelTakesTask(t) \/ CancelSignals(t) \/ CancelJoins(t) \/ CancelAborts(t) \/ CancelRecords(t)

RestartStep ==
    \/ RestartDrains \/ RestartStops \/ RestartWaits \/ RestartTimesOut
    \/ StartWorkspace \/ StartFails \/ SyncProjectRoot

UserStep ==
    \/ \E t \in Turns : CancelTurn(t) \/ (\E m \in StartModes : StartTurn(t, m))
    \/ \E c \in Consoles, p \in Codes, r \in Runs : ConsoleCall(c, p, r)
    \/ \E q \in Requests, d \in Replies : ReadApproval(q, d)
    \/ \E r \in Runs : InterruptRun(r)
    \/ ProjectChanged
    \/ Restart

DeliverStep ==
    \/ \E q \in Requests, d \in Replies : DeliverAnswer(q, d)
    \/ \E g \in Gens : DeliverInterrupt(g)

Next ==
    \/ \E t \in Turns : TaskStep(t) \/ AgentStep(t) \/ CancelStep(t)
    \/ \E c \in Callers : DispatchStep(c)
    \/ ArkStep \/ UserStep \/ DeliverStep \/ RestartStep \/ Crash

Spec == Init /\ [][Next]_vars

\* Tasks and commands are tokio futures, which run when they can; the tokio
\* Mutex is fair, so a step that waits for a lock that is released again and
\* again gets it.  Nothing is assumed of R code, Agent R or the user.
Fairness ==
    /\ \A t \in Turns : SF_vars(TaskStep(t)) /\ SF_vars(CancelStep(t))
    /\ \A c \in Callers :
         /\ SF_vars(Authorize(c))
         /\ WF_vars(CreateRun(c) \/ SnapshotFails(c))
         /\ WF_vars(FinishRun(c))
    /\ SF_vars(RestartStep)
    /\ WF_vars(DeliverStep)

FairSpec == Spec /\ Fairness

-----------------------------------------------------------------------------
(* Properties *)

\* Every variable has its type.
TypeOK ==
    /\ ready \in BOOLEAN
    /\ gen \in Gens
    /\ broker \in [Gens -> Identities]
    /\ ctx \in [Gens -> Callers \cup {Nobody}]
    /\ op \in [kind : {"idle", "cancel", "restart"}, turn : Turns \cup {Nobody}, step : OpSteps]
    /\ tasks \subseteq Turns
    /\ turn \in [Turns -> TurnStatus]
    /\ mode \in [Turns -> Modes]
    /\ pc \in [Callers -> PCs]
    /\ on \in [Callers -> Gens]
    /\ seen \in [Turns -> Identities]
    /\ req \in [Turns -> Requests \cup {Nobody}]
    /\ pay \in [Callers -> Codes \cup {Probe}]
    /\ cur \in [Callers -> Runs \cup {Nobody}]
    /\ live \in [Turns -> SUBSET Requests]
    /\ appr \in [Requests -> ApprovalRows]
    /\ waiters \subseteq Requests
    /\ inbox \in [Requests -> Decisions \cup {"none"}]
    /\ answers \subseteq Requests \X Decisions
    /\ gate \in Turns \cup {Nobody}
    /\ cancelled \subseteq Turns
    /\ run \in [Runs -> RunRows]
    /\ kernel \in [Runs -> KernelStates]
    /\ signals \subseteq Gens

\* A mutating run of an Agent turn used an approval of that very turn, for the
\* same arguments, that the user answered with "approve" (or the turn has the
\* Act session authorization); no two runs ever use the same approval
\* (approved_mutations of serve_desktop_agent).
AgentRunsApproved ==
    \A r \in Runs :
        run[r].status # "absent" /\ run[r].owner \in Turns /\ run[r].pay # Probe =>
            LET q == run[r].request IN
            /\ q \in Requests
            /\ appr[q].turn = run[r].owner
            /\ appr[q].pay = run[r].pay
            /\ inbox[q] = "approve" \/ mode[run[r].owner] = "auto"
            /\ \A s \in Runs \ {r} : run[s].status = "absent" \/ run[s].request # q

\* Nothing moves the broker's identity while a run executes: the context
\* mutex is held over the await of session.execute, and project_changed, the
\* project-root synchronisation and the other callers all need it.
IdentityStableDuringRun ==
    \A c \in Callers :
        pc[c] = "executing" => run[cur[c]].before = broker[on[c]]

\* A state revision names at most one committed mutation of a Workspace, so
\* that equal revisions mean the same history (BrokerState::complete).
RevisionNamesOneRun ==
    \A r, s \in Runs :
        /\ r # s
        /\ run[r].committed /\ run[s].committed
        /\ run[r].pay # Probe /\ run[s].pay # Probe
        /\ run[r].on = run[s].on
        => run[r].before.state # run[s].before.state

\* A run's revision tells what it ran on: the identity stays while the run executes and is
\* then never given to another mutation of that Workspace.
RevisionsTellRuns == IdentityStableDuringRun /\ RevisionNamesOneRun

\* While a Workspace is up, a nonterminal turn has a task working on it or a
\* cancel about to finish it, and a waiting approval has a turn waiting for
\* it: cancel, restart, crash and recovery strand neither.
NoOrphans ==
    ready =>
        /\ \A t \in Turns : turn[t] \in ActiveTurn => pc[t] # "none" \/ op.turn = t
        /\ \A q \in Requests : appr[q].status = "waiting" =>
             LET t == appr[q].turn IN
             \/ pc[t] \in {"registering", "awaiting", "deciding"} /\ req[t] = q
             \/ op.turn = t

\* A step that leaves every recorded turn outcome alone, but for a cancel that
\* found its turn active and records it as interrupted.
KeepsOutcomes ==
    \A t \in Turns :
        /\ turn[t] = "interrupted" => turn'[t] = "interrupted"
        /\ turn[t] \in {"completed", "failed"} /\ turn'[t] # turn[t] =>
             op = Cancelling(t, "record") /\ turn'[t] = "interrupted"

\* A turn recorded as interrupted stays so, and a completed or failed turn can
\* only be rewritten by a cancel that found it active (finish_agent_turn and
\* update_agent_turn_status overwrite unconditionally).
TurnOutcomeFinal == [][KeepsOutcomes]_vars

\* A step that creates run rows of Agent turns only for turns that are running.
RunsOfRunningTurns ==
    \A r \in Runs :
        run[r].status = "absent" /\ run'[r].status # "absent" /\ run'[r].owner \in Turns
          => turn[run'[r].owner] = "running"

\* Code of an Agent turn reaches Workspace R only while the turn is recorded as
\* running, never after its outcome was recorded: a cancel or a restart has
\* stopped the task before it writes the row (AbortHandle and JoinHandle).
RunsOnlyWhileRunning == [][RunsOfRunningTurns]_vars

-----------------------------------------------------------------------------
(* Inductive invariants: why the properties above hold *)

\* Labels at which a turn has an approval pending, or a request in flight that
\* has no run yet.
Pending == {"registering", "awaiting", "deciding"}
InFlight == {"lane", "ctxwait", "snapshot"}

\* No run has used the approval.
Unused(q) == \A r \in Runs : run[r].status = "absent" \/ run[r].request # q

\* The user (or the Act session authorization) granted q to turn t.
Granted(q, t) == appr[q].turn = t /\ (inbox[q] = "approve" \/ mode[t] = "auto")

\* A request that was not made yet belongs to nobody; a registered waiter has
\* no answer.
RequestOK(q) ==
    /\ appr[q].status = "absent" =>
         appr[q].turn = Nobody /\ inbox[q] = "none" /\ q \notin waiters /\ Unused(q)
    /\ q \in waiters => inbox[q] = "none"

\* What turn t holds: live approvals that are granted and unused, a request that
\* is pending, or a granted one that its dispatch consumed and no run used yet.
HoldingsOK(t) ==
    /\ \A q \in live[t] : Granted(q, t) /\ Unused(q)
    /\ pc[t] \in {"none", "launch", "idle", "exiting"} => req[t] = Nobody
    /\ pc[t] \in Pending =>
         /\ req[t] \in Requests /\ req[t] \notin live[t] /\ Unused(req[t])
         /\ appr[req[t]].turn = t
         /\ pc[t] = "registering" => inbox[req[t]] = "none" /\ req[t] \notin waiters
    /\ pc[t] \in InFlight /\ pay[t] = Probe => req[t] = Nobody
    /\ pc[t] \in InFlight /\ pay[t] # Probe =>
         /\ req[t] \in Requests /\ req[t] \notin live[t] /\ Unused(req[t])
         /\ Granted(req[t], t) /\ appr[req[t]].pay = pay[t]
    /\ turn[t] = "absent" =>
         /\ pc[t] = "none" /\ live[t] = {}
         /\ \A r \in Runs : run[r].owner # t

\* An approval is in one place at a time: not yet requested, pending at its
\* turn, live, consumed by the request its turn has in flight, or used by one
\* run; and it moves on only when granted.
ApprovalDiscipline ==
    /\ \A r \in Runs :
         run[r].status = "absent" => run[r].request = Nobody /\ run[r].owner = Nobody
    /\ \A q \in Requests : RequestOK(q)
    /\ \A t \in Turns : HoldingsOK(t)

\* A task that is not in the registry is one a cancel is stopping; recovery
\* runs with no task left; and a turn's row says what its task is doing.
TaskDiscipline ==
    /\ \A t \in Turns :
         /\ pc[t] # "none" =>
              t \in tasks \/ \E s \in {"signal", "poke", "join", "abort"} : op = Cancelling(t, s)
         /\ op = Cancelling(t, "record") => pc[t] = "none"
         /\ pc[t] \in {"awaiting", "deciding"} => turn[t] = "waiting"
         /\ pc[t] \in PCs \ {"none", "awaiting", "deciding", "exiting"} => turn[t] = "running"
         /\ pc[t] = "exiting" => turn[t] \in {"completed", "failed"}
    /\ op.kind = "restart" /\ op.step # "drain" => tasks = {}

\* A restart or a start still to come has a generation left for it.
StartsBounded ==
    op.kind = "restart" /\ op.step # "sync" => gen < MaxGen

-----------------------------------------------------------------------------
(* Liveness *)

\* Someone else's R code holds the current context.
WorkspaceBusy == \E c \in Callers : pc[c] = "executing" /\ c # op.turn /\ on[c] = gen

\* A cancel or a restart comes to its end, or R code that nobody can be sure
\* to stop holds the current context: the gate is not kept for ever by a task
\* that waits for the user, for its Agent R or for Ark.
TransitionEnds == (op # Idle) ~> (op = Idle \/ WorkspaceBusy)

\* A decision that was delivered is recorded, unless R code keeps the context
\* or the Workspace is gone.
AnswerReaches ==
    \A q \in Requests :
        (inbox[q] # "none") ~>
            (appr[q].status # "waiting" \/ ~ready \/ (\E c \in Callers : pc[c] = "executing"))

=============================================================================
