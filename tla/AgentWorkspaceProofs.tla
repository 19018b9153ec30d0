----------------------- MODULE AgentWorkspaceProofs -----------------------
(* Theorems about AgentWorkspace, for every value of its constants. *)
EXTENDS AgentWorkspace, TLAPS

\* A new identity is an identity, and Apply keeps it one.
LEMMA IdentityTypes ==
    /\ \A g \in Nat : NewIdentity(g) \in Identities
    /\ \A id \in Identities, class \in OperationClasses : Apply(id, class) \in Identities
<1>1. ASSUME NEW g \in Nat PROVE NewIdentity(g) \in Identities
  BY DEF Identities, NewIdentity
<1>2. ASSUME NEW id \in Identities, NEW class \in OperationClasses
      PROVE  Apply(id, class) \in Identities
  <2> DEFINE n == id.seq + 1
             s == IF class \in {"state_capable", "state_and_project"} THEN id.state + 1 ELSE id.state
             p == IF class \in {"project_mutation", "state_and_project"} THEN id.project + 1 ELSE id.project
  <2>1. n \in Nat /\ s \in Nat /\ p \in Nat
    BY DEF Identities
  <2>2. Apply(id, class) = [id EXCEPT !.seq = n, !.state = s, !.project = p]
    BY DEF Apply, Identities
  <2> HIDE DEF n, s, p
  <2> QED
    BY <2>1, <2>2 DEF Identities
<1> QED
  BY <1>1, <1>2

\* What the constants assumption says of classes, generations and Nobody.
LEMMA RowTypes ==
    /\ \A p : ClassOf(p) \in OperationClasses
    /\ Gens \subseteq Nat /\ 1 \in Gens
    /\ Nobody \notin Turns /\ Nobody \notin Consoles /\ Nobody \notin Requests /\ Nobody \notin Runs
BY ConstantsAssumption DEF ClassOf, OperationClasses, Gens

\* An update of one column keeps an approval or run row a row.
LEMMA RowUpdates ==
    /\ \A row \in ApprovalRows, s \in ApprovalStatus :
         [row EXCEPT !.status = s] \in ApprovalRows
    /\ \A row \in RunRows, s \in RunStatus, b \in BOOLEAN :
         [row EXCEPT !.status = s, !.cancel = b] \in RunRows
    /\ \A row \in RunRows, s \in RunStatus, b, d \in BOOLEAN :
         [row EXCEPT !.status = s, !.cancel = b, !.committed = d] \in RunRows
    /\ \A row \in RunRows, b \in BOOLEAN : [row EXCEPT !.cancel = b] \in RunRows
BY DEF ApprovalRows, RunRows

\* request_cancel keeps the run table typed.
LEMMA RequestCancelType ==
    ASSUME TypeOK, NEW r
    PROVE  RequestCancel(r) \in [Runs -> RunRows]
<1>1. CASE r \in Runs
  BY <1>1, RowUpdates DEF TypeOK, RequestCancel
<1>2. CASE r \notin Runs
  BY <1>2 DEF TypeOK, RequestCancel
<1> QED
  BY <1>1, <1>2

\* The state after workspace_start is well typed.
LEMMA InitType == Init => TypeOK
BY IdentityTypes, RowTypes, ConstantsAssumption
DEF Init, TypeOK, Callers, OperationClasses, TurnStatus, ActiveTurn, Modes, PCs, HoldsContext, HoldsLane,
    Idle, OpSteps, NoRow, NoApproval, RunRows, ApprovalRows, ApprovalStatus, RunStatus, ActiveRun, KernelStates, Decisions

\* Every step of a turn's task keeps the types.
LEMMA TaskTypes ==
    ASSUME TypeOK, ApprovalDiscipline, NEW t \in Turns, TaskStep(t)
    PROVE  TypeOK'
<1> USE IdentityTypes, RowTypes DEF TypeOK, brokerVars, turnVars, callerVars, apprVars, laneVars, runVars,
        Callers, PCs, HoldsContext, HoldsLane, Goto
<1>1. CASE Launch(t)
  BY <1>1 DEF Launch
<1>2. CASE ExitTask(t)
  BY <1>2 DEF ExitTask
<1>3. CASE RegisterWaiter(t)
  BY <1>3 DEF RegisterWaiter, ApprovalDiscipline, HoldingsOK, Pending, TurnStatus, ActiveTurn
<1>4. CASE ReceiveDecision(t)
  BY <1>4 DEF ReceiveDecision
<1>5. CASE DecideApproval(t)
  <2>1. PICK s \in ApprovalStatus :
          /\ appr' = [appr EXCEPT ![req[t]].status = s]
          /\ live' = IF s = "approved" THEN [live EXCEPT ![t] = @ \cup {req[t]}] ELSE live
    BY <1>5 DEF DecideApproval, ApprovalStatus
  <2>2. req[t] \in Requests
    BY <1>5 DEF DecideApproval, ApprovalDiscipline, HoldingsOK, Pending
  <2>3. appr' \in [Requests -> ApprovalRows]
    BY <2>1, <2>2, RowUpdates
  <2>4. live' \in [Turns -> SUBSET Requests]
    BY <2>1, <2>2
  <2> QED
    BY <1>5, <2>3, <2>4 DEF DecideApproval, TurnStatus, ActiveTurn
<1>6. CASE Reply(t)
  BY <1>6 DEF Reply
<1>7. CASE \E r \in Runs : EnterLane(t, r)
  BY <1>7 DEF EnterLane
<1> QED
  BY <1>1, <1>2, <1>3, <1>4, <1>5, <1>6, <1>7 DEF TaskStep

\* Every request of Agent R and every end of a turn keeps the types.
LEMMA AgentTypes ==
    ASSUME TypeOK, NEW t \in Turns, AgentStep(t)
    PROVE  TypeOK'
<1> USE IdentityTypes, RowTypes DEF TypeOK, brokerVars, turnVars, callerVars, apprVars, laneVars, runVars,
        Callers, PCs, HoldsContext, HoldsLane, Goto
<1>1. CASE DenyApproval(t)
  BY <1>1 DEF DenyApproval
<1>2. CASE RequestProbe(t)
  BY <1>2 DEF RequestProbe
<1>3. ASSUME NEW q \in Requests, NEW p \in Codes, RequestApproval(t, q, p)
      PROVE  TypeOK'
  <2>1. PICK s \in {"approved", "waiting"} :
          appr' = [appr EXCEPT ![q] = [status |-> s, turn |-> t, pay |-> p, at |-> broker[on[t]]]]
    BY <1>3 DEF RequestApproval
  <2>2. appr' \in [Requests -> ApprovalRows]
    BY <2>1 DEF ApprovalRows, ApprovalStatus
  <2> QED
    BY <1>3, <2>2 DEF RequestApproval
<1>4. ASSUME NEW q \in Requests, NEW p \in Codes, RequestMutation(t, q, p)
      PROVE  TypeOK'
  BY <1>4 DEF RequestMutation, ConsumeApproval
<1>5. ASSUME NEW s \in {"completed", "failed"}, FinishTurn(t, s)
      PROVE  TypeOK'
  BY <1>5 DEF FinishTurn, TurnStatus
<1> QED
  BY <1>1, <1>2, <1>3, <1>4, <1>5 DEF AgentStep

\* Every step of the dispatcher keeps the types.
LEMMA DispatchTypes ==
    ASSUME TypeOK, NEW c \in Callers, DispatchStep(c)
    PROVE  TypeOK'
<1> USE IdentityTypes, RowTypes DEF TypeOK, brokerVars, turnVars, callerVars, apprVars, laneVars, runVars,
        Callers, PCs, HoldsContext, HoldsLane, Goto
<1>1. CASE Authorize(c)
  BY <1>1 DEF Authorize
<1>2. CASE CreateRun(c)
  <2> DEFINE row == [status |-> "running", owner |-> c, on |-> on[c],
                     request |-> IF c \in Turns THEN req[c] ELSE Nobody,
                     pay |-> pay[c], before |-> broker[on[c]],
                     cancel |-> FALSE, committed |-> FALSE]
  <2>1. row \in RunRows
    BY DEF RunRows, RunStatus, ActiveRun
  <2>2. run' = [run EXCEPT ![cur[c]] = row]
    BY <1>2 DEF CreateRun
  <2> HIDE DEF row
  <2>3. run' \in [Runs -> RunRows]
    BY <2>1, <2>2
  <2> QED
    BY <1>2, <2>3 DEF CreateRun, KernelStates
<1>3. CASE SnapshotFails(c)
  BY <1>3 DEF SnapshotFails, LeaveDispatch
<1>4. CASE FinishRun(c)
  <2>1. PICK s \in RunStatus, d \in BOOLEAN :
          run' = [run EXCEPT ![cur[c]].status = s, ![cur[c]].cancel = FALSE, ![cur[c]].committed = d]
    <3> DEFINE st == CASE kernel[cur[c]] = "ok" -> "completed"
                       [] kernel[cur[c]] = "kernel_error" /\ run[cur[c]].cancel -> "interrupted"
                       [] OTHER -> "failed"
    <3>1. st \in RunStatus
      BY DEF RunStatus
    <3>2. Committed(cur[c]) \in BOOLEAN
      BY DEF Committed
    <3>3. run' = [run EXCEPT ![cur[c]].status = st, ![cur[c]].cancel = FALSE,
                             ![cur[c]].committed = Committed(cur[c])]
      BY <1>4, Zenon DEF FinishRun
    <3> QED
      BY <3>1, <3>2, <3>3, Zenon
  <2>2. run' \in [Runs -> RunRows]
    BY <2>1, RowUpdates
  <2>3. broker' \in [Gens -> Identities]
    BY <1>4 DEF FinishRun
  <2> QED
    BY <1>4, <2>2, <2>3 DEF FinishRun, LeaveDispatch
<1> QED
  BY <1>1, <1>2, <1>3, <1>4 DEF DispatchStep

\* What Ark does, and what is delivered to it or to a waiter, keeps the types.
LEMMA ArkTypes ==
    ASSUME TypeOK, ArkStep \/ DeliverStep
    PROVE  TypeOK'
<1> USE IdentityTypes, RowTypes DEF TypeOK, brokerVars, turnVars, callerVars, apprVars, laneVars, runVars,
        Callers, PCs, HoldsContext, HoldsLane, Goto
<1>1. ASSUME NEW r \in Runs, ArkStarts(r) PROVE TypeOK'
  BY <1>1 DEF ArkStarts, KernelStates
<1>2. ASSUME NEW r \in Runs, NEW o \in Outcomes, ArkEnds(r, o) PROVE TypeOK'
  BY <1>2 DEF ArkEnds, KernelStates, Outcomes
<1>3. ASSUME NEW q \in Requests, NEW d \in Replies, DeliverAnswer(q, d) PROVE TypeOK'
  <2>1. appr' \in [Requests -> ApprovalRows]
    <3>1. "interrupted" \in ApprovalStatus
      BY DEF ApprovalStatus
    <3>2. [appr EXCEPT ![q].status = "interrupted"] \in [Requests -> ApprovalRows]
      BY <3>1, RowUpdates
    <3> QED
      BY <1>3, <3>2 DEF DeliverAnswer
  <2> QED
    BY <1>3, <2>1, ConstantsAssumption DEF DeliverAnswer, Decisions
<1>4. ASSUME NEW g \in Gens, DeliverInterrupt(g) PROVE TypeOK'
  BY <1>4 DEF DeliverInterrupt, Interrupted, KernelStates
<1> QED
  BY <1>1, <1>2, <1>3, <1>4 DEF ArkStep, DeliverStep

\* Every command of the user keeps the types.
LEMMA UserTypes ==
    ASSUME TypeOK, UserStep
    PROVE  TypeOK'
<1> USE IdentityTypes, RowTypes DEF TypeOK, brokerVars, turnVars, callerVars, apprVars, laneVars, runVars,
        Callers, PCs, HoldsContext, HoldsLane, Goto
<1>1. ASSUME NEW t \in Turns, CancelTurn(t) PROVE TypeOK'
  BY <1>1 DEF CancelTurn, Cancelling, OpSteps
<1>2. ASSUME NEW t \in Turns, NEW m \in StartModes, StartTurn(t, m) PROVE TypeOK'
  BY <1>2, ConstantsAssumption DEF StartTurn, TurnStatus, ActiveTurn, Modes
<1>3. ASSUME NEW c \in Consoles, NEW p \in Codes, NEW r \in Runs, ConsoleCall(c, p, r) PROVE TypeOK'
  BY <1>3 DEF ConsoleCall
<1>4. ASSUME NEW q \in Requests, NEW d \in Replies, ReadApproval(q, d) PROVE TypeOK'
  BY <1>4, ConstantsAssumption DEF ReadApproval, Decisions
<1>5. ASSUME NEW r \in Runs, InterruptRun(r) PROVE TypeOK'
  <2>1. run' \in [Runs -> RunRows]
    BY <1>5, RowUpdates DEF InterruptRun, RequestCancel
  <2> QED
    BY <1>5, <2>1 DEF InterruptRun
<1>6. CASE ProjectChanged
  BY <1>6 DEF ProjectChanged, OperationClasses
<1>7. CASE Restart
  BY <1>7 DEF Restart, CancelWaiters, Restarting, OpSteps, Decisions
<1> QED
  BY <1>1, <1>2, <1>3, <1>4, <1>5, <1>6, <1>7 DEF UserStep

\* Every step of cancel_agent_turn_state keeps the types.
LEMMA CancelTypes ==
    ASSUME TypeOK, NEW t \in Turns, CancelStep(t)
    PROVE  TypeOK'
<1> USE IdentityTypes, RowTypes DEF TypeOK, brokerVars, turnVars, callerVars, apprVars, laneVars, runVars,
        Callers, PCs, HoldsContext, HoldsLane, Goto
<1>1. CASE CancelTakesTask(t)
  <2>1. run' \in [Runs -> RunRows]
    BY <1>1, RequestCancelType DEF CancelTakesTask
  <2>2. op' \in {Idle, Cancelling(t, "abort"), Cancelling(t, "signal"), Cancelling(t, "poke")}
    BY <1>1 DEF CancelTakesTask
  <2>3. inbox' \in [Requests -> Decisions \cup {"none"}] /\ waiters' \subseteq Requests
    BY <1>1 DEF CancelTakesTask, CancelWaiters, Decisions
  <2>4. tasks' \subseteq Turns /\ cancelled' \subseteq Turns
    BY <1>1 DEF CancelTakesTask
  <2> QED
    BY <1>1, <2>1, <2>2, <2>3, <2>4 DEF CancelTakesTask, Idle, Cancelling, OpSteps
<1>2. CASE CancelSignals(t)
  BY <1>2 DEF CancelSignals, Cancelling, OpSteps, Interrupted, KernelStates
<1>3. CASE CancelJoins(t)
  BY <1>3 DEF CancelJoins, Cancelling, OpSteps
<1>4. CASE CancelAborts(t)
  BY <1>4 DEF CancelAborts, AbortTasks, Cancelling, OpSteps
<1>5. CASE CancelRecords(t)
  <2>1. appr' \in [Requests -> ApprovalRows]
    BY <1>5, RowUpdates DEF CancelRecords, InterruptApprovals, ApprovalStatus
  <2> QED
    BY <1>5, <2>1 DEF CancelRecords, Idle, OpSteps, TurnStatus
<1> QED
  BY <1>1, <1>2, <1>3, <1>4, <1>5 DEF CancelStep

\* Every step of restart_workspace and start_workspace keeps the types: a start
\* has a generation left for it.
LEMMA RestartTypes ==
    ASSUME TypeOK, StartsBounded, RestartStep
    PROVE  TypeOK'
<1> USE IdentityTypes, RowTypes DEF TypeOK, brokerVars, turnVars, callerVars, apprVars, laneVars, runVars,
        Callers, PCs, HoldsContext, HoldsLane, Goto
<1>1. CASE RestartDrains
  <2>1. appr' \in [Requests -> ApprovalRows]
    BY <1>1, RowUpdates DEF RestartDrains, InterruptApprovals, ApprovalStatus
  <2>2. turn' \in [Turns -> TurnStatus]
    BY <1>1 DEF RestartDrains, TurnStatus
  <2> QED
    BY <1>1, <2>1, <2>2 DEF RestartDrains, AbortTasks, Restarting, OpSteps
<1>2. CASE RestartStops
  <2>1. run' \in [Runs -> RunRows]
    BY <1>2, RequestCancelType DEF RestartStops
  <2>2. kernel' \in [Runs -> KernelStates]
    BY <1>2 DEF RestartStops, Interrupted, KernelStates
  <2> QED
    BY <1>2, <2>1, <2>2 DEF RestartStops, Restarting, OpSteps
<1>3. CASE RestartWaits
  BY <1>3 DEF RestartWaits, Restarting, OpSteps
<1>4. CASE RestartTimesOut
  BY <1>4 DEF RestartTimesOut, Idle, OpSteps
<1>5. CASE StartWorkspace
  <2>1. run' \in [Runs -> RunRows]
    BY <1>5, RowUpdates DEF StartWorkspace, RecoverRuns, RunStatus
  <2>2. appr' \in [Requests -> ApprovalRows]
    BY <1>5, RowUpdates DEF StartWorkspace, RecoverApprovals, ApprovalStatus
  <2>3. gen' \in Gens
    BY <1>5, ConstantsAssumption DEF StartWorkspace, StartsBounded, Restarting, Gens
  <2> QED
    BY <1>5, <2>1, <2>2, <2>3 DEF StartWorkspace, RecoverTurns, TurnStatus, Restarting, Idle, OpSteps
<1>6. CASE StartFails
  BY <1>6 DEF StartFails, Idle, OpSteps
<1>7. CASE SyncProjectRoot
  BY <1>7 DEF SyncProjectRoot, Idle, OpSteps, OperationClasses
<1> QED
  BY <1>1, <1>2, <1>3, <1>4, <1>5, <1>6, <1>7 DEF RestartStep

\* So does the death of the process.
LEMMA CrashTypes ==
    ASSUME TypeOK, Crash
    PROVE  TypeOK'
BY RowTypes DEF TypeOK, Crash, Callers, PCs, HoldsContext, HoldsLane, Restarting, OpSteps, KernelStates

-----------------------------------------------------------------------------
(* The inductive step of TaskDiscipline and StartsBounded *)

\* At first no turn has a task.
LEMMA InitTask == Init => TaskDiscipline /\ StartsBounded
BY RowTypes DEF Init, TaskDiscipline, StartsBounded, Callers, Idle, Cancelling, PCs, HoldsContext, HoldsLane

\* A step of one caller that leaves tasks and op alone.
LEMMA TaskDisciplineTask ==
    ASSUME TypeOK, TaskDiscipline, StartsBounded, ApprovalDiscipline,
           NEW t \in Turns, TaskStep(t) \/ AgentStep(t)
    PROVE  TaskDiscipline' /\ StartsBounded'
<1> USE DEF TypeOK, TaskDiscipline, StartsBounded, brokerVars, turnVars, callerVars, Callers,
        PCs, HoldsContext, HoldsLane, Goto
<1>1. CASE Launch(t)
  BY <1>1 DEF Launch
<1>2. CASE ExitTask(t)
  BY <1>2 DEF ExitTask
<1>3. CASE RegisterWaiter(t)
  BY <1>3 DEF RegisterWaiter
<1>4. CASE ReceiveDecision(t)
  BY <1>4 DEF ReceiveDecision
<1>5. CASE DecideApproval(t)
  BY <1>5 DEF DecideApproval
<1>6. CASE Reply(t)
  BY <1>6 DEF Reply
<1>7. CASE \E r \in Runs : EnterLane(t, r)
  BY <1>7 DEF EnterLane
<1>8. CASE DenyApproval(t)
  BY <1>8 DEF DenyApproval
<1>9. CASE RequestProbe(t)
  BY <1>9 DEF RequestProbe
<1>10. ASSUME NEW q \in Requests, NEW p \in Codes, RequestApproval(t, q, p)
       PROVE  TaskDiscipline' /\ StartsBounded'
  BY <1>10 DEF RequestApproval
<1>11. ASSUME NEW q \in Requests, NEW p \in Codes, RequestMutation(t, q, p)
       PROVE  TaskDiscipline' /\ StartsBounded'
  BY <1>11 DEF RequestMutation
<1>12. ASSUME NEW s \in {"completed", "failed"}, FinishTurn(t, s)
       PROVE  TaskDiscipline' /\ StartsBounded'
  BY <1>12 DEF FinishTurn
<1> QED
  BY <1>1, <1>2, <1>3, <1>4, <1>5, <1>6, <1>7, <1>8, <1>9, <1>10, <1>11, <1>12 DEF TaskStep, AgentStep

\* A step of the dispatcher moves one caller and no turn row.
LEMMA TaskDisciplineDispatch ==
    ASSUME TypeOK, TaskDiscipline, StartsBounded, NEW c \in Callers, DispatchStep(c)
    PROVE  TaskDiscipline' /\ StartsBounded'
<1> USE ConstantsAssumption DEF TypeOK, TaskDiscipline, StartsBounded, brokerVars, turnVars, callerVars, Callers,
        PCs, HoldsContext, HoldsLane, Goto
<1>1. CASE Authorize(c)
  BY <1>1 DEF Authorize
<1>2. CASE CreateRun(c)
  BY <1>2 DEF CreateRun
<1>3. CASE SnapshotFails(c)
  BY <1>3 DEF SnapshotFails, LeaveDispatch
<1>4. CASE FinishRun(c)
  BY <1>4 DEF FinishRun, LeaveDispatch
<1> QED
  BY <1>1, <1>2, <1>3, <1>4 DEF DispatchStep

\* The user starts a task with its row, and touches no other.
LEMMA TaskDisciplineUser ==
    ASSUME TypeOK, TaskDiscipline, StartsBounded, UserStep \/ DeliverStep \/ ArkStep
    PROVE  TaskDiscipline' /\ StartsBounded'
<1> USE ConstantsAssumption DEF TypeOK, TaskDiscipline, StartsBounded, brokerVars, turnVars, callerVars, Callers,
        PCs, HoldsContext, HoldsLane, Goto
<1>1. ASSUME NEW t \in Turns, CancelTurn(t)
      PROVE  TaskDiscipline' /\ StartsBounded'
  BY <1>1 DEF CancelTurn, Cancelling, Idle
<1>2. ASSUME NEW t \in Turns, NEW m \in StartModes, StartTurn(t, m)
      PROVE  TaskDiscipline' /\ StartsBounded'
  <2>1. /\ op' = Idle /\ op.kind = "idle" /\ gen' = gen
        /\ tasks' = tasks \cup {t}
        /\ pc' = [pc EXCEPT ![t] = "launch"]
        /\ turn' = [turn EXCEPT ![t] = "running"]
    BY <1>2 DEF StartTurn, Idle
  <2>2. op'.kind = "idle" /\ \A u \in Turns, s \in OpSteps : op' # Cancelling(u, s) /\ op # Cancelling(u, s)
    BY <1>2, <2>1 DEF StartTurn, Idle, Cancelling
  <2>3. pc'[t] = "launch" /\ turn'[t] = "running" /\ t \in tasks'
    BY <2>1
  <2>4. \A u \in Turns \ {t} : pc'[u] = pc[u] /\ turn'[u] = turn[u] /\ (u \in tasks => u \in tasks')
    BY <2>1
  <2>5. ASSUME NEW u \in Turns, pc'[u] # "none" PROVE u \in tasks'
    BY <2>2, <2>3, <2>4, <2>5 DEF OpSteps
  <2>6. ASSUME NEW u \in Turns
        PROVE  /\ pc'[u] \in {"awaiting", "deciding"} => turn'[u] = "waiting"
               /\ pc'[u] \in PCs \ {"none", "awaiting", "deciding", "exiting"} => turn'[u] = "running"
               /\ pc'[u] = "exiting" => turn'[u] \in {"completed", "failed"}
    <3>1. CASE u = t
      BY <2>3, <3>1
    <3>2. CASE u # t
      BY <2>4, <3>2
    <3> QED
      BY <3>1, <3>2
  <2> HIDE DEF TypeOK, brokerVars, turnVars, callerVars, Callers, PCs, HoldsContext, HoldsLane, Goto
  <2> QED
    BY <2>2, <2>5, <2>6 DEF OpSteps
<1>3. ASSUME NEW c \in Consoles, NEW p \in Codes, NEW r \in Runs, ConsoleCall(c, p, r)
      PROVE  TaskDiscipline' /\ StartsBounded'
  BY <1>3 DEF ConsoleCall
<1>4. CASE Restart
  BY <1>4 DEF Restart, Restarting, Idle, Cancelling
<1>5. CASE UNCHANGED <<pc, turn, tasks, op, gen>>
  BY <1>5
<1>6. (\E q \in Requests, d \in Replies : ReadApproval(q, d)) \/ (\E r \in Runs : InterruptRun(r))
        \/ ProjectChanged \/ DeliverStep \/ ArkStep => UNCHANGED <<pc, turn, tasks, op, gen>>
  BY DEF ReadApproval, InterruptRun, ProjectChanged, DeliverStep, DeliverAnswer, DeliverInterrupt,
         ArkStep, ArkStarts, ArkEnds
<1> QED
  BY <1>1, <1>2, <1>3, <1>4, <1>5, <1>6 DEF UserStep

\* A cancel takes the task out of the registry first and records its outcome last.
LEMMA TaskDisciplineCancel ==
    ASSUME TypeOK, TaskDiscipline, StartsBounded, NEW t \in Turns, CancelStep(t)
    PROVE  TaskDiscipline' /\ StartsBounded'
<1> USE DEF TypeOK, TaskDiscipline, StartsBounded, brokerVars, turnVars, callerVars, Callers,
        PCs, HoldsContext, HoldsLane, Cancelling, Idle
<1>1. CASE CancelTakesTask(t)
  <2>1. op = Cancelling(t, "read") /\ UNCHANGED <<pc, turn, gen>>
    BY <1>1 DEF CancelTakesTask
  <2>2. \A u \in Turns : pc[u] # "none" => u \in tasks
    BY <2>1
  <2>3. CASE t \in tasks
    <3>1. PICK s \in {"abort", "signal", "poke"} : tasks' = tasks \ {t} /\ op' = Cancelling(t, s)
      BY <1>1, <2>3 DEF CancelTakesTask
    <3>2. /\ op'.kind = "cancel"
          /\ \A u \in Turns : op' # Cancelling(u, "record")
          /\ op' = Cancelling(t, "abort") \/ op' = Cancelling(t, "signal") \/ op' = Cancelling(t, "poke")
      BY <3>1
    <3> QED
      BY <2>1, <2>2, <3>1, <3>2
  <2>4. CASE t \notin tasks
    <3>1. tasks' = tasks /\ op' = Idle
      BY <1>1, <2>4 DEF CancelTakesTask
    <3>2. op'.kind = "idle" /\ \A u \in Turns : op' # Cancelling(u, "record")
      BY <3>1
    <3> QED
      BY <2>1, <2>2, <3>1, <3>2
  <2> QED
    BY <2>3, <2>4
<1>2. CASE CancelSignals(t)
  BY <1>2 DEF CancelSignals
<1>3. CASE CancelJoins(t)
  BY <1>3 DEF CancelJoins
<1>4. CASE CancelAborts(t)
  BY <1>4 DEF CancelAborts, AbortTasks
<1>5. CASE CancelRecords(t)
  BY <1>5 DEF CancelRecords
<1> QED
  BY <1>1, <1>2, <1>3, <1>4, <1>5 DEF CancelStep

\* A restart or a crash leaves no task behind.
LEMMA TaskDisciplineRestart ==
    ASSUME TypeOK, TaskDiscipline, StartsBounded, RestartStep \/ Crash
    PROVE  TaskDiscipline' /\ StartsBounded'
<1> USE DEF TypeOK, TaskDiscipline, StartsBounded, brokerVars, turnVars, callerVars, Callers,
        PCs, HoldsContext, HoldsLane, Cancelling, Restarting, Idle
<1>1. CASE RestartDrains
  BY <1>1 DEF RestartDrains, AbortTasks
<1>2. CASE RestartStops
  BY <1>2 DEF RestartStops
<1>3. CASE RestartWaits
  BY <1>3 DEF RestartWaits
<1>4. CASE RestartTimesOut
  BY <1>4 DEF RestartTimesOut
<1>5. CASE StartWorkspace
  BY <1>5 DEF StartWorkspace, RecoverTurns
<1>6. CASE StartFails
  BY <1>6 DEF StartFails
<1>7. CASE SyncProjectRoot
  BY <1>7 DEF SyncProjectRoot
<1>8. CASE Crash
  BY <1>8 DEF Crash
<1> QED
  BY <1>1, <1>2, <1>3, <1>4, <1>5, <1>6, <1>7, <1>8 DEF RestartStep

-----------------------------------------------------------------------------
(* The inductive step of ApprovalDiscipline and AgentRunsApproved *)

Approvals == ApprovalDiscipline /\ AgentRunsApproved

\* At first nothing was requested, granted or run.
LEMMA InitApprovals == Init => Approvals
BY RowTypes DEF Init, Approvals, ApprovalDiscipline, AgentRunsApproved, RequestOK, HoldingsOK, Unused,
                Pending, InFlight, Callers, NoRow, NoApproval

\* Run rows keep what an approval is about.
RunsKept ==
    \A r \in Runs : /\ run'[r].status = "absent" => run[r].status = "absent"
                    /\ run'[r].owner = run[r].owner
                    /\ run'[r].request = run[r].request
                    /\ run'[r].pay = run[r].pay

\* Approval rows keep whose they are and what for; only a waiter that goes gets
\* an answer.
RequestsKept ==
    /\ waiters' \subseteq waiters
    /\ \A q \in Requests :
         /\ appr'[q].status = "absent" => appr[q].status = "absent"
         /\ appr'[q].turn = appr[q].turn
         /\ appr'[q].pay = appr[q].pay
         /\ inbox'[q] = inbox[q] \/ (q \in waiters /\ q \notin waiters')

\* A turn stays where it is or returns from the dispatcher.
TurnsKept ==
    \A t \in Turns :
        /\ turn'[t] = "absent" => turn[t] = "absent"
        /\ \/ pc'[t] = pc[t] /\ pay'[t] = pay[t]
           \/ pc[t] # "none" /\ pc'[t] = "replying"

\* A step that closes rows or answers waiters and hands out nothing.
LEMMA KeptApprovals ==
    ASSUME TypeOK, Approvals, RunsKept, RequestsKept, TurnsKept, UNCHANGED <<mode, live, req>>
    PROVE  Approvals'
<1>1. ApprovalDiscipline /\ AgentRunsApproved /\ live \in [Turns -> SUBSET Requests]
  BY DEF Approvals, TypeOK
<1>2. \A r \in Runs : run'[r].status = "absent" => run'[r].request = Nobody /\ run'[r].owner = Nobody
  BY <1>1 DEF RunsKept, ApprovalDiscipline
<1>3. \A q \in Requests : Unused(q) => Unused(q)'
  BY <1>1, RowTypes DEF RunsKept, ApprovalDiscipline, Unused
<1>4. \A q \in Requests : RequestOK(q)'
  BY <1>1, <1>3 DEF RequestsKept, ApprovalDiscipline, RequestOK
<1>5. \A q \in Requests, t \in Turns : Granted(q, t) => Granted(q, t)'
  BY <1>1 DEF RequestsKept, ApprovalDiscipline, RequestOK, Granted
<1>6. ASSUME NEW t \in Turns PROVE HoldingsOK(t)'
  <2>1. HoldingsOK(t) /\ live[t] \subseteq Requests
    BY <1>1 DEF ApprovalDiscipline
  <2>2. \A r \in Runs : run'[r].owner = run[r].owner
    BY DEF RunsKept
  <2> QED
    BY <1>3, <1>5, <2>1, <2>2 DEF HoldingsOK, RequestsKept, TurnsKept, Pending, InFlight
<1>7. AgentRunsApproved'
  BY <1>1, RowTypes DEF AgentRunsApproved, ApprovalDiscipline, RequestOK, RunsKept, RequestsKept
<1> QED
  BY <1>2, <1>4, <1>6, <1>7 DEF Approvals, ApprovalDiscipline

\* request_cancel changes neither owner, approval nor payload of a row.
LEMMA RequestCancelKeeps ==
    ASSUME TypeOK, NEW r, run' = RequestCancel(r)
    PROVE  RunsKept
<1> SUFFICES ASSUME NEW s \in Runs
             PROVE  /\ run'[s].status = run[s].status /\ run'[s].owner = run[s].owner
                    /\ run'[s].request = run[s].request /\ run'[s].pay = run[s].pay
  BY DEF RunsKept
<1>1. run[s] \in RunRows
  BY DEF TypeOK
<1>2. CASE run'[s] = run[s]
  BY <1>2
<1>3. CASE run'[s] = [run[s] EXCEPT !.cancel = TRUE]
  BY <1>1, <1>3 DEF RunRows
<1> QED
  BY <1>2, <1>3 DEF TypeOK, RequestCancel

\* Nor does recover_incomplete_runs.
LEMMA RecoverRunsKeeps ==
    ASSUME TypeOK, RecoverRuns
    PROVE  RunsKept
<1> SUFFICES ASSUME NEW s \in Runs
             PROVE  /\ run'[s].status = "absent" => run[s].status = "absent"
                    /\ run'[s].owner = run[s].owner
                    /\ run'[s].request = run[s].request /\ run'[s].pay = run[s].pay
  BY DEF RunsKept
<1>1. run[s] \in RunRows
  BY DEF TypeOK
<1>2. CASE run'[s] = run[s]
  BY <1>2
<1>3. CASE run'[s] = [run[s] EXCEPT !.status = "interrupted", !.cancel = FALSE]
  BY <1>1, <1>3 DEF RunRows
<1> QED
  BY <1>2, <1>3 DEF RecoverRuns

\* A decided approval becomes live only if it was granted.
LEMMA ApprovalsTask ==
    ASSUME TypeOK, Approvals, TaskDiscipline, NEW t \in Turns, TaskStep(t)
    PROVE  Approvals'
<1> USE RowTypes DEF Approvals, TypeOK, ApprovalDiscipline, AgentRunsApproved, RequestOK, HoldingsOK, Granted,
        Unused, Pending, InFlight, brokerVars, turnVars, callerVars, apprVars, laneVars, runVars, Callers, Goto
<1>1. CASE Launch(t)
  BY <1>1 DEF Launch
<1>2. CASE ExitTask(t)
  BY <1>2 DEF ExitTask
<1>3. CASE RegisterWaiter(t)
  BY <1>3 DEF RegisterWaiter
<1>4. CASE ReceiveDecision(t)
  BY <1>4 DEF ReceiveDecision
<1>5. CASE DecideApproval(t)
  BY <1>5 DEF DecideApproval
<1>6. CASE Reply(t)
  BY <1>6 DEF Reply
<1>7. CASE \E r \in Runs : EnterLane(t, r)
  BY <1>7 DEF EnterLane
<1> QED
  BY <1>1, <1>2, <1>3, <1>4, <1>5, <1>6, <1>7 DEF TaskStep

\* A request takes its approval out of the live ones before it is dispatched.
LEMMA ApprovalsAgent ==
    ASSUME TypeOK, Approvals, TaskDiscipline, NEW t \in Turns, AgentStep(t)
    PROVE  Approvals'
<1> USE RowTypes DEF Approvals, TypeOK, ApprovalDiscipline, AgentRunsApproved, RequestOK, HoldingsOK, Granted,
        Unused, Pending, InFlight, brokerVars, turnVars, callerVars, apprVars, laneVars, runVars, Callers, Goto
<1>1. CASE DenyApproval(t)
  BY <1>1 DEF DenyApproval
<1>2. CASE RequestProbe(t)
  BY <1>2 DEF RequestProbe
<1>3. ASSUME NEW q \in Requests, NEW p \in Codes, RequestApproval(t, q, p)
      PROVE  Approvals'
  BY <1>3 DEF RequestApproval
<1>4. ASSUME NEW q \in Requests, NEW p \in Codes, RequestMutation(t, q, p)
      PROVE  Approvals'
  BY <1>4, ConstantsAssumption DEF RequestMutation, ConsumeApproval, MutationAllowed
<1>5. ASSUME NEW s \in {"completed", "failed"}, FinishTurn(t, s)
      PROVE  Approvals'
  BY <1>5 DEF FinishTurn
<1> QED
  BY <1>1, <1>2, <1>3, <1>4, <1>5 DEF AgentStep

\* Leaving the dispatcher moves its caller only.
LEMMA TurnsLeave ==
    ASSUME TypeOK, NEW c \in Callers, pc[c] # "none", LeaveDispatch(c), UNCHANGED turn
    PROVE  TurnsKept
<1>1. /\ pc' = [pc EXCEPT ![c] = IF c \in Turns THEN "replying" ELSE "none"]
      /\ pay' = [pay EXCEPT ![c] = Probe]
  BY DEF LeaveDispatch, Goto
<1>2. pc \in [Callers -> PCs] /\ DOMAIN pay = Callers
  BY DEF TypeOK
<1> QED
  BY <1>1, <1>2 DEF TurnsKept, Callers

\* The dispatcher's end hands out nothing: it closes a row and lets its caller go.
LEMMA ApprovalsSnapshotFails ==
    ASSUME TypeOK, Approvals, NEW c \in Callers, SnapshotFails(c)
    PROVE  Approvals'
<1>1. UNCHANGED <<run, appr, waiters, inbox, live, req, mode, turn>>
  BY DEF SnapshotFails, apprVars, runVars, turnVars
<1>2. RunsKept
  BY <1>1 DEF RunsKept
<1>3. RequestsKept
  BY <1>1 DEF RequestsKept
<1>4. pc[c] # "none" /\ LeaveDispatch(c)
  BY DEF SnapshotFails
<1>5. TurnsKept
  BY <1>1, <1>4, TurnsLeave
<1> QED
  BY <1>1, <1>2, <1>3, <1>5, KeptApprovals

LEMMA ApprovalsFinishRun ==
    ASSUME TypeOK, Approvals, NEW c \in Callers, FinishRun(c)
    PROVE  Approvals'
<1>1. UNCHANGED <<appr, waiters, inbox, live, req, mode, turn>>
  BY DEF FinishRun, apprVars, turnVars
<1>2. RunsKept
  BY DEF FinishRun, RunsKept, RunRows, TypeOK
<1>3. RequestsKept
  BY <1>1 DEF RequestsKept
<1>4. pc[c] # "none" /\ LeaveDispatch(c)
  BY DEF FinishRun
<1>5. TurnsKept
  BY <1>1, <1>4, TurnsLeave
<1> QED
  BY <1>1, <1>2, <1>3, <1>5, KeptApprovals

\* create_run uses the approval its caller holds, which no other run used.
LEMMA ApprovalsDispatch ==
    ASSUME TypeOK, Approvals, TaskDiscipline, NEW c \in Callers, DispatchStep(c)
    PROVE  Approvals'
<1> USE RowTypes DEF Approvals, TypeOK, ApprovalDiscipline, AgentRunsApproved, RequestOK, HoldingsOK, Granted,
        Unused, Pending, InFlight, brokerVars, turnVars, callerVars, apprVars, laneVars, runVars, Callers, Goto
<1>1. CASE Authorize(c)
  BY <1>1 DEF Authorize
<1>2. CASE CreateRun(c)
  BY <1>2 DEF CreateRun
<1> HIDE DEF Approvals, TypeOK, ApprovalDiscipline, AgentRunsApproved, RequestOK, HoldingsOK, Granted,
        Unused, Pending, InFlight
<1>3. CASE SnapshotFails(c)
  BY <1>3, ApprovalsSnapshotFails
<1>4. CASE FinishRun(c)
  BY <1>4, ApprovalsFinishRun
<1> QED
  BY <1>1, <1>2, <1>3, <1>4 DEF DispatchStep

\* An answer reaches at most one waiter, and creates no approval.
LEMMA ApprovalsUser ==
    ASSUME TypeOK, Approvals, TaskDiscipline, UserStep \/ DeliverStep \/ ArkStep
    PROVE  Approvals'
<1> USE RowTypes DEF Approvals, TypeOK, ApprovalDiscipline, AgentRunsApproved, RequestOK, HoldingsOK, Granted,
        Unused, Pending, InFlight, brokerVars, turnVars, callerVars, apprVars, laneVars, runVars, Callers, Goto
<1>1. ASSUME NEW t \in Turns, CancelTurn(t) PROVE Approvals'
  BY <1>1 DEF CancelTurn
<1>2. ASSUME NEW t \in Turns, NEW m \in StartModes, StartTurn(t, m) PROVE Approvals'
  BY <1>2 DEF StartTurn
<1>3. ASSUME NEW c \in Consoles, NEW p \in Codes, NEW r \in Runs, ConsoleCall(c, p, r) PROVE Approvals'
  BY <1>3, ConstantsAssumption DEF ConsoleCall
<1>4. ASSUME NEW q \in Requests, NEW d \in Replies, ReadApproval(q, d) PROVE Approvals'
  BY <1>4 DEF ReadApproval
<1>5. ASSUME NEW r \in Runs, InterruptRun(r) PROVE Approvals'
  BY <1>5 DEF InterruptRun, RequestCancel
<1>6. CASE ProjectChanged
  BY <1>6 DEF ProjectChanged
<1>7. CASE Restart
  BY <1>7 DEF Restart, CancelWaiters
<1>8. ASSUME NEW q \in Requests, NEW d \in Replies, DeliverAnswer(q, d) PROVE Approvals'
  <2>1. RunsKept
    BY <1>8 DEF DeliverAnswer, RunsKept
  <2>2. RequestsKept
    <3>1. ASSUME NEW s \in Requests
          PROVE  /\ appr'[s].status = "absent" => appr[s].status = "absent"
                 /\ appr'[s].turn = appr[s].turn /\ appr'[s].pay = appr[s].pay
      <4>1. CASE appr'[s] = appr[s]
        BY <4>1
      <4>2. CASE appr'[s] = [appr[s] EXCEPT !.status = "interrupted"]
        BY <4>2 DEF ApprovalRows
      <4> QED
        BY <1>8, <4>1, <4>2 DEF DeliverAnswer
    <3>2. waiters' \subseteq waiters
      BY <1>8 DEF DeliverAnswer
    <3>3. \A s \in Requests : inbox'[s] = inbox[s] \/ (s \in waiters /\ s \notin waiters')
      BY <1>8 DEF DeliverAnswer, Listening
    <3> QED
      BY <3>1, <3>2, <3>3 DEF RequestsKept
  <2>3. TurnsKept
    BY <1>8 DEF DeliverAnswer, TurnsKept
  <2> QED
    BY <1>8, <2>1, <2>2, <2>3, KeptApprovals DEF DeliverAnswer
<1>9. CASE (\E g \in Gens : DeliverInterrupt(g)) \/ ArkStep
  BY <1>9 DEF DeliverInterrupt, ArkStep, ArkStarts, ArkEnds
<1> QED
  BY <1>1, <1>2, <1>3, <1>4, <1>5, <1>6, <1>7, <1>8, <1>9 DEF UserStep, DeliverStep

\* A cancel gives the approvals of its turn to nobody.
LEMMA ApprovalsCancel ==
    ASSUME TypeOK, Approvals, TaskDiscipline, NEW t \in Turns, CancelStep(t)
    PROVE  Approvals'
<1> USE RowTypes DEF Approvals, TypeOK, ApprovalDiscipline, AgentRunsApproved, RequestOK, HoldingsOK, Granted,
        Unused, Pending, InFlight, brokerVars, turnVars, callerVars, apprVars, laneVars, runVars, Callers, Goto
<1>1. CASE CancelTakesTask(t)
  <2>1. RunsKept
    <3>1. run' = run \/ run' = RequestCancel(cur[t])
      BY <1>1 DEF CancelTakesTask
    <3>2. run' = run => RunsKept
      BY DEF RunsKept
    <3> QED
      BY <3>1, <3>2, RequestCancelKeeps
  <2>2. RequestsKept
    <3>1. appr' = appr /\ waiters' \subseteq waiters
      BY <1>1 DEF CancelTakesTask, CancelWaiters
    <3>2. CASE t \in tasks
      <4>1. CancelWaiters(RequestsOf({t}))
        BY <1>1, <3>2 DEF CancelTakesTask
      <4> QED
        BY <3>1, <4>1 DEF CancelWaiters, RequestsKept
    <3>3. CASE t \notin tasks
      BY <1>1, <3>1, <3>3 DEF CancelTakesTask, RequestsKept
    <3> QED
      BY <3>2, <3>3
  <2>3. TurnsKept
    BY <1>1 DEF CancelTakesTask, TurnsKept
  <2> QED
    BY <1>1, <2>1, <2>2, <2>3, KeptApprovals DEF CancelTakesTask
<1>2. CASE CancelSignals(t)
  BY <1>2 DEF CancelSignals
<1>3. CASE CancelJoins(t)
  BY <1>3 DEF CancelJoins
<1>4. CASE CancelAborts(t)
  BY <1>4 DEF CancelAborts, AbortTasks
<1>5. CASE CancelRecords(t)
  BY <1>5 DEF CancelRecords, InterruptApprovals
<1> QED
  BY <1>1, <1>2, <1>3, <1>4, <1>5 DEF CancelStep

\* Nor do a restart, a recovery or a crash.
LEMMA ApprovalsRestart ==
    ASSUME TypeOK, Approvals, TaskDiscipline, RestartStep \/ Crash
    PROVE  Approvals'
<1> USE RowTypes DEF Approvals, TypeOK, ApprovalDiscipline, AgentRunsApproved, RequestOK, HoldingsOK, Granted,
        Unused, Pending, InFlight, brokerVars, turnVars, callerVars, apprVars, laneVars, runVars, Callers, Goto
<1>1. CASE RestartDrains
  BY <1>1 DEF RestartDrains, AbortTasks, InterruptApprovals
<1>2. CASE RestartStops
  <2>1. RunsKept
    <3>1. run' = run \/ \E r \in Runs : run' = RequestCancel(r)
      BY <1>2 DEF RestartStops
    <3>2. run' = run => RunsKept
      BY DEF RunsKept
    <3> QED
      BY <3>1, <3>2, RequestCancelKeeps
  <2>2. RequestsKept
    BY <1>2 DEF RestartStops, RequestsKept
  <2>3. TurnsKept
    BY <1>2 DEF RestartStops, TurnsKept
  <2> QED
    BY <1>2, <2>1, <2>2, <2>3, KeptApprovals DEF RestartStops
<1>3. CASE RestartWaits \/ RestartTimesOut \/ StartFails \/ SyncProjectRoot
  BY <1>3 DEF RestartWaits, RestartTimesOut, StartFails, SyncProjectRoot
<1>4. CASE StartWorkspace
  <2>1. RunsKept
    BY <1>4, RecoverRunsKeeps DEF StartWorkspace
  <2>2. RequestsKept
    BY <1>4 DEF StartWorkspace, RequestsKept, RecoverApprovals, ApprovalRows
  <2>3. TurnsKept
    BY <1>4 DEF StartWorkspace, TurnsKept, RecoverTurns, ActiveTurn
  <2> QED
    BY <1>4, <2>1, <2>2, <2>3, KeptApprovals DEF StartWorkspace
<1>5. CASE Crash
  BY <1>5 DEF Crash
<1> QED
  BY <1>1, <1>2, <1>3, <1>4, <1>5 DEF RestartStep

-----------------------------------------------------------------------------
(* The theorems *)

Inv == TypeOK /\ StartsBounded /\ TaskDiscipline /\ Approvals

\* The inductive invariant holds at the start ...
LEMMA InvInit == Init => Inv
BY InitType, InitTask, InitApprovals DEF Inv

\* ... and every step keeps it.
LEMMA InvStep == Inv /\ [Next]_vars => Inv'
<1> SUFFICES ASSUME Inv, [Next]_vars PROVE Inv'
  OBVIOUS
<1>1. TypeOK /\ StartsBounded /\ TaskDiscipline /\ Approvals /\ ApprovalDiscipline
  BY DEF Inv, Approvals
<1>2. ASSUME NEW t \in Turns, TaskStep(t) PROVE Inv'
  BY <1>1, <1>2, TaskTypes, TaskDisciplineTask, ApprovalsTask DEF Inv
<1>3. ASSUME NEW t \in Turns, AgentStep(t) PROVE Inv'
  BY <1>1, <1>3, AgentTypes, TaskDisciplineTask, ApprovalsAgent DEF Inv
<1>4. ASSUME NEW t \in Turns, CancelStep(t) PROVE Inv'
  BY <1>1, <1>4, CancelTypes, TaskDisciplineCancel, ApprovalsCancel DEF Inv
<1>5. ASSUME NEW c \in Callers, DispatchStep(c) PROVE Inv'
  BY <1>1, <1>5, DispatchTypes, TaskDisciplineDispatch, ApprovalsDispatch DEF Inv
<1>6. CASE ArkStep \/ DeliverStep
  BY <1>1, <1>6, ArkTypes, TaskDisciplineUser, ApprovalsUser DEF Inv
<1>7. CASE UserStep
  BY <1>1, <1>7, UserTypes, TaskDisciplineUser, ApprovalsUser DEF Inv
<1>8. CASE RestartStep
  BY <1>1, <1>8, RestartTypes, TaskDisciplineRestart, ApprovalsRestart DEF Inv
<1>9. CASE Crash
  BY <1>1, <1>9, CrashTypes, TaskDisciplineRestart, ApprovalsRestart DEF Inv
<1>10. CASE UNCHANGED vars
  BY <1>1, <1>10 DEF vars, brokerVars, turnVars, callerVars, apprVars, laneVars, runVars,
     Inv, Approvals, TypeOK, StartsBounded, TaskDiscipline, ApprovalDiscipline, AgentRunsApproved,
     RequestOK, HoldingsOK, Granted, Unused
<1> QED
  BY <1>2, <1>3, <1>4, <1>5, <1>6, <1>7, <1>8, <1>9, <1>10 DEF Next

\* So it holds of every reachable state: tasks, rows and approvals agree.
THEOREM Invariance == Spec => []Inv
BY InvInit, InvStep, PTL DEF Spec

\* Every reachable state of the desktop's turn, approval, lane and run state is
\* well typed (the rows of rho-store and AppState).
THEOREM TypeCorrect == Spec => []TypeOK
<1>1. Inv => TypeOK
  BY DEF Inv
<1> QED
  BY <1>1, Invariance, PTL

\* However many turns, requests, users and restarts there are, a mutating Agent
\* run used a granted approval of its own turn for its own arguments, and no
\* approval serves two runs (authorize_agent_workspace_request).
THEOREM AgentRunsAreApproved == Spec => []AgentRunsApproved
<1>1. Inv => AgentRunsApproved
  BY DEF Inv, Approvals
<1> QED
  BY <1>1, Invariance, PTL

-----------------------------------------------------------------------------
(* What a step may never do *)

\* A row that a step writes, other than create_run, keeps its owner.
LEMMA OwnersKept ==
  ASSUME TypeOK, Next, \A c \in Callers : ~CreateRun(c)
  PROVE  \A r \in Runs : run'[r].owner = run[r].owner
<1> USE DEF brokerVars, turnVars, callerVars, apprVars, laneVars, runVars
<1>1. ASSUME NEW r \in Runs PROVE run[r] \in RunRows
  BY DEF TypeOK
<1>2. ASSUME NEW s, run' = RequestCancel(s) PROVE \A r \in Runs : run'[r].owner = run[r].owner
  BY <1>1, <1>2 DEF RequestCancel, RunRows, TypeOK
<1>3. ASSUME NEW t \in Turns, TaskStep(t) \/ AgentStep(t) PROVE UNCHANGED run
  BY <1>3 DEF TaskStep, Launch, ExitTask, RegisterWaiter, ReceiveDecision, DecideApproval, Reply, EnterLane,
     AgentStep, DenyApproval, RequestProbe, RequestApproval, RequestMutation, FinishTurn
<1>4. ASSUME NEW t \in Turns, CancelStep(t) PROVE \A r \in Runs : run'[r].owner = run[r].owner
  <2>1. CASE CancelTakesTask(t)
    BY <2>1, <1>2 DEF CancelTakesTask
  <2>2. CASE CancelSignals(t) \/ CancelJoins(t) \/ CancelAborts(t) \/ CancelRecords(t)
    BY <2>2 DEF CancelSignals, CancelJoins, CancelAborts, CancelRecords
  <2> QED
    BY <1>4, <2>1, <2>2 DEF CancelStep
<1>5. ASSUME NEW c \in Callers, DispatchStep(c) PROVE \A r \in Runs : run'[r].owner = run[r].owner
  <2>1. CASE FinishRun(c)
    BY <2>1, <1>1 DEF FinishRun, RunRows, TypeOK
  <2>2. CASE Authorize(c) \/ SnapshotFails(c)
    BY <2>2 DEF Authorize, SnapshotFails
  <2> QED
    BY <1>5, <2>1, <2>2 DEF DispatchStep
<1>6. CASE ArkStep \/ DeliverStep \/ Crash
  BY <1>6 DEF ArkStep, ArkStarts, ArkEnds, DeliverStep, DeliverAnswer, DeliverInterrupt, Crash
<1>7. CASE UserStep
  <2>1. ASSUME NEW r \in Runs, InterruptRun(r) PROVE run' = RequestCancel(r)
    BY <2>1 DEF InterruptRun
  <2> QED
    BY <1>7, <1>2, <2>1 DEF UserStep, CancelTurn, StartTurn, ConsoleCall, ReadApproval, ProjectChanged, Restart
<1>8. CASE RestartStep
  <2>1. CASE RestartStops
    BY <2>1, <1>2 DEF RestartStops
  <2>2. CASE StartWorkspace
    BY <2>2, <1>1 DEF StartWorkspace, RecoverRuns, RunRows
  <2>3. CASE RestartDrains \/ RestartWaits \/ RestartTimesOut \/ StartFails \/ SyncProjectRoot
    BY <2>3 DEF RestartDrains, RestartWaits, RestartTimesOut, StartFails, SyncProjectRoot
  <2> QED
    BY <1>8, <2>1, <2>2, <2>3 DEF RestartStep
<1> QED
  BY <1>3, <1>4, <1>5, <1>6, <1>7, <1>8 DEF Next

\* A row appears only in create_run, of a task whose turn is running.
LEMMA RunsOfRunningTurnsStep == Inv /\ [Next]_vars => RunsOfRunningTurns
<1> SUFFICES ASSUME Inv, [Next]_vars, NEW r \in Runs,
                    run[r].status = "absent", run'[r].status # "absent", run'[r].owner \in Turns
             PROVE  turn[run'[r].owner] = "running"
  BY DEF RunsOfRunningTurns
<1>1. TypeOK /\ TaskDiscipline /\ run[r].owner = Nobody
  BY DEF Inv, Approvals, ApprovalDiscipline
<1>2. ASSUME NEW c \in Callers, CreateRun(c) PROVE turn[run'[r].owner] = "running"
  <2>1. run'[r] # run[r] => run'[r].owner = c
    BY <1>1, <1>2 DEF CreateRun, TypeOK
  <2>2. run'[r].owner = c
    BY <2>1
  <2>3. c \in Turns => turn[c] = "running"
    BY <1>1, <1>2 DEF CreateRun, TaskDiscipline, PCs, HoldsContext
  <2> QED
    BY <2>2, <2>3
<1>3. CASE \A c \in Callers : ~CreateRun(c)
  <2>1. run'[r].owner = Nobody
    BY <1>1, <1>3, OwnersKept DEF vars, runVars
  <2> QED
    BY <2>1, ConstantsAssumption
<1> QED
  BY <1>2, <1>3

\* Only a task that is alive, a cancel or a recovery writes a turn row.
LEMMA KeepsOutcomesStep == Inv /\ [Next]_vars => KeepsOutcomes
<1> SUFFICES ASSUME Inv, [Next]_vars PROVE KeepsOutcomes
  OBVIOUS
<1> USE DEF brokerVars, turnVars, callerVars, apprVars, laneVars, runVars
<1>1. TypeOK /\ TaskDiscipline
  BY DEF Inv
<1>2. ASSUME UNCHANGED turn PROVE KeepsOutcomes
  BY <1>2 DEF KeepsOutcomes
<1>3. ASSUME NEW t \in Turns, NEW s, turn' = [turn EXCEPT ![t] = s],
             turn[t] \in ActiveTurn \cup {"absent"}
      PROVE  KeepsOutcomes
  BY <1>1, <1>3 DEF KeepsOutcomes, ActiveTurn, TypeOK
<1>4. ASSUME NEW T, turn' = [t \in Turns |-> IF t \in T /\ turn[t] \in ActiveTurn THEN "interrupted" ELSE turn[t]]
      PROVE  KeepsOutcomes
  BY <1>4 DEF KeepsOutcomes, ActiveTurn
<1>5. ASSUME NEW t \in Turns, TaskStep(t) PROVE KeepsOutcomes
  <2>1. CASE RegisterWaiter(t)
    BY <1>1, <1>3, <2>1 DEF RegisterWaiter, TaskDiscipline, PCs, HoldsContext, ActiveTurn
  <2>2. CASE DecideApproval(t)
    BY <1>1, <1>3, <2>2 DEF DecideApproval, TaskDiscipline, ActiveTurn
  <2>3. CASE Launch(t) \/ ExitTask(t) \/ ReceiveDecision(t) \/ Reply(t) \/ \E r \in Runs : EnterLane(t, r)
    BY <1>2, <2>3 DEF Launch, ExitTask, ReceiveDecision, Reply, EnterLane
  <2> QED
    BY <1>5, <2>1, <2>2, <2>3 DEF TaskStep
<1>6. ASSUME NEW t \in Turns, AgentStep(t) PROVE KeepsOutcomes
  <2>1. ASSUME NEW s, FinishTurn(t, s) PROVE KeepsOutcomes
    BY <1>1, <1>3, <2>1 DEF FinishTurn, TaskDiscipline, PCs, ActiveTurn
  <2> QED
    BY <1>2, <1>6, <2>1 DEF AgentStep, DenyApproval, RequestProbe, RequestApproval, RequestMutation
<1>7. ASSUME NEW t \in Turns, CancelStep(t) PROVE KeepsOutcomes
  <2>1. CASE CancelRecords(t)
    BY <1>1, <2>1 DEF CancelRecords, KeepsOutcomes, TypeOK
  <2> QED
    BY <1>2, <1>7, <2>1 DEF CancelStep, CancelTakesTask, CancelSignals, CancelJoins, CancelAborts
<1>8. ASSUME NEW c \in Callers, DispatchStep(c) PROVE KeepsOutcomes
  BY <1>2, <1>8 DEF DispatchStep, Authorize, CreateRun, SnapshotFails, FinishRun
<1>9. CASE ArkStep \/ DeliverStep \/ Crash \/ UNCHANGED vars
  BY <1>2, <1>9 DEF ArkStep, ArkStarts, ArkEnds, DeliverStep, DeliverAnswer, DeliverInterrupt, Crash, vars
<1>10. CASE UserStep
  <2>1. ASSUME NEW t \in Turns, NEW m, StartTurn(t, m) PROVE KeepsOutcomes
    BY <1>3, <2>1 DEF StartTurn
  <2> QED
    BY <1>2, <1>10, <2>1 DEF UserStep, CancelTurn, ConsoleCall, ReadApproval, InterruptRun, ProjectChanged, Restart
<1>11. CASE RestartStep
  <2>1. CASE RestartDrains
    <3>1. turn' = [t \in Turns |-> IF t \in tasks /\ turn[t] \in ActiveTurn THEN "interrupted" ELSE turn[t]]
      BY <1>1, <2>1 DEF RestartDrains, TypeOK
    <3> QED
      BY <3>1, <1>4
  <2>2. CASE StartWorkspace
    BY <2>2 DEF StartWorkspace, RecoverTurns, KeepsOutcomes, ActiveTurn
  <2> QED
    BY <1>2, <1>11, <2>1, <2>2 DEF RestartStep, RestartStops, RestartWaits, RestartTimesOut, StartFails, SyncProjectRoot
<1> QED
  BY <1>5, <1>6, <1>7, <1>8, <1>9, <1>10, <1>11 DEF Next

\* No cancel, restart or crash leaves behind a task that can still send code to
\* Workspace R: a run of an Agent turn starts only while its row is running.
THEOREM NoRunAfterOutcome == Spec => RunsOnlyWhileRunning
BY Invariance, RunsOfRunningTurnsStep, PTL DEF Spec, RunsOnlyWhileRunning

\* The unconditional writes of finish_agent_turn and update_agent_turn_status
\* never change an outcome, but for a cancel that read the turn as active.
THEOREM OutcomesAreFinal == Spec => TurnOutcomeFinal
BY Invariance, KeepsOutcomesStep, PTL DEF Spec, TurnOutcomeFinal

-----------------------------------------------------------------------------
(* The context mutex, and what a revision names *)

\* A caller that holds its context is the holder the mutex knows; the run it dispatches
\* has no row before it executes, and then a row that tells the identity it runs on.
CallerOK(c) ==
    /\ pc[c] \in HoldsContext => ctx[on[c]] = c
    /\ pc[c] \in HoldsLane => cur[c] \in Runs
    /\ pc[c] \in {"ctxwait", "snapshot"} => run[cur[c]].status = "absent"
    /\ pc[c] = "executing" =>
         /\ run[cur[c]].before = broker[on[c]] /\ run[cur[c]].on = on[c]
         /\ run[cur[c]].pay = pay[c]
         /\ run[cur[c]].status # "absent" /\ ~run[cur[c]].committed

\* No two callers dispatch the same run.
CursDistinct == \A c, d \in Callers : c # d /\ cur[c] # Nobody => cur[c] # cur[d]

\* A committed mutation is behind the revision its Workspace is at.
CommittedOK(r) ==
    /\ run[r].status = "absent" => ~run[r].committed
    /\ run[r].committed /\ run[r].pay # Probe => run[r].before.state < broker[run[r].on].state

ContextDiscipline ==
    /\ \A c \in Callers : CallerOK(c)
    /\ CursDistinct
    /\ \A r \in Runs : CommittedOK(r)
    /\ RevisionNamesOneRun

\* Caller d stays where it is, or lets go of the context and of the lane; what it works
\* on is as before.
CallerStays(d) ==
    /\ pc'[d] = pc[d] \/ pc'[d] \notin HoldsContext \cup HoldsLane
    /\ pc'[d] \in HoldsContext \cup HoldsLane =>
         on'[d] = on[d] /\ cur'[d] = cur[d] /\ pay'[d] = pay[d]
    /\ pc'[d] \in HoldsContext => ctx'[on[d]] = ctx[on[d]]
    /\ pc'[d] = "executing" => broker'[on[d]] = broker[on[d]]

\* The columns of a run row that identify it.
RowStays(r) ==
    /\ run'[r].status = "absent" <=> run[r].status = "absent"
    /\ run'[r].before = run[r].before /\ run'[r].on = run[r].on
    /\ run'[r].pay = run[r].pay /\ run'[r].committed = run[r].committed

\* State revisions never go back.
RevisionsGrow == \A g \in Gens : broker'[g].state >= broker[g].state

\* Applying an operation never takes a state revision back.
LEMMA ApplyGrows ==
    ASSUME NEW id \in Identities, NEW class \in OperationClasses
    PROVE  /\ Apply(id, class).state >= id.state
           /\ class = "state_capable" => Apply(id, class).state = id.state + 1
BY DEF Identities, Apply, OperationClasses

\* A broker that stays has revisions that do not go back.
LEMMA StillGrows ==
    ASSUME TypeOK, UNCHANGED broker
    PROVE  RevisionsGrow
<1>1. ASSUME NEW g \in Gens PROVE broker[g].state \in Nat
  BY DEF TypeOK, Identities
<1> QED
  BY <1>1 DEF RevisionsGrow

\* A run id that a caller dispatches is a run id.
LEMMA CurType ==
    ASSUME TypeOK, NEW c \in Callers
    PROVE  /\ on[c] \in Gens /\ cur[c] \in Runs \cup {Nobody} /\ pc[c] \in PCs
           /\ pay[c] \in Codes \cup {Probe}
BY DEF TypeOK

\* A caller that stays keeps its discipline.
LEMMA CallerKept ==
    ASSUME TypeOK, NEW d \in Callers, CallerOK(d), CallerStays(d),
           pc'[d] \in HoldsLane => RowStays(cur[d])
    PROVE  CallerOK(d)'
<1> USE DEF CallerOK, CallerStays, RowStays, HoldsContext, HoldsLane
<1>1. (pc[d] \in HoldsContext => ctx[on[d]] = d)'
  OBVIOUS
<1>2. (pc[d] \in HoldsLane => cur[d] \in Runs)'
  OBVIOUS
<1>3. (pc[d] \in {"ctxwait", "snapshot"} => run[cur[d]].status = "absent")'
  OBVIOUS
<1>4. ASSUME pc'[d] = "executing"
      PROVE  (/\ run[cur[d]].before = broker[on[d]] /\ run[cur[d]].on = on[d]
              /\ run[cur[d]].pay = pay[d]
              /\ run[cur[d]].status # "absent" /\ ~run[cur[d]].committed)'
  BY <1>4
<1> QED
  BY <1>1, <1>2, <1>3, <1>4

\* A row that stays is still behind its Workspace.
LEMMA RowKept ==
    ASSUME TypeOK, TypeOK', RevisionsGrow, NEW r \in Runs, CommittedOK(r), RowStays(r)
    PROVE  CommittedOK(r)'
<1> DEFINE g == run[r].on
           b == run[r].before.state
<1>1. g \in Gens /\ b \in Nat
  BY DEF TypeOK, RunRows, Identities
<1>2. broker[g].state \in Nat /\ broker'[g].state \in Nat
  BY <1>1 DEF TypeOK, Identities
<1>3. broker'[g].state >= broker[g].state
  BY <1>1 DEF RevisionsGrow
<1>4. b < broker[g].state => b < broker'[g].state
  <2> HIDE DEF b
  <2> QED
    BY <1>1, <1>2, <1>3
<1> QED
  BY <1>4 DEF CommittedOK, RowStays

\* Rows that all stay still have revisions of their own.
LEMMA NamesKept ==
    ASSUME RevisionNamesOneRun, \A r \in Runs : RowStays(r)
    PROVE  RevisionNamesOneRun'
BY DEF RevisionNamesOneRun, RowStays

\* A step after which every caller and every row stays keeps the discipline.
LEMMA ContextKept ==
    ASSUME TypeOK, TypeOK', ContextDiscipline,
           \A d \in Callers : CallerStays(d) /\ cur'[d] \in {cur[d], Nobody},
           \A r \in Runs : RowStays(r), RevisionsGrow
    PROVE  ContextDiscipline'
<1>1. ASSUME NEW d \in Callers PROVE CallerOK(d)'
  <2>1. CallerOK(d) /\ CallerStays(d)
    BY DEF ContextDiscipline
  <2>2. pc'[d] \in HoldsLane => cur[d] \in Runs
    BY <2>1 DEF CallerOK, CallerStays
  <2> QED
    BY <2>1, <2>2, CallerKept
<1>2. CursDistinct'
  BY DEF ContextDiscipline, CursDistinct
<1>3. ASSUME NEW r \in Runs PROVE CommittedOK(r)'
  BY RowKept DEF ContextDiscipline
<1> QED
  BY <1>1, <1>2, <1>3, NamesKept DEF ContextDiscipline

\* No row changes, or only flags of cancellation do.
LEMMA RowsStay ==
    /\ TypeOK /\ UNCHANGED run => \A r \in Runs : RowStays(r)
    /\ \A s : TypeOK /\ run' = RequestCancel(s) => \A r \in Runs : RowStays(r)
    /\ TypeOK /\ RecoverRuns => \A r \in Runs : RowStays(r)
<1>1. ASSUME TypeOK, UNCHANGED run PROVE \A r \in Runs : RowStays(r)
  BY <1>1 DEF RowStays
<1>2. ASSUME NEW s, TypeOK, run' = RequestCancel(s), NEW r \in Runs PROVE RowStays(r)
  <2>1. run[r] \in RunRows /\ run \in [Runs -> RunRows]
    BY <1>2 DEF TypeOK
  <2>2. run'[r] = IF r = s THEN [run[r] EXCEPT !.cancel = TRUE] ELSE run[r]
    BY <1>2, <2>1 DEF RequestCancel
  <2> QED
    BY <2>1, <2>2 DEF RowStays, RunRows
<1>3. ASSUME TypeOK, RecoverRuns, NEW r \in Runs PROVE RowStays(r)
  <2>1. run[r] \in RunRows
    BY <1>3 DEF TypeOK
  <2> QED
    BY <1>3, <2>1 DEF RowStays, RunRows, RecoverRuns, ActiveRun
<1> QED
  BY <1>1, <1>2, <1>3

\* The discipline holds of the state after workspace_start.
LEMMA InitContext == Init => ContextDiscipline
BY DEF Init, ContextDiscipline, CallerOK, CursDistinct, CommittedOK, RevisionNamesOneRun, HoldsContext, HoldsLane,
       NoRow, Callers

\* What changes no caller and no row keeps the discipline.
LEMMA QuietContext ==
    ASSUME TypeOK, TypeOK', ContextDiscipline, UNCHANGED <<broker, ctx, pc, on, cur, pay>>,
           \A r \in Runs : RowStays(r)
    PROVE  ContextDiscipline'
<1>1. ASSUME NEW d \in Callers PROVE CallerStays(d) /\ cur'[d] \in {cur[d], Nobody}
  BY DEF CallerStays
<1>2. RevisionsGrow
  BY StillGrows
<1> QED
  BY <1>1, <1>2, ContextKept

\* Only caller c moves: it may take or release a context, and change the identity of the
\* one it holds and the row of the run it dispatches.
OnlyMoves(c) ==
    /\ \A d \in Callers \ {c} :
         pc'[d] = pc[d] /\ on'[d] = on[d] /\ cur'[d] = cur[d] /\ pay'[d] = pay[d]
    /\ \A g \in Gens : ctx'[g] = ctx[g] \/ ctx[g] \in {c, Nobody}
    /\ \A g \in Gens : broker'[g] = broker[g] \/ ctx[g] = c
    /\ \A r \in Runs \ {cur[c]} : RowStays(r)
    /\ cur'[c] \in {cur[c], Nobody} \/ \A d \in Callers : cur[d] # cur'[c]

\* The other callers keep their discipline: they hold other contexts and other runs.
LEMMA OthersKept ==
    ASSUME TypeOK, ContextDiscipline, NEW c \in Callers, OnlyMoves(c)
    PROVE  CursDistinct' /\ \A d \in Callers \ {c} : CallerOK(d)'
<1>1. ASSUME NEW d \in Callers \ {c} PROVE CallerOK(d)'
  <2>1. CallerOK(d) /\ on[d] \in Gens /\ d # Nobody
    BY CurType, RowTypes DEF ContextDiscipline, Callers
  <2>2. CallerStays(d)
    <3>1. pc[d] \in HoldsContext => ctx[on[d]] = d
      BY <2>1 DEF CallerOK
    <3>2. pc[d] \in HoldsContext => ctx'[on[d]] = ctx[on[d]] /\ broker'[on[d]] = broker[on[d]]
      BY <2>1, <3>1 DEF OnlyMoves
    <3> QED
      BY <3>2 DEF OnlyMoves, CallerStays, HoldsContext
  <2>3. pc'[d] \in HoldsLane => RowStays(cur[d])
    <3>1. ASSUME pc'[d] \in HoldsLane PROVE RowStays(cur[d])
      <4>1. cur[d] \in Runs /\ cur[d] # Nobody
        BY <2>1, <3>1, RowTypes DEF OnlyMoves, CallerOK
      <4>2. cur[d] # cur[c]
        BY <4>1 DEF ContextDiscipline, CursDistinct
      <4> QED
        BY <4>1, <4>2 DEF OnlyMoves
    <3> QED
      BY <3>1
  <2> QED
    BY <2>1, <2>2, <2>3, CallerKept
<1>2. CursDistinct'
  <2> SUFFICES ASSUME NEW d \in Callers, NEW e \in Callers, d # e, cur'[d] # Nobody
               PROVE  cur'[d] # cur'[e]
    BY DEF CursDistinct
  <2>1. \A u, v \in Callers : u # v /\ cur[u] # Nobody => cur[u] # cur[v]
    BY DEF ContextDiscipline, CursDistinct
  <2> QED
    BY <2>1 DEF OnlyMoves
<1> QED
  BY <1>1, <1>2

\* Caller c moves, and every row and every identity stays.
LEMMA MovesKept ==
    ASSUME TypeOK, TypeOK', ContextDiscipline, NEW c \in Callers, OnlyMoves(c),
           UNCHANGED broker, \A r \in Runs : RowStays(r), CallerOK(c)'
    PROVE  ContextDiscipline'
<1>1. \A r \in Runs : CommittedOK(r)'
  BY StillGrows, RowKept DEF ContextDiscipline
<1> QED
  BY <1>1, OthersKept, NamesKept DEF ContextDiscipline

\* Every step of a turn's task keeps the discipline.
LEMMA ContextTask ==
    ASSUME TypeOK, TypeOK', ContextDiscipline, NEW t \in Turns, TaskStep(t)
    PROVE  ContextDiscipline'
<1> USE DEF brokerVars, turnVars, callerVars, apprVars, laneVars, runVars, Goto
<1>1. t \in Callers /\ t # Nobody /\ CallerOK(t) /\ on[t] \in Gens
  BY RowTypes, CurType DEF Callers, ContextDiscipline
<1>2. pc \in [Callers -> PCs] /\ ctx \in [Gens -> Callers \cup {Nobody}]
      /\ cur \in [Callers -> Runs \cup {Nobody}]
  BY DEF TypeOK
<1>3. UNCHANGED <<run, broker>> /\ \A r \in Runs : RowStays(r)
  <2>1. UNCHANGED <<run, broker>>
    BY DEF TaskStep, Launch, ExitTask, RegisterWaiter, ReceiveDecision, DecideApproval, Reply, EnterLane
  <2> QED
    BY <2>1, RowsStay
<1>4. ASSUME NEW l, pc' = [pc EXCEPT ![t] = l], UNCHANGED <<on, cur, pay>>,
             \A g \in Gens : ctx'[g] = ctx[g] \/ ctx[g] = t,
             l \notin HoldsContext \cup HoldsLane
      PROVE  ContextDiscipline'
  <2>1. OnlyMoves(t)
    BY <1>1, <1>2, <1>3, <1>4 DEF OnlyMoves
  <2>2. CallerOK(t)'
    BY <1>1, <1>2, <1>4 DEF CallerOK, HoldsContext, HoldsLane
  <2> QED
    BY <1>1, <1>3, <2>1, <2>2, MovesKept
<1>5. CASE Launch(t) \/ ExitTask(t) \/ ReceiveDecision(t) \/ DecideApproval(t) \/ Reply(t)
  <2>1. PICK l \in {"idle", "none", "deciding", "replying"} : pc' = [pc EXCEPT ![t] = l]
    BY <1>5 DEF Launch, ExitTask, ReceiveDecision, DecideApproval, Reply
  <2>2. UNCHANGED <<on, cur, pay, ctx>>
    BY <1>5 DEF Launch, ExitTask, ReceiveDecision, DecideApproval, Reply
  <2> QED
    BY <1>4, <2>1, <2>2 DEF HoldsContext, HoldsLane
<1>6. CASE RegisterWaiter(t)
  <2>1. ctx[on[t]] = t
    BY <1>1, <1>6 DEF RegisterWaiter, CallerOK, HoldsContext
  <2>2. \A g \in Gens : ctx'[g] = ctx[g] \/ ctx[g] = t
    BY <1>2, <1>6, <2>1 DEF RegisterWaiter
  <2>3. pc' = [pc EXCEPT ![t] = "awaiting"] /\ UNCHANGED <<on, cur, pay>>
    BY <1>6 DEF RegisterWaiter
  <2> QED
    BY <1>4, <2>2, <2>3 DEF HoldsContext, HoldsLane
<1>7. ASSUME NEW r \in Runs, EnterLane(t, r) PROVE ContextDiscipline'
  <2>1. UNCHANGED <<on, pay, ctx>>
    BY <1>7 DEF EnterLane
  <2>2. CASE AdmitExecution(t)
    <3>1. /\ pc' = [pc EXCEPT ![t] = "ctxwait"] /\ cur' = [cur EXCEPT ![t] = r]
          /\ run[r].status = "absent" /\ \A c \in Callers : cur[c] # r
      BY <1>7, <2>2 DEF EnterLane
    <3>2. OnlyMoves(t)
      BY <1>1, <1>2, <1>3, <2>1, <3>1 DEF OnlyMoves
    <3>3. CallerOK(t)'
      BY <1>1, <1>2, <1>3, <3>1 DEF CallerOK, HoldsContext, HoldsLane
    <3> QED
      BY <1>1, <1>3, <3>2, <3>3, MovesKept
  <2>3. CASE ~AdmitExecution(t)
    <3>1. pc' = [pc EXCEPT ![t] = "replying"] /\ UNCHANGED cur
      BY <1>7, <2>3 DEF EnterLane
    <3> QED
      BY <1>4, <2>1, <3>1 DEF HoldsContext, HoldsLane
  <2> QED
    BY <2>2, <2>3
<1> QED
  BY <1>5, <1>6, <1>7 DEF TaskStep

\* Every request of Agent R and every end of a turn keeps the discipline.
LEMMA ContextAgent ==
    ASSUME TypeOK, TypeOK', ContextDiscipline, NEW t \in Turns, AgentStep(t)
    PROVE  ContextDiscipline'
<1> USE DEF brokerVars, turnVars, callerVars, apprVars, laneVars, runVars, Goto
<1>1. t \in Callers /\ t # Nobody /\ on[t] \in Gens
  BY RowTypes, CurType DEF Callers
<1>2. /\ pc \in [Callers -> PCs] /\ ctx \in [Gens -> Callers \cup {Nobody}]
      /\ pay \in [Callers -> Codes \cup {Probe}]
  BY DEF TypeOK
<1>3. /\ UNCHANGED <<run, broker, on, cur>> /\ \A r \in Runs : RowStays(r)
      /\ \A d \in Callers \ {t} : pay'[d] = pay[d]
  <2>1. UNCHANGED <<run, broker, on, cur>>
    BY DEF AgentStep, DenyApproval, RequestProbe, RequestApproval, RequestMutation, FinishTurn
  <2>2. \A d \in Callers \ {t} : pay'[d] = pay[d]
    BY <1>1, <1>2 DEF AgentStep, DenyApproval, RequestProbe, RequestApproval, RequestMutation, FinishTurn
  <2> QED
    BY <2>1, <2>2, RowsStay
<1>4. ASSUME NEW l, pc' = [pc EXCEPT ![t] = l], UNCHANGED ctx, l \notin HoldsContext \cup HoldsLane
      PROVE  ContextDiscipline'
  <2>1. OnlyMoves(t)
    BY <1>1, <1>2, <1>3, <1>4 DEF OnlyMoves
  <2>2. CallerOK(t)'
    BY <1>1, <1>2, <1>4 DEF CallerOK, HoldsContext, HoldsLane
  <2> QED
    BY <1>1, <1>3, <2>1, <2>2, MovesKept
<1>5. ASSUME NEW q \in Requests, NEW p \in Codes, RequestApproval(t, q, p) PROVE ContextDiscipline'
  <2>1. CASE mode[t] = "auto"
    <3>1. pc' = [pc EXCEPT ![t] = "replying"] /\ UNCHANGED ctx
      BY <1>5, <2>1 DEF RequestApproval
    <3> QED
      BY <1>4, <3>1 DEF HoldsContext, HoldsLane
  <2>2. CASE mode[t] # "auto"
    <3>1. /\ pc' = [pc EXCEPT ![t] = "registering"] /\ ctx' = [ctx EXCEPT ![on[t]] = t]
          /\ ctx[on[t]] = Nobody
      BY <1>5, <2>2 DEF RequestApproval, Free
    <3>2. OnlyMoves(t)
      BY <1>1, <1>2, <1>3, <3>1 DEF OnlyMoves
    <3>3. CallerOK(t)'
      BY <1>1, <1>2, <1>3, <3>1 DEF CallerOK, HoldsContext, HoldsLane
    <3> QED
      BY <1>1, <1>3, <3>2, <3>3, MovesKept
  <2> QED
    BY <2>1, <2>2
<1>6. CASE ~\E q \in Requests, p \in Codes : RequestApproval(t, q, p)
  <2>1. PICK l \in {"replying", "lane", "exiting"} : pc' = [pc EXCEPT ![t] = l]
    BY <1>6 DEF AgentStep, DenyApproval, RequestProbe, RequestMutation, FinishTurn
  <2>2. UNCHANGED ctx
    BY <1>6 DEF AgentStep, DenyApproval, RequestProbe, RequestMutation, FinishTurn
  <2> QED
    BY <1>4, <2>1, <2>2 DEF HoldsContext, HoldsLane
<1> QED
  BY <1>5, <1>6

\* What FinishRun does to the broker and to the row of its run.
LEMMA FinishRunEffect ==
    ASSUME TypeOK, ContextDiscipline, NEW c \in Callers, FinishRun(c)
    PROVE  /\ cur[c] \in Runs /\ on[c] \in Gens /\ ctx[on[c]] = c
           /\ \A r \in Runs \ {cur[c]} : RowStays(r)
           /\ run'[cur[c]].status # "absent"
           /\ run'[cur[c]].before = broker[on[c]] /\ run'[cur[c]].on = on[c]
           /\ run'[cur[c]].pay = pay[c]
           /\ \A g \in Gens : broker'[g] = broker[g] \/ g = on[c]
           /\ RevisionsGrow
           /\ run'[cur[c]].committed /\ pay[c] # Probe =>
                broker'[on[c]].state = broker[on[c]].state + 1
<1> DEFINE r == cur[c]
<1>1. /\ r \in Runs /\ on[c] \in Gens /\ ctx[on[c]] = c
      /\ run[r].before = broker[on[c]] /\ run[r].on = on[c] /\ run[r].pay = pay[c]
  BY CurType DEF FinishRun, ContextDiscipline, CallerOK, HoldsContext, HoldsLane
<1>2. /\ run \in [Runs -> RunRows] /\ run[r] \in RunRows
      /\ broker \in [Gens -> Identities] /\ broker[on[c]] \in Identities
  BY <1>1 DEF TypeOK
<1>3. PICK st \in {"completed", "interrupted", "failed"} :
        run' = [run EXCEPT ![r].status = st, ![r].cancel = FALSE, ![r].committed = Committed(r)]
  <2> DEFINE st == CASE kernel[r] = "ok" -> "completed"
                     [] kernel[r] = "kernel_error" /\ run[r].cancel -> "interrupted"
                     [] OTHER -> "failed"
  <2>1. st \in {"completed", "interrupted", "failed"}
    OBVIOUS
  <2>2. run' = [run EXCEPT ![r].status = st, ![r].cancel = FALSE, ![r].committed = Committed(r)]
    BY Zenon DEF FinishRun
  <2> QED
    BY <2>1, <2>2, Zenon
<1>4. broker' = IF Committed(r) THEN [broker EXCEPT ![on[c]] = Apply(broker[on[c]], ClassOf(pay[c]))] ELSE broker
  BY DEF FinishRun
<1> HIDE DEF r
<1>5. \A s \in Runs \ {r} : RowStays(s)
  BY <1>1, <1>2, <1>3 DEF RowStays
<1>6. /\ run'[r].status # "absent" /\ run'[r].before = run[r].before /\ run'[r].on = run[r].on
      /\ run'[r].pay = run[r].pay /\ run'[r].committed = Committed(r)
  BY <1>1, <1>2, <1>3 DEF RunRows
<1>7. ClassOf(pay[c]) \in OperationClasses /\ (pay[c] # Probe => ClassOf(pay[c]) = "state_capable")
  BY RowTypes DEF ClassOf
<1> DEFINE a == Apply(broker[on[c]], ClassOf(pay[c]))
<1>8. a.state >= broker[on[c]].state /\ (pay[c] # Probe => a.state = broker[on[c]].state + 1)
  BY <1>2, <1>7, ApplyGrows
<1> HIDE DEF a
<1>9. \A g \in Gens : broker'[g] = IF Committed(r) /\ g = on[c] THEN a ELSE broker[g]
  BY <1>1, <1>2, <1>4 DEF a
<1>10. \A g \in Gens : broker[g].state \in Nat
  BY <1>2 DEF Identities
<1>11. RevisionsGrow
  BY <1>8, <1>9, <1>10 DEF RevisionsGrow
<1> QED
  BY <1>1, <1>5, <1>6, <1>8, <1>9, <1>11 DEF r

\* A run that finished is behind its Workspace, and before it no run had its revision.
LEMMA ContextFinishRun ==
    ASSUME TypeOK, TypeOK', ContextDiscipline, NEW c \in Callers, FinishRun(c)
    PROVE  ContextDiscipline'
<1> DEFINE r == cur[c]
           g == on[c]
<1>1. /\ r \in Runs /\ g \in Gens /\ ctx[g] = c
      /\ \A s \in Runs \ {r} : RowStays(s)
      /\ run'[r].status # "absent" /\ run'[r].before = broker[g] /\ run'[r].on = g
      /\ run'[r].pay = pay[c]
      /\ \A h \in Gens : broker'[h] = broker[h] \/ h = g
      /\ RevisionsGrow
      /\ run'[r].committed /\ pay[c] # Probe => broker'[g].state = broker[g].state + 1
  BY FinishRunEffect
<1>2. /\ ctx' = [ctx EXCEPT ![g] = Nobody] /\ cur' = [cur EXCEPT ![c] = Nobody]
      /\ pay' = [pay EXCEPT ![c] = Probe] /\ UNCHANGED on
      /\ pc' = [pc EXCEPT ![c] = IF c \in Turns THEN "replying" ELSE "none"]
  BY DEF FinishRun, LeaveDispatch, Goto
<1>3. /\ pc \in [Callers -> PCs] /\ ctx \in [Gens -> Callers \cup {Nobody}]
      /\ cur \in [Callers -> Runs \cup {Nobody}] /\ pay \in [Callers -> Codes \cup {Probe}]
      /\ \A h \in Gens : broker[h].state \in Nat
  BY DEF TypeOK, Identities
<1> HIDE DEF r, g
<1>4. OnlyMoves(c)
  <2>1. \A d \in Callers \ {c} :
          pc'[d] = pc[d] /\ on'[d] = on[d] /\ cur'[d] = cur[d] /\ pay'[d] = pay[d]
    BY <1>2, <1>3
  <2>2. \A h \in Gens : ctx'[h] = ctx[h] \/ ctx[h] \in {c, Nobody}
    BY <1>1, <1>2, <1>3
  <2>3. \A h \in Gens : broker'[h] = broker[h] \/ ctx[h] = c
    BY <1>1
  <2>4. cur'[c] = Nobody
    BY <1>2, <1>3
  <2> QED
    BY <1>1, <2>1, <2>2, <2>3, <2>4 DEF OnlyMoves, r
<1>5. CallerOK(c)'
  BY <1>2, <1>3 DEF CallerOK, HoldsContext, HoldsLane
<1>6. ASSUME NEW s \in Runs PROVE CommittedOK(s)'
  <2>1. CASE s # r
    BY <1>1, <2>1, RowKept DEF ContextDiscipline
  <2>2. CASE s = r
    BY <1>1, <1>3, <2>2 DEF CommittedOK
  <2> QED
    BY <2>1, <2>2
<1>7. RevisionNamesOneRun'
  <2>1. ASSUME NEW s \in Runs \ {r}, run'[s].committed, run'[s].pay # Probe, run'[s].on = g
        PROVE  run'[s].before.state # run'[r].before.state
    <3>1. CommittedOK(s) /\ RowStays(s)
      BY <1>1 DEF ContextDiscipline
    <3>2. run[s].before.state < broker[g].state
      BY <2>1, <3>1 DEF CommittedOK, RowStays
    <3>3. run[s].before.state \in Nat
      BY DEF TypeOK, RunRows, Identities
    <3>4. run[s].before.state # broker[g].state
      BY <1>1, <1>3, <3>2, <3>3
    <3> QED
      BY <1>1, <3>1, <3>4 DEF RowStays
  <2>2. ASSUME NEW s \in Runs \ {r}, NEW u \in Runs \ {r}, s # u,
               run'[s].committed, run'[u].committed, run'[s].pay # Probe, run'[u].pay # Probe,
               run'[s].on = run'[u].on
        PROVE  run'[s].before.state # run'[u].before.state
    BY <1>1, <2>2 DEF ContextDiscipline, RevisionNamesOneRun, RowStays
  <2> QED
    BY <1>1, <2>1, <2>2 DEF RevisionNamesOneRun
<1> QED
  BY <1>4, <1>5, <1>6, <1>7, OthersKept DEF ContextDiscipline

\* A run that is created takes its identity from the context its caller holds.
LEMMA ContextCreateRun ==
    ASSUME TypeOK, TypeOK', ContextDiscipline, NEW c \in Callers, CreateRun(c)
    PROVE  ContextDiscipline'
<1> DEFINE r == cur[c]
<1>1. r \in Runs /\ on[c] \in Gens /\ ctx[on[c]] = c /\ CallerOK(c) /\ run[r].status = "absent"
  BY CurType DEF CreateRun, ContextDiscipline, CallerOK, HoldsContext, HoldsLane
<1>2. /\ UNCHANGED <<broker, ctx, on, cur, pay>> /\ pc' = [pc EXCEPT ![c] = "executing"]
      /\ pc \in [Callers -> PCs] /\ run \in [Runs -> RunRows]
  BY DEF CreateRun, Goto, TypeOK, brokerVars
<1>3. /\ run'[r].status = "running" /\ run'[r].on = on[c] /\ run'[r].pay = pay[c]
      /\ run'[r].before = broker[on[c]] /\ ~run'[r].committed
  BY <1>1, <1>2 DEF CreateRun
<1>4. \A s \in Runs \ {r} : RowStays(s)
  BY <1>1, <1>2 DEF CreateRun, RowStays
<1> HIDE DEF r
<1>5. OnlyMoves(c)
  BY <1>1, <1>2, <1>4 DEF OnlyMoves, r
<1>6. CallerOK(c)'
  BY <1>1, <1>2, <1>3 DEF CallerOK, HoldsContext, HoldsLane, r
<1>7. ASSUME NEW s \in Runs PROVE CommittedOK(s)'
  <2>1. CASE s # r
    BY <1>2, <1>4, <2>1, RowKept, StillGrows DEF ContextDiscipline
  <2>2. CASE s = r
    BY <1>3, <2>2 DEF CommittedOK
  <2> QED
    BY <2>1, <2>2
<1>8. RevisionNamesOneRun'
  <2>1. \A s \in Runs : run'[s].committed => s # r /\ RowStays(s)
    BY <1>3, <1>4
  <2> QED
    BY <2>1 DEF ContextDiscipline, RevisionNamesOneRun, RowStays
<1> QED
  BY <1>5, <1>6, <1>7, <1>8, OthersKept DEF ContextDiscipline

\* Every step of the dispatcher keeps the discipline.
LEMMA ContextDispatch ==
    ASSUME TypeOK, TypeOK', ContextDiscipline, NEW c \in Callers, DispatchStep(c)
    PROVE  ContextDiscipline'
<1> USE DEF brokerVars, turnVars, callerVars, apprVars, laneVars, runVars, Goto
<1>1. CallerOK(c) /\ on[c] \in Gens
  BY CurType DEF ContextDiscipline
<1>2. /\ pc \in [Callers -> PCs] /\ ctx \in [Gens -> Callers \cup {Nobody}]
      /\ cur \in [Callers -> Runs \cup {Nobody}] /\ pay \in [Callers -> Codes \cup {Probe}]
  BY DEF TypeOK
<1>3. CASE Authorize(c)
  <2>1. pc[c] = "ctxwait" /\ ctx[on[c]] = Nobody /\ UNCHANGED <<run, broker, on, pay>>
    BY <1>3 DEF Authorize, Free
  <2>2. \A r \in Runs : RowStays(r)
    BY <2>1, RowsStay
  <2>3. \/ pc' = [pc EXCEPT ![c] = "snapshot"] /\ ctx' = [ctx EXCEPT ![on[c]] = c] /\ UNCHANGED cur
        \/ pc' = [pc EXCEPT ![c] = "replying"] /\ cur' = [cur EXCEPT ![c] = Nobody] /\ UNCHANGED ctx
    BY <1>3 DEF Authorize
  <2>4. OnlyMoves(c)
    BY <1>1, <1>2, <2>1, <2>2, <2>3 DEF OnlyMoves
  <2>5. CallerOK(c)'
    BY <1>1, <1>2, <2>1, <2>3 DEF CallerOK, HoldsContext, HoldsLane
  <2> QED
    BY <2>1, <2>2, <2>4, <2>5, MovesKept
<1>4. CASE SnapshotFails(c)
  <2>1. ctx[on[c]] = c /\ UNCHANGED <<run, broker, on>>
    BY <1>1, <1>4 DEF SnapshotFails, CallerOK, HoldsContext
  <2>2. \A r \in Runs : RowStays(r)
    BY <2>1, RowsStay
  <2>3. /\ ctx' = [ctx EXCEPT ![on[c]] = Nobody] /\ cur' = [cur EXCEPT ![c] = Nobody]
        /\ pay' = [pay EXCEPT ![c] = Probe]
        /\ pc' = [pc EXCEPT ![c] = IF c \in Turns THEN "replying" ELSE "none"]
    BY <1>4 DEF SnapshotFails, LeaveDispatch
  <2>4. OnlyMoves(c)
    BY <1>1, <1>2, <2>1, <2>2, <2>3 DEF OnlyMoves
  <2>5. CallerOK(c)'
    BY <1>1, <1>2, <2>1, <2>3 DEF CallerOK, HoldsContext, HoldsLane
  <2> QED
    BY <2>1, <2>2, <2>4, <2>5, MovesKept
<1> QED
  BY <1>3, <1>4, ContextCreateRun, ContextFinishRun DEF DispatchStep

\* Aborting tasks drops their guards and nobody else's.
LEMMA AbortContext ==
    ASSUME TypeOK, TypeOK', ContextDiscipline, NEW T \in SUBSET Turns, AbortTasks(T),
           UNCHANGED <<broker, run, on, pay>>
    PROVE  ContextDiscipline'
<1>1. ASSUME NEW d \in Callers PROVE CallerStays(d) /\ cur'[d] \in {cur[d], Nobody}
  <2>1. CallerOK(d) /\ on[d] \in Gens
    BY CurType DEF ContextDiscipline
  <2>2. CASE d \in T
    BY <2>2 DEF AbortTasks, CallerStays, HoldsContext, HoldsLane
  <2>3. CASE d \notin T
    BY <2>1, <2>3 DEF AbortTasks, CallerStays, CallerOK
  <2> QED
    BY <2>2, <2>3
<1> QED
  BY <1>1, ContextKept, StillGrows, RowsStay

\* Every step of a cancel keeps the discipline.
LEMMA ContextCancel ==
    ASSUME TypeOK, TypeOK', ContextDiscipline, NEW t \in Turns, CancelStep(t)
    PROVE  ContextDiscipline'
<1> USE DEF brokerVars, turnVars, callerVars, apprVars, laneVars, runVars
<1>1. CASE CancelAborts(t)
  BY <1>1, AbortContext DEF CancelAborts
<1>2. CASE CancelTakesTask(t)
  <2>1. UNCHANGED run \/ run' = RequestCancel(cur[t])
    BY <1>2 DEF CancelTakesTask
  <2>2. \A r \in Runs : RowStays(r)
    BY <2>1, RowsStay
  <2> QED
    BY <1>2, <2>2, QuietContext DEF CancelTakesTask
<1>3. CASE CancelSignals(t) \/ CancelJoins(t) \/ CancelRecords(t)
  BY <1>3, QuietContext, RowsStay DEF CancelSignals, CancelJoins, CancelRecords
<1> QED
  BY <1>1, <1>2, <1>3 DEF CancelStep

\* A broker that advances while its context is free keeps the discipline.
LEMMA AdvanceContext ==
    ASSUME TypeOK, TypeOK', ContextDiscipline, NEW class \in OperationClasses, ctx[gen] = Nobody,
           broker' = [broker EXCEPT ![gen] = Apply(broker[gen], class)],
           UNCHANGED <<ctx, pc, on, cur, pay, run>>
    PROVE  ContextDiscipline'
<1>1. gen \in Gens /\ broker \in [Gens -> Identities] /\ broker[gen] \in Identities
  BY DEF TypeOK
<1>2. ASSUME NEW d \in Callers PROVE CallerStays(d) /\ cur'[d] \in {cur[d], Nobody}
  <2>1. CallerOK(d) /\ on[d] \in Gens /\ d # Nobody
    BY CurType, RowTypes DEF ContextDiscipline, Callers
  <2>2. pc[d] = "executing" => on[d] # gen
    BY <2>1 DEF CallerOK, HoldsContext
  <2>3. pc[d] = "executing" => broker'[on[d]] = broker[on[d]]
    BY <1>1, <2>1, <2>2
  <2> QED
    BY <2>3 DEF CallerStays
<1> DEFINE a == Apply(broker[gen], class)
<1>3. a.state >= broker[gen].state
  BY <1>1, ApplyGrows
<1>4. \A g \in Gens : broker[g].state \in Nat
  BY <1>1 DEF Identities
<1> HIDE DEF a
<1>5. \A g \in Gens : broker'[g] = IF g = gen THEN a ELSE broker[g]
  BY <1>1 DEF a
<1>6. RevisionsGrow
  BY <1>3, <1>4, <1>5 DEF RevisionsGrow
<1> QED
  BY <1>2, <1>6, ContextKept, RowsStay

\* Every command of the user keeps the discipline.
LEMMA ContextUser ==
    ASSUME TypeOK, TypeOK', ContextDiscipline, UserStep
    PROVE  ContextDiscipline'
<1> USE DEF brokerVars, turnVars, callerVars, apprVars, laneVars, runVars, Goto
<1>1. /\ pc \in [Callers -> PCs] /\ ctx \in [Gens -> Callers \cup {Nobody}]
      /\ cur \in [Callers -> Runs \cup {Nobody}] /\ pay \in [Callers -> Codes \cup {Probe}]
      /\ on \in [Callers -> Gens]
  BY DEF TypeOK
<1>2. ASSUME NEW t \in Turns, NEW m, StartTurn(t, m) PROVE ContextDiscipline'
  <2>1. /\ t \in Callers /\ UNCHANGED <<run, broker, ctx, cur, pay>>
        /\ on' = [on EXCEPT ![t] = gen] /\ pc' = [pc EXCEPT ![t] = "launch"]
    BY <1>2 DEF StartTurn, Callers
  <2>2. \A r \in Runs : RowStays(r)
    BY <2>1, RowsStay
  <2>3. OnlyMoves(t)
    BY <1>1, <2>1, <2>2 DEF OnlyMoves
  <2>4. CallerOK(t)'
    BY <1>1, <2>1 DEF CallerOK, HoldsContext, HoldsLane
  <2> QED
    BY <2>1, <2>2, <2>3, <2>4, MovesKept
<1>3. ASSUME NEW c \in Consoles, NEW p \in Codes, NEW r \in Runs, ConsoleCall(c, p, r)
      PROVE  ContextDiscipline'
  <2>1. /\ c \in Callers /\ UNCHANGED <<run, broker, ctx>>
        /\ on' = [on EXCEPT ![c] = gen] /\ pc' = [pc EXCEPT ![c] = "ctxwait"]
        /\ pay' = [pay EXCEPT ![c] = p] /\ cur' = [cur EXCEPT ![c] = r]
        /\ run[r].status = "absent" /\ \A d \in Callers : cur[d] # r
    BY <1>3 DEF ConsoleCall, Callers
  <2>2. \A s \in Runs : RowStays(s)
    BY <2>1, RowsStay
  <2>3. OnlyMoves(c)
    BY <1>1, <2>1, <2>2 DEF OnlyMoves
  <2>4. CallerOK(c)'
    BY <1>1, <2>1 DEF CallerOK, HoldsContext, HoldsLane
  <2> QED
    BY <2>1, <2>2, <2>3, <2>4, MovesKept
<1>4. ASSUME NEW r \in Runs, InterruptRun(r) PROVE ContextDiscipline'
  <2>1. \A s \in Runs : RowStays(s)
    BY <1>4, RowsStay DEF InterruptRun
  <2> QED
    BY <1>4, <2>1, QuietContext DEF InterruptRun
<1>5. CASE ProjectChanged
  BY <1>5, AdvanceContext DEF ProjectChanged, OperationClasses
<1>6. CASE Restart \/ (\E t \in Turns : CancelTurn(t)) \/ (\E q \in Requests, d \in Replies : ReadApproval(q, d))
  BY <1>6, QuietContext, RowsStay DEF Restart, CancelTurn, ReadApproval
<1> QED
  BY <1>2, <1>3, <1>4, <1>5, <1>6 DEF UserStep

\* What Ark does, and what is delivered to it or to a waiter, keeps the discipline.
LEMMA ContextArk ==
    ASSUME TypeOK, TypeOK', ContextDiscipline, ArkStep \/ DeliverStep
    PROVE  ContextDiscipline'
<1>1. UNCHANGED <<broker, ctx, pc, on, cur, pay, run>>
  BY DEF ArkStep, ArkStarts, ArkEnds, DeliverStep, DeliverAnswer, DeliverInterrupt,
         brokerVars, turnVars, callerVars, apprVars, laneVars, runVars
<1> QED
  BY <1>1, QuietContext, RowsStay

\* Every step of a restart keeps the discipline.
LEMMA ContextRestart ==
    ASSUME TypeOK, TypeOK', ContextDiscipline, RestartStep
    PROVE  ContextDiscipline'
<1> USE DEF brokerVars, turnVars, callerVars, apprVars, laneVars, runVars
<1>1. CASE RestartDrains
  <2>1. tasks \in SUBSET Turns
    BY DEF TypeOK
  <2> QED
    BY <1>1, <2>1, AbortContext DEF RestartDrains
<1>2. CASE RestartStops
  <2>1. \A r \in Runs : RowStays(r)
    BY <1>2, RowsStay DEF RestartStops
  <2> QED
    BY <1>2, <2>1, QuietContext DEF RestartStops
<1>3. CASE StartWorkspace
  <2>1. \A r \in Runs : RowStays(r)
    BY <1>3, RowsStay DEF StartWorkspace
  <2> QED
    BY <1>3, <2>1, QuietContext DEF StartWorkspace
<1>4. CASE SyncProjectRoot
  BY <1>4, AdvanceContext DEF SyncProjectRoot, OperationClasses
<1>5. CASE RestartWaits \/ RestartTimesOut \/ StartFails
  BY <1>5, QuietContext, RowsStay DEF RestartWaits, RestartTimesOut, StartFails
<1> QED
  BY <1>1, <1>2, <1>3, <1>4, <1>5 DEF RestartStep

\* A crash leaves no caller with a context.
LEMMA ContextCrash ==
    ASSUME TypeOK, TypeOK', ContextDiscipline, Crash
    PROVE  ContextDiscipline'
<1>1. ASSUME NEW d \in Callers PROVE CallerStays(d) /\ cur'[d] \in {cur[d], Nobody}
  BY DEF Crash, CallerStays, HoldsContext, HoldsLane
<1> QED
  BY <1>1, ContextKept, StillGrows, RowsStay DEF Crash

\* Every step keeps the discipline.
LEMMA ContextStep == Inv /\ Inv' /\ ContextDiscipline /\ [Next]_vars => ContextDiscipline'
<1> SUFFICES ASSUME Inv, Inv', ContextDiscipline, [Next]_vars PROVE ContextDiscipline'
  OBVIOUS
<1>1. TypeOK /\ TypeOK'
  BY DEF Inv
<1>2. CASE UNCHANGED vars
  BY <1>1, <1>2, QuietContext, RowsStay DEF vars, brokerVars, callerVars, runVars
<1> QED
  BY <1>1, <1>2, ContextTask, ContextAgent, ContextCancel, ContextDispatch, ContextArk, ContextUser,
     ContextRestart, ContextCrash DEF Next

\* The holder of a context is the caller that executes on it, and no identity is given to
\* two mutations: across interrupts, aborted tasks, restarts and crashes a run's revision
\* tells which state it ran on.
THEOREM RevisionsName == Spec => []RevisionsTellRuns
<1>1. ContextDiscipline => RevisionsTellRuns
  BY DEF ContextDiscipline, CallerOK, RevisionsTellRuns, IdentityStableDuringRun
<1> QED
  BY <1>1, InitContext, ContextStep, Invariance, PTL DEF Spec

-----------------------------------------------------------------------------
(* Nothing is stranded *)

\* A cancel has taken turn t and will record its outcome.
BeingCancelled(t) == op.turn = t /\ op.step # "read"

\* While a Workspace is up, or may yet be put back by a restart that times out.
MayServe == ready \/ op = Restarting("wait")

TurnHasTask(t) == turn[t] \in ActiveTurn => pc[t] # "none" \/ BeingCancelled(t)

ApprovalHasTurn(q) ==
    appr[q].status = "waiting" =>
        \/ pc[appr[q].turn] \in Pending /\ req[appr[q].turn] = q
        \/ BeingCancelled(appr[q].turn)

OrphanDiscipline ==
    /\ \A q \in Requests : appr[q].status = "waiting" => appr[q].turn \in Turns
    /\ MayServe => /\ \A t \in Turns : TurnHasTask(t)
                   /\ \A q \in Requests : ApprovalHasTurn(q)

\* Turn t is left with its task, or ends, or is being cancelled; what it waits for stays.
TaskStays(t) ==
    /\ pc[t] # "none" => pc'[t] # "none" \/ turn'[t] \notin ActiveTurn \/ BeingCancelled(t)'
    /\ pc[t] = "none" => (turn'[t] \in ActiveTurn => turn[t] \in ActiveTurn \/ pc'[t] # "none")
    /\ BeingCancelled(t) => BeingCancelled(t)' \/ turn'[t] \notin ActiveTurn

\* Approval q is not made to wait, and what waits for it goes on waiting.
WaitStays(q) ==
    appr'[q].status = "waiting" =>
        LET t == appr[q].turn IN
        /\ appr[q].status = "waiting" /\ appr'[q].turn = t
        /\ pc[t] \in Pending /\ req[t] = q => (pc'[t] \in Pending /\ req'[t] = q) \/ BeingCancelled(t)'
        /\ BeingCancelled(t) => BeingCancelled(t)'

\* A step that strands nothing keeps the discipline.
LEMMA OrphansKept ==
    ASSUME OrphanDiscipline, MayServe' => MayServe,
           MayServe' => \A t \in Turns : TaskStays(t),
           MayServe' => \A q \in Requests : WaitStays(q),
           \A q \in Requests : appr'[q].status = "waiting" => appr'[q].turn \in Turns
    PROVE  OrphanDiscipline'
<1>1. ASSUME MayServe', NEW t \in Turns PROVE TurnHasTask(t)'
  BY <1>1 DEF OrphanDiscipline, TurnHasTask, TaskStays
<1>2. ASSUME MayServe', NEW q \in Requests PROVE ApprovalHasTurn(q)'
  <2>1. ApprovalHasTurn(q) /\ WaitStays(q)
    BY <1>2 DEF OrphanDiscipline
  <2> QED
    BY <2>1 DEF ApprovalHasTurn, WaitStays
<1> QED
  BY <1>1, <1>2 DEF OrphanDiscipline

\* What changes neither turns, approvals nor places strands nothing.
LEMMA QuietOrphans ==
    ASSUME OrphanDiscipline, UNCHANGED <<turn, pc, req, appr>>, MayServe' => MayServe,
           \A t \in Turns : BeingCancelled(t) => BeingCancelled(t)'
    PROVE  OrphanDiscipline'
<1>1. \A t \in Turns : TaskStays(t)
  BY DEF TaskStays
<1>2. \A q \in Requests : WaitStays(q)
  BY DEF WaitStays, OrphanDiscipline
<1> QED
  BY <1>1, <1>2, OrphansKept DEF OrphanDiscipline

\* Only turn t moves, to a place where it has a task; what it waited for is decided or
\* still waits for it.
LEMMA OneTurnOrphans ==
    ASSUME TypeOK, OrphanDiscipline, NEW t \in Turns, UNCHANGED <<op, ready>>,
           \A u \in Turns \ {t} : pc'[u] = pc[u] /\ req'[u] = req[u] /\ turn'[u] = turn[u],
           pc'[t] # "none" \/ turn'[t] \notin ActiveTurn,
           \A q \in Requests : appr'[q] = appr[q] \/ appr'[q].status # "waiting",
           pc[t] \in Pending /\ req[t] \in Requests =>
             (pc'[t] \in Pending /\ req'[t] = req[t]) \/ appr'[req[t]].status # "waiting"
    PROVE  OrphanDiscipline'
<1>1. \A u \in Turns : BeingCancelled(u)' = BeingCancelled(u)
  BY DEF BeingCancelled
<1>2. ASSUME NEW u \in Turns PROVE TaskStays(u)
  BY <1>1 DEF TaskStays
<1>3. ASSUME NEW q \in Requests PROVE WaitStays(q)
  <2> SUFFICES ASSUME appr'[q].status = "waiting" PROVE WaitStays(q)
    BY DEF WaitStays
  <2>1. appr'[q] = appr[q] /\ appr[q].turn \in Turns
    BY DEF OrphanDiscipline
  <2> QED
    BY <1>1, <2>1 DEF WaitStays
<1> QED
  BY <1>2, <1>3, OrphansKept DEF OrphanDiscipline, MayServe

\* Every step of a turn's task strands nothing.
LEMMA OrphansTask ==
    ASSUME TypeOK, TaskDiscipline, Approvals, OrphanDiscipline, NEW t \in Turns, TaskStep(t)
    PROVE  OrphanDiscipline'
<1> USE DEF brokerVars, turnVars, callerVars, apprVars, laneVars, runVars, Goto, Pending
<1>1. /\ pc \in [Callers -> PCs] /\ t \in Callers /\ Turns \subseteq Callers
      /\ turn \in [Turns -> TurnStatus] /\ req \in [Turns -> Requests \cup {Nobody}]
      /\ appr \in [Requests -> ApprovalRows]
  BY DEF TypeOK, Callers
<1>2. UNCHANGED <<op, ready>>
  BY DEF TaskStep, Launch, ExitTask, RegisterWaiter, ReceiveDecision, DecideApproval, Reply, EnterLane
<1>3. CASE Launch(t)
  BY <1>1, <1>2, <1>3, OneTurnOrphans DEF Launch
<1>4. CASE ExitTask(t)
  <2>1. turn[t] \notin ActiveTurn
    BY <1>4 DEF ExitTask, TaskDiscipline, ActiveTurn
  <2> QED
    BY <1>1, <1>2, <1>4, <2>1, OneTurnOrphans DEF ExitTask
<1>5. CASE RegisterWaiter(t)
  BY <1>1, <1>2, <1>5, OneTurnOrphans DEF RegisterWaiter
<1>6. CASE ReceiveDecision(t)
  BY <1>1, <1>2, <1>6, OneTurnOrphans DEF ReceiveDecision
<1>7. CASE DecideApproval(t)
  <2>1. PICK st \in ApprovalStatus \ {"waiting"} : appr' = [appr EXCEPT ![req[t]].status = st]
    <3> DEFINE st == CASE inbox[req[t]] = "approve" /\ StillCurrent(t) -> "approved"
                       [] inbox[req[t]] = "approve" /\ ~StillCurrent(t) -> "stale"
                       [] inbox[req[t]] = "cancel" -> "cancelled"
                       [] OTHER -> "rejected"
    <3>1. st \in ApprovalStatus \ {"waiting"}
      BY DEF ApprovalStatus
    <3>2. appr' = [appr EXCEPT ![req[t]].status = st]
      BY <1>7, Zenon DEF DecideApproval
    <3> QED
      BY <3>1, <3>2, Zenon
  <2>2. \A q \in Requests : appr'[q] = appr[q] \/ appr'[q].status # "waiting"
    BY <1>1, <2>1 DEF ApprovalRows
  <2>3. req[t] \in Requests => appr'[req[t]].status # "waiting"
    BY <1>1, <2>1 DEF ApprovalRows
  <2> QED
    BY <1>1, <1>2, <1>7, <2>2, <2>3, OneTurnOrphans DEF DecideApproval
<1>8. CASE Reply(t)
  BY <1>1, <1>2, <1>8, OneTurnOrphans DEF Reply
<1>9. ASSUME NEW r \in Runs, EnterLane(t, r) PROVE OrphanDiscipline'
  <2>1. PICK l \in {"ctxwait", "replying"} : pc' = [pc EXCEPT ![t] = l]
    BY <1>9 DEF EnterLane
  <2> QED
    BY <1>1, <1>2, <1>9, <2>1, OneTurnOrphans DEF EnterLane
<1> QED
  BY <1>3, <1>4, <1>5, <1>6, <1>7, <1>8, <1>9 DEF TaskStep

\* Every request of Agent R and every end of a turn strands nothing.
LEMMA OrphansAgent ==
    ASSUME TypeOK, OrphanDiscipline, NEW t \in Turns, AgentStep(t)
    PROVE  OrphanDiscipline'
<1> USE DEF brokerVars, turnVars, callerVars, apprVars, laneVars, runVars, Goto, Pending
<1>1. /\ pc \in [Callers -> PCs] /\ t \in Callers /\ Turns \subseteq Callers
      /\ turn \in [Turns -> TurnStatus] /\ req \in [Turns -> Requests \cup {Nobody}]
      /\ appr \in [Requests -> ApprovalRows]
  BY DEF TypeOK, Callers
<1>2. UNCHANGED <<op, ready>>
  BY DEF AgentStep, DenyApproval, RequestProbe, RequestApproval, RequestMutation, FinishTurn
<1>3. CASE DenyApproval(t)
  BY <1>1, <1>2, <1>3, OneTurnOrphans DEF DenyApproval
<1>4. CASE RequestProbe(t)
  BY <1>1, <1>2, <1>4, OneTurnOrphans DEF RequestProbe
<1>5. ASSUME NEW q \in Requests, NEW p \in Codes, RequestMutation(t, q, p) PROVE OrphanDiscipline'
  <2>1. PICK l \in {"lane", "replying"} : pc' = [pc EXCEPT ![t] = l]
    BY <1>5 DEF RequestMutation
  <2>2. \A u \in Turns \ {t} : req'[u] = req[u]
    BY <1>1, <1>5 DEF RequestMutation
  <2> QED
    BY <1>1, <1>2, <1>5, <2>1, <2>2, OneTurnOrphans DEF RequestMutation
<1>6. ASSUME NEW s \in {"completed", "failed"}, FinishTurn(t, s) PROVE OrphanDiscipline'
  BY <1>1, <1>2, <1>6, OneTurnOrphans DEF FinishTurn, ActiveTurn
<1>7. ASSUME NEW q \in Requests, NEW p \in Codes, RequestApproval(t, q, p) PROVE OrphanDiscipline'
  <2>1. PICK st \in {"approved", "waiting"}, l \in {"replying", "registering"} :
          /\ appr' = [appr EXCEPT ![q] = [status |-> st, turn |-> t, pay |-> p, at |-> broker[on[t]]]]
          /\ pc' = [pc EXCEPT ![t] = l]
          /\ st = "waiting" => l = "registering"
    BY <1>7 DEF RequestApproval
  <2>2. /\ req' = [req EXCEPT ![t] = q] /\ UNCHANGED turn
        /\ pc[t] = "idle" /\ appr[q].status = "absent"
    BY <1>7 DEF RequestApproval
  <2>3. \A u \in Turns : BeingCancelled(u)' = BeingCancelled(u)
    BY <1>2 DEF BeingCancelled
  <2>4. \A u \in Turns \ {t} : pc'[u] = pc[u] /\ req'[u] = req[u]
    BY <1>1, <2>1, <2>2
  <2>5. pc'[t] # "none"
    BY <1>1, <2>1
  <2>6. /\ appr'[q].turn = t
        /\ appr'[q].status = "waiting" => pc'[t] = "registering" /\ req'[t] = q
        /\ \A w \in Requests \ {q} : appr'[w] = appr[w]
    BY <1>1, <2>1, <2>2
  <2>7. MayServe' = MayServe
    BY <1>2 DEF MayServe
  <2>8. ASSUME MayServe, NEW u \in Turns PROVE TurnHasTask(u)'
    BY <2>2, <2>3, <2>4, <2>5, <2>8 DEF OrphanDiscipline, TurnHasTask
  <2>9. ASSUME MayServe, NEW w \in Requests PROVE ApprovalHasTurn(w)'
    <3>1. CASE w = q
      BY <2>6, <3>1 DEF ApprovalHasTurn
    <3>2. CASE w # q
      <4>1. ApprovalHasTurn(w) /\ appr'[w] = appr[w] /\ (appr[w].status = "waiting" => appr[w].turn \in Turns)
        BY <2>6, <2>9, <3>2 DEF OrphanDiscipline
      <4> QED
        BY <2>2, <2>3, <2>4, <4>1 DEF ApprovalHasTurn
    <3> QED
      BY <3>1, <3>2
  <2> QED
    BY <2>6, <2>7, <2>8, <2>9 DEF OrphanDiscipline
<1> QED
  BY <1>3, <1>4, <1>5, <1>6, <1>7 DEF AgentStep

\* Every step of the dispatcher strands nothing.
LEMMA OrphansDispatch ==
    ASSUME TypeOK, OrphanDiscipline, NEW c \in Callers, DispatchStep(c)
    PROVE  OrphanDiscipline'
<1> USE DEF brokerVars, turnVars, callerVars, apprVars, laneVars, runVars, Goto, Pending
<1>1. pc \in [Callers -> PCs] /\ Turns \subseteq Callers
  BY DEF TypeOK, Callers
<1>2. UNCHANGED <<op, ready, turn, req, appr>>
  BY DEF DispatchStep, Authorize, CreateRun, SnapshotFails, FinishRun
<1>3. PICK l \in {"snapshot", "executing", "replying", "none"} :
        /\ pc' = [pc EXCEPT ![c] = l] /\ pc[c] \in {"ctxwait", "snapshot", "executing"}
        /\ c \in Turns => l # "none"
  BY DEF DispatchStep, Authorize, CreateRun, SnapshotFails, FinishRun, LeaveDispatch
<1>4. \A u \in Turns : BeingCancelled(u)' = BeingCancelled(u)
  BY <1>2 DEF BeingCancelled
<1>5. \A u \in Turns : TaskStays(u)
  BY <1>1, <1>2, <1>3, <1>4 DEF TaskStays
<1>6. \A q \in Requests : WaitStays(q)
  BY <1>1, <1>2, <1>3, <1>4 DEF WaitStays, OrphanDiscipline
<1> QED
  BY <1>2, <1>5, <1>6, OrphansKept DEF OrphanDiscipline, MayServe

\* Every command of the user strands nothing.
LEMMA OrphansUser ==
    ASSUME TypeOK, Approvals, OrphanDiscipline, UserStep
    PROVE  OrphanDiscipline'
<1> USE DEF brokerVars, turnVars, callerVars, apprVars, laneVars, runVars, Goto, Pending
<1>1. /\ pc \in [Callers -> PCs] /\ Turns \subseteq Callers /\ turn \in [Turns -> TurnStatus]
      /\ Nobody \notin Turns
  BY RowTypes DEF TypeOK, Callers
<1>2. ASSUME NEW t \in Turns, NEW m, StartTurn(t, m) PROVE OrphanDiscipline'
  <2>1. pc[t] = "none"
    BY <1>2 DEF StartTurn, Approvals, ApprovalDiscipline, HoldingsOK
  <2> QED
    BY <1>1, <1>2, <2>1, OneTurnOrphans DEF StartTurn
<1>3. ASSUME NEW c \in Consoles, NEW p \in Codes, NEW r \in Runs, ConsoleCall(c, p, r)
      PROVE  OrphanDiscipline'
  <2>1. \A t \in Turns : pc'[t] = pc[t]
    BY <1>1, <1>3, ConstantsAssumption DEF ConsoleCall
  <2>2. UNCHANGED <<op, ready, turn, req, appr>>
    BY <1>3 DEF ConsoleCall
  <2>3. \A u \in Turns : BeingCancelled(u)' = BeingCancelled(u)
    BY <2>2 DEF BeingCancelled
  <2>4. \A u \in Turns : TaskStays(u)
    BY <2>1, <2>2, <2>3 DEF TaskStays
  <2>5. \A q \in Requests : WaitStays(q)
    BY <2>1, <2>2, <2>3 DEF WaitStays, OrphanDiscipline
  <2> QED
    BY <2>2, <2>4, <2>5, OrphansKept DEF OrphanDiscipline, MayServe
<1>4. CASE Restart \/ \E t \in Turns : CancelTurn(t)
  <2>1. op = Idle /\ UNCHANGED <<ready, turn, pc, req, appr>> /\ op' # Restarting("wait")
    BY <1>4 DEF Restart, CancelTurn, Restarting, Cancelling
  <2>2. \A t \in Turns : ~BeingCancelled(t)
    BY <1>1, <2>1 DEF BeingCancelled, Idle
  <2> QED
    BY <2>1, <2>2, QuietOrphans DEF MayServe
<1>5. CASE ProjectChanged \/ (\E r \in Runs : InterruptRun(r)) \/ (\E q \in Requests, d \in Replies : ReadApproval(q, d))
  <2>1. UNCHANGED <<op, ready, turn, pc, req, appr>>
    BY <1>5 DEF ProjectChanged, InterruptRun, ReadApproval
  <2> QED
    BY <2>1, QuietOrphans DEF MayServe, BeingCancelled
<1> QED
  BY <1>2, <1>3, <1>4, <1>5 DEF UserStep

\* What Ark does, and what is delivered to it or to a waiter, strands nothing.
LEMMA OrphansArk ==
    ASSUME TypeOK, OrphanDiscipline, ArkStep \/ DeliverStep
    PROVE  OrphanDiscipline'
<1>1. UNCHANGED <<op, ready, turn, pc, req>>
  BY DEF ArkStep, ArkStarts, ArkEnds, DeliverStep, DeliverAnswer, DeliverInterrupt,
         brokerVars, turnVars, callerVars, apprVars, laneVars, runVars
<1>2. \A q \in Requests : appr'[q] = appr[q] \/ appr'[q].status # "waiting"
  <2>1. UNCHANGED appr \/ \E q \in Requests : appr' = [appr EXCEPT ![q].status = "interrupted"]
    BY DEF ArkStep, ArkStarts, ArkEnds, DeliverStep, DeliverAnswer, DeliverInterrupt, apprVars
  <2> QED
    BY <2>1 DEF TypeOK, ApprovalRows
<1>3. \A u \in Turns : BeingCancelled(u)' = BeingCancelled(u)
  BY <1>1 DEF BeingCancelled
<1>4. \A u \in Turns : TaskStays(u)
  BY <1>1, <1>3 DEF TaskStays
<1>5. \A q \in Requests : WaitStays(q)
  BY <1>1, <1>2, <1>3 DEF WaitStays, OrphanDiscipline
<1> QED
  BY <1>1, <1>2, <1>4, <1>5, OrphansKept DEF OrphanDiscipline, MayServe

\* interrupt_agent_approvals leaves a request waiting only if it was, and of another turn.
LEMMA InterruptedApprovals ==
    ASSUME TypeOK, NEW T, InterruptApprovals(T), NEW q \in Requests, appr'[q].status = "waiting"
    PROVE  appr'[q] = appr[q] /\ appr[q].turn \notin T
BY DEF InterruptApprovals, RequestsOf, TypeOK, ApprovalRows

\* Every step of a cancel strands nothing.
LEMMA OrphansCancel ==
    ASSUME TypeOK, TaskDiscipline, OrphanDiscipline, NEW t \in Turns, CancelStep(t)
    PROVE  OrphanDiscipline'
<1> USE DEF brokerVars, turnVars, callerVars, apprVars, laneVars, runVars, Pending
<1>1. /\ pc \in [Callers -> PCs] /\ Turns \subseteq Callers /\ turn \in [Turns -> TurnStatus]
      /\ Nobody \notin Turns
  BY RowTypes DEF TypeOK, Callers
<1>2. CASE CancelTakesTask(t)
  <2>1. UNCHANGED <<ready, turn, pc, req, appr>> /\ op' # Restarting("wait")
    BY <1>1, <1>2 DEF CancelTakesTask, Restarting, Cancelling, Idle
  <2>2. \A u \in Turns : ~BeingCancelled(u)
    BY <1>2 DEF CancelTakesTask, BeingCancelled, Cancelling
  <2> QED
    BY <2>1, <2>2, QuietOrphans DEF MayServe
<1>3. CASE CancelSignals(t) \/ CancelJoins(t)
  <2>1. UNCHANGED <<ready, turn, pc, req, appr>> /\ op' # Restarting("wait")
    BY <1>1, <1>3 DEF CancelSignals, CancelJoins, Restarting, Cancelling
  <2>2. op'.turn = t /\ op'.step # "read" /\ op.turn = t
    BY <1>3 DEF CancelSignals, CancelJoins, Cancelling
  <2> QED
    BY <2>1, <2>2, QuietOrphans DEF MayServe, BeingCancelled
<1>4. CASE CancelAborts(t)
  <2>1. UNCHANGED <<ready, turn, appr>> /\ op' # Restarting("wait")
    BY <1>1, <1>4 DEF CancelAborts, Restarting, Cancelling
  <2>2. BeingCancelled(t)' /\ op.turn = t
    BY <1>4 DEF CancelAborts, Cancelling, BeingCancelled
  <2>3. \A u \in Turns \ {t} : pc'[u] = pc[u] /\ req'[u] = req[u] /\ ~BeingCancelled(u)
    BY <1>1, <1>4, <2>2 DEF CancelAborts, AbortTasks, BeingCancelled
  <2>4. \A u \in Turns : TaskStays(u)
    BY <2>1, <2>2, <2>3 DEF TaskStays
  <2>5. \A q \in Requests : WaitStays(q)
    BY <2>1, <2>2, <2>3 DEF WaitStays, OrphanDiscipline
  <2> QED
    BY <2>1, <2>4, <2>5, OrphansKept DEF OrphanDiscipline, MayServe
<1>5. CASE CancelRecords(t)
  <2>1. UNCHANGED <<ready, pc, req>> /\ op' # Restarting("wait") /\ turn' = [turn EXCEPT ![t] = "interrupted"]
    BY <1>1, <1>5 DEF CancelRecords, Restarting, Idle
  <2>2. \A u \in Turns \ {t} : ~BeingCancelled(u)
    BY <1>5 DEF CancelRecords, BeingCancelled, Cancelling
  <2>3. \A q \in Requests : appr'[q].status = "waiting" => appr'[q] = appr[q] /\ appr[q].turn \notin {t}
    BY <1>5, InterruptedApprovals DEF CancelRecords
  <2>4. \A u \in Turns : TaskStays(u)
    BY <1>1, <2>1, <2>2 DEF TaskStays, ActiveTurn
  <2>5. \A q \in Requests : WaitStays(q)
    BY <2>1, <2>2, <2>3 DEF WaitStays, OrphanDiscipline
  <2> QED
    BY <2>1, <2>3, <2>4, <2>5, OrphansKept DEF OrphanDiscipline, MayServe
<1> QED
  BY <1>2, <1>3, <1>4, <1>5 DEF CancelStep

\* Every step of a restart, and a start, strands nothing.
LEMMA OrphansRestart ==
    ASSUME TypeOK, TaskDiscipline, OrphanDiscipline, RestartStep
    PROVE  OrphanDiscipline'
<1> USE DEF brokerVars, turnVars, callerVars, apprVars, laneVars, runVars, Pending
<1>1. /\ pc \in [Callers -> PCs] /\ Turns \subseteq Callers /\ turn \in [Turns -> TurnStatus]
      /\ Nobody \notin Turns
  BY RowTypes DEF TypeOK, Callers
<1>2. op.turn = Nobody /\ op.kind = "restart"
  BY DEF RestartStep, RestartDrains, RestartStops, RestartWaits, RestartTimesOut, StartWorkspace,
         StartFails, SyncProjectRoot, Restarting
<1>3. \A t \in Turns : ~BeingCancelled(t)
  BY <1>1, <1>2 DEF BeingCancelled
<1>4. CASE RestartDrains
  <2>1. op = Restarting("drain") /\ op' = Restarting("stop") /\ UNCHANGED ready
    BY <1>4 DEF RestartDrains
  <2>2. MayServe' => MayServe
    BY <2>1 DEF MayServe, Restarting
  <2> DEFINE T == {t \in tasks : turn[t] \in ActiveTurn}
  <2>3. \A q \in Requests : appr'[q].status = "waiting" => appr'[q] = appr[q] /\ appr[q].turn \notin T
    BY <1>4, InterruptedApprovals DEF RestartDrains
  <2>4. \A t \in Turns : turn'[t] = IF t \in T THEN "interrupted" ELSE turn[t]
    BY <1>4 DEF RestartDrains
  <2>5. \A t \in Turns : pc[t] # "none" => t \in tasks
    BY <2>1 DEF TaskDiscipline, Restarting, Cancelling
  <2>6. \A t \in Turns : pc[t] # "none" => turn'[t] \notin ActiveTurn
    BY <2>4, <2>5 DEF ActiveTurn
  <2>7. \A t \in Turns : pc[t] \in Pending => t \in T
    BY <2>5 DEF TaskDiscipline, ActiveTurn, PCs, HoldsContext
  <2> HIDE DEF T
  <2>8. ASSUME MayServe', NEW t \in Turns PROVE TurnHasTask(t)'
    <3>1. turn[t] \in ActiveTurn => pc[t] # "none"
      BY <1>3, <2>2, <2>8 DEF OrphanDiscipline, TurnHasTask
    <3> QED
      BY <2>4, <2>6, <3>1 DEF TurnHasTask, ActiveTurn
  <2>9. ASSUME MayServe', NEW q \in Requests PROVE appr'[q].status # "waiting"
    <3>1. appr[q].status = "waiting" => appr[q].turn \in Turns /\ pc[appr[q].turn] \in Pending
      BY <1>3, <2>2, <2>9 DEF OrphanDiscipline, ApprovalHasTurn
    <3> QED
      BY <2>3, <2>7, <3>1
  <2> QED
    BY <2>3, <2>8, <2>9 DEF OrphanDiscipline, ApprovalHasTurn
<1>5. CASE RestartStops
  BY <1>3, <1>5, QuietOrphans DEF RestartStops, MayServe, Restarting
<1>6. CASE RestartWaits \/ RestartTimesOut \/ StartFails \/ SyncProjectRoot
  <2>1. UNCHANGED <<turn, pc, req, appr>>
    BY <1>6 DEF RestartWaits, RestartTimesOut, StartFails, SyncProjectRoot
  <2>2. MayServe' => MayServe
    BY <1>6 DEF RestartWaits, RestartTimesOut, StartFails, SyncProjectRoot, MayServe, Restarting, Idle
  <2> QED
    BY <1>3, <2>1, <2>2, QuietOrphans
<1>7. CASE StartWorkspace
  <2>1. \A t \in Turns : turn'[t] \notin ActiveTurn
    BY <1>1, <1>7 DEF StartWorkspace, RecoverTurns, ActiveTurn
  <2>2. \A q \in Requests : appr'[q].status # "waiting"
    BY <1>7 DEF StartWorkspace, RecoverApprovals, TypeOK, ApprovalRows
  <2> QED
    BY <2>1, <2>2 DEF OrphanDiscipline, TurnHasTask, ApprovalHasTurn
<1> QED
  BY <1>4, <1>5, <1>6, <1>7 DEF RestartStep

\* Every step strands nothing.
LEMMA OrphansStep == Inv /\ OrphanDiscipline /\ [Next]_vars => OrphanDiscipline'
<1> SUFFICES ASSUME Inv, OrphanDiscipline, [Next]_vars PROVE OrphanDiscipline'
  OBVIOUS
<1>1. TypeOK /\ TaskDiscipline /\ Approvals
  BY DEF Inv
<1>2. CASE UNCHANGED vars
  BY <1>2, QuietOrphans DEF vars, brokerVars, turnVars, callerVars, apprVars, MayServe, BeingCancelled
<1>3. CASE Crash
  <2>1. UNCHANGED appr /\ ~MayServe'
    BY <1>3 DEF Crash, MayServe, Restarting
  <2> QED
    BY <2>1 DEF OrphanDiscipline
<1> QED
  BY <1>1, <1>2, <1>3, OrphansTask, OrphansAgent, OrphansCancel, OrphansDispatch, OrphansArk, OrphansUser,
     OrphansRestart DEF Next

\* The state after workspace_start strands nothing.
LEMMA InitOrphans == Init => OrphanDiscipline
BY DEF Init, OrphanDiscipline, TurnHasTask, ApprovalHasTurn, NoApproval, ActiveTurn

\* Whatever a cancel, a restart that times out, a failed start or a crash interrupts: while a
\* Workspace serves, a nonterminal turn has its task and a waiting approval has its turn.
THEOREM NothingOrphaned == Spec => []NoOrphans
<1>1. OrphanDiscipline => NoOrphans
  BY DEF OrphanDiscipline, NoOrphans, MayServe, TurnHasTask, ApprovalHasTurn, BeingCancelled, Pending
<1> QED
  BY <1>1, InitOrphans, OrphansStep, Invariance, PTL DEF Spec

=============================================================================
