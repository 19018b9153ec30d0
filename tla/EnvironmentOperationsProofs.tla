-------------------- MODULE EnvironmentOperationsProofs --------------------
(* Theorems about EnvironmentOperations, for every value of its constants. *)
EXTENDS EnvironmentOperations, TLAPS

\* A new identity is an identity, and a run of either class keeps it one.
LEMMA IdentityTypes ==
    /\ \A g \in Nat : NewIdentity(g) \in Identities
    /\ \A id \in Identities : \A class : Apply(id, class) \in Identities
<1>1. ASSUME NEW g \in Nat PROVE NewIdentity(g) \in Identities
  BY DEF Identities, NewIdentity
<1>2. ASSUME NEW id \in Identities, NEW class
      PROVE  Apply(id, class) \in Identities
  <2> DEFINE n == id.seq + 1
             s == IF class \in {"state_capable", "state_and_project"} THEN id.state + 1 ELSE id.state
             p == IF class \in {"project_mutation", "state_and_project"} THEN id.project + 1 ELSE id.project
  <2>1. n \in Nat /\ s \in Nat /\ p \in Nat
    BY DEF Identities
  <2>2. Apply(id, class) = [id EXCEPT !.seq = n, !.state = s, !.project = p]
    BY DEF Apply, Identities
  <2> HIDE DEF n, s, p
  <2> QED
    BY <2>1, <2>2 DEF Identities
<1> QED
  BY <1>1, <1>2

\* What the assumption on the constants says of actors, generations and snapshots.
LEMMA ConstantFacts ==
    /\ Turns \cap Commands = {} /\ Turns \subseteq Actors /\ Commands \subseteq Actors
    /\ Nobody \notin Actors /\ Nobody \notin Turns /\ Nobody \notin Requests
    /\ Gens \subseteq Nat /\ 1 \in Gens
    /\ Evidences \subseteq Snapshots /\ Degraded \in Snapshots
BY EnvironmentAssumption DEF Actors, Gens, Snapshots

\* The snapshot an operation captures is a snapshot.
LEMMA CapturedType == TypeOK => Captured \subseteq Snapshots
BY ConstantFacts DEF TypeOK, Captured

\* A new row is a row, and a change of the status or of the claim keeps it one.
LEMMA RowTypes ==
    /\ \A t \in Turns \cup {Nobody}, id \in Identities, s \in Snapshots :
         [status |-> "requested", turn |-> t, at |-> id, before |-> s, claimed |-> FALSE] \in Rows
    /\ \A r \in Rows, s \in Status : [r EXCEPT !.status = s] \in Rows
    /\ \A r \in Rows : [r EXCEPT !.status = "running", !.claimed = TRUE] \in Rows
<1>1. ASSUME NEW t \in Turns \cup {Nobody}, NEW id \in Identities, NEW s \in Snapshots
      PROVE  [status |-> "requested", turn |-> t, at |-> id, before |-> s, claimed |-> FALSE] \in Rows
  BY DEF Rows, Status, OpenStatus
<1>2. ASSUME NEW r \in Rows, NEW s \in Status PROVE [r EXCEPT !.status = s] \in Rows
  BY DEF Rows
<1>3. ASSUME NEW r \in Rows PROVE [r EXCEPT !.status = "running", !.claimed = TRUE] \in Rows
  BY DEF Rows, Status, OpenStatus
<1> QED
  BY <1>1, <1>2, <1>3

\* SetStatus keeps the table typed.
LEMMA SetStatusType ==
    ASSUME TypeOK, NEW q, NEW s \in Status, SetStatus(q, s)
    PROVE  row' \in [Requests -> Rows]
<1>1. CASE q \in Requests
  BY <1>1, RowTypes DEF TypeOK, SetStatus
<1>2. CASE q \notin Requests
  BY <1>2 DEF TypeOK, SetStatus
<1> QED
  BY <1>1, <1>2

\* Every decision is recorded with a status.
LEMMA DecidedStatusType ==
    \A q, g, d, s : DecidedStatus(q, g, d, s) \in {"approved", "stale", "cancelled", "rejected"}
BY DEF DecidedStatus

\* The statuses named in the module are statuses.
LEMMA StatusNames ==
    /\ {"approved", "stale", "cancelled", "rejected", "failed", "interrupted"} \subseteq Status
    /\ RunStatus \ {"none"} \subseteq Status
BY DEF Status, RunStatus, OpenStatus, Denied

\* Leave keeps the actors' variables typed.
LEMMA LeaveType ==
    ASSUME TypeOK, NEW a \in Actors, Leave(a)
    PROVE  /\ ctx' \in [Gens -> Actors \cup {Nobody}]
           /\ pc' \in [Actors -> Labels]
           /\ req' \in [Actors -> Requests \cup {Nobody}]
BY DEF TypeOK, Leave, Goto, Labels

\* The state a started Workspace begins in is well typed.
LEMMA InitType == Init => TypeOK
BY IdentityTypes, ConstantFacts, EnvironmentAssumption
DEF Init, TypeOK, NoRow, Rows, Status, OpenStatus, RunStatus, Idle, OpSteps, Labels, Decisions, Actors

\* Every command of the interface keeps the types.
LEMMA CommandTypes ==
    ASSUME TypeOK, NEW k \in Commands, CommandStep(k)
    PROVE  TypeOK'
<1> USE ConstantFacts DEF TypeOK, rowVars, workVars, startVars, actorVars, turnVars, Goto, Labels
<1>1. CASE PreviewCall(k)
  BY <1>1 DEF PreviewCall
<1>2. CASE PreviewRefused(k)
  BY <1>2 DEF PreviewRefused
<1>3. CASE Deliver(k)
  <2>1. row' \in [Requests -> Rows]
    <3>1. CASE UNCHANGED row
      BY <3>1
    <3>2. CASE SetStatus(req[k], "interrupted")
      BY <3>2, SetStatusType, StatusNames
    <3> QED
      BY <1>3, <3>1, <3>2 DEF Deliver
  <2>2. pc' \in [Actors -> Labels] /\ say' \in [Actors -> Decisions]
    BY <1>3 DEF Deliver
  <2> QED
    BY <1>3, <2>1, <2>2 DEF Deliver
<1>4. CASE Recheck(k)
  <2>1. CASE StillPending(k)
    BY <1>4, <2>1 DEF Recheck, Lock, Dispatching
  <2>2. CASE ~StillPending(k)
    BY <1>4, <2>2, LeaveType DEF Recheck
  <2> QED
    BY <2>1, <2>2
<1>5. CASE Reconcile(k)
  <2>1. row' \in [Requests -> Rows]
    BY <1>5, SetStatusType, StatusNames DEF Reconcile
  <2> QED
    BY <1>5, <2>1, LeaveType DEF Reconcile
<1>6. ASSUME NEW q \in Requests, NEW s \in Captured, Preview(k, q, s) PROVE TypeOK'
  <2>1. Previewed(on[k], Nobody, s) \in Rows
    BY CapturedType, RowTypes DEF Previewed
  <2> HIDE DEF TypeOK
  <2>2. row' \in [Requests -> Rows]
    BY <1>6, <2>1 DEF Preview, TypeOK
  <2> QED
    BY <1>6, <2>2 DEF Preview, TypeOK
<1>7. ASSUME NEW q \in Requests, NEW d \in Decisions, Answer(k, q, d) PROVE TypeOK'
  BY <1>7 DEF Answer
<1>8. ASSUME NEW s \in Captured, Decide(k, s) PROVE TypeOK'
  <2>1. row' \in [Requests -> Rows]
    BY <1>8, SetStatusType, DecidedStatusType, StatusNames DEF Decide
  <2>2. /\ ctx' \in [Gens -> Actors \cup {Nobody}]
        /\ pc' \in [Actors -> Labels]
        /\ req' \in [Actors -> Requests \cup {Nobody}]
    <3>1. CASE Leave(k)
      BY <3>1, LeaveType
    <3>2. CASE Goto(k, "claim") /\ UNCHANGED <<ctx, req>>
      BY <3>2 DEF Dispatching
    <3> QED
      BY <1>8, <3>1, <3>2 DEF Decide
  <2> QED
    BY <1>8, <2>1, <2>2 DEF Decide
<1> QED
  BY <1>1, <1>2, <1>3, <1>4, <1>5, <1>6, <1>7, <1>8 DEF CommandStep

\* An actor that works on a request works on a request of the table.
LEMMA BusyRequest ==
    ASSUME ReviewDiscipline, NEW a \in Actors, pc[a] \in Busy
    PROVE  req[a] \in Requests /\ row[req[a]].status # "absent"
BY DEF ReviewDiscipline, ActorOK

\* Every step of a turn's task keeps the types.
LEMMA TurnTypes ==
    ASSUME TypeOK, ReviewDiscipline, NEW t \in Turns, TurnStep(t)
    PROVE  TypeOK'
<1> USE ConstantFacts DEF TypeOK, rowVars, workVars, startVars, actorVars, turnVars, Goto, Labels
<1>1. CASE StartTurn(t)
  BY <1>1 DEF StartTurn
<1>2. CASE RegisterWaiter(t)
  <2>1. req[t] \in Requests
    BY <1>2, BusyRequest DEF RegisterWaiter, Busy, Locked
  <2> QED
    BY <1>2, <2>1 DEF RegisterWaiter
<1>3. CASE Reply(t)
  BY <1>3 DEF Reply
<1>4. CASE RefuseCancelled(t)
  BY <1>4, LeaveType DEF RefuseCancelled
<1>5. CASE Authorize(t)
  <2>1. CASE Leave(t)
    BY <1>5, <2>1, LeaveType DEF Authorize
  <2>2. CASE Lock(t) /\ Goto(t, "claim") /\ UNCHANGED req
    BY <1>5, <2>2 DEF Authorize, Lock, Dispatching
  <2> QED
    BY <1>5, <2>1, <2>2 DEF Authorize
<1>6. CASE FinishTurn(t)
  BY <1>6 DEF FinishTurn
<1>7. ASSUME NEW q \in Requests, NEW s \in Captured, RequestOperation(t, q, s) PROVE TypeOK'
  <2>1. Previewed(on[t], t, s) \in Rows
    BY CapturedType, RowTypes DEF Previewed
  <2> HIDE DEF TypeOK
  <2>2. row' \in [Requests -> Rows]
    BY <1>7, <2>1 DEF RequestOperation, TypeOK
  <2> QED
    BY <1>7, <2>2 DEF RequestOperation, TypeOK, Lock
<1>8. ASSUME NEW s \in Captured, DecideForTurn(t, s) PROVE TypeOK'
  <2>1. row' \in [Requests -> Rows]
    BY <1>8, SetStatusType, DecidedStatusType, StatusNames DEF DecideForTurn
  <2>2. req[t] \in Requests
    BY <1>8, BusyRequest DEF DecideForTurn, Busy, Locked
  <2>3. live' \in [Turns -> SUBSET Requests]
    BY <1>8, <2>2 DEF DecideForTurn
  <2> QED
    BY <1>8, <2>1, <2>3, LeaveType DEF DecideForTurn
<1>9. ASSUME NEW q \in Requests, NEW m \in BOOLEAN, RequestDispatch(t, q, m) PROVE TypeOK'
  BY <1>9 DEF RequestDispatch
<1> QED
  BY <1>1, <1>2, <1>3, <1>4, <1>5, <1>6, <1>7, <1>8, <1>9 DEF TurnStep

\* A failure before the run keeps the table typed.
LEMMA FailedBeforeRunType ==
    ASSUME TypeOK, NEW a \in Actors, FailedBeforeRun(a)
    PROVE  row' \in [Requests -> Rows]
<1>1. CASE UNCHANGED row
  BY <1>1 DEF TypeOK
<1>2. CASE SetStatus(req[a], "failed")
  BY <1>2, SetStatusType, StatusNames
<1> QED
  BY <1>1, <1>2 DEF FailedBeforeRun

\* Every step of the dispatcher keeps the types.
LEMMA DispatchTypes ==
    ASSUME TypeOK, ReviewDiscipline, NEW a \in Actors, DispatchStep(a)
    PROVE  TypeOK'
<1> USE ConstantFacts DEF TypeOK, rowVars, workVars, startVars, actorVars, turnVars, Goto, Labels, Dispatching
<1>1. CASE Claim(a)
  <2>1. CASE Claimable(req[a])
    <3>1. req[a] \in Requests
      BY <1>1, BusyRequest DEF Claim, Busy, Locked
    <3>2. [row[req[a]] EXCEPT !.status = "running", !.claimed = TRUE] \in Rows
      BY <3>1, RowTypes
    <3>3. row' = [row EXCEPT ![req[a]] = [@ EXCEPT !.status = "running", !.claimed = TRUE]]
      BY <1>1, <2>1, <3>1 DEF Claim
    <3>4. row' \in [Requests -> Rows]
      BY <3>1, <3>2, <3>3
    <3> QED
      BY <1>1, <2>1, <3>4 DEF Claim
  <2>2. CASE ~Claimable(req[a])
    BY <1>1, <2>2, FailedBeforeRunType, LeaveType DEF Claim
  <2> QED
    BY <2>1, <2>2
<1>2. CASE SnapshotFails(a)
  BY <1>2, FailedBeforeRunType, LeaveType DEF SnapshotFails
<1>3. CASE CreateRun(a)
  BY <1>3 DEF CreateRun, RunStatus
<1>4. CASE Settle(a)
  <2>1. row' \in [Requests -> Rows]
    <3>1. req[a] \in Requests /\ run[req[a]] # "none"
      BY <1>4, BusyRequest DEF Settle, Busy, Locked, ReviewDiscipline, ActorOK
    <3>2. run[req[a]] \in Status
      BY <3>1, StatusNames
    <3> QED
      BY <1>4, <3>2, SetStatusType DEF Settle
  <2> QED
    BY <1>4, <2>1, LeaveType DEF Settle
<1>5. ASSUME NEW o \in Outcomes, NEW class \in {"state_capable", "project_mutation"}, FinishRun(a, o, class)
      PROVE  TypeOK'
  <2>1. RunOutcome(req[a], o) \in RunStatus
    BY DEF RunOutcome, RunStatus, Outcomes
  <2>2. run' \in [Requests -> RunStatus]
    BY <1>5, <2>1 DEF FinishRun
  <2>3. broker' \in [Gens -> Identities]
    BY <1>5, IdentityTypes DEF FinishRun
  <2> QED
    BY <1>5, <2>2, <2>3 DEF FinishRun
<1> HIDE ConstantFacts DEF TypeOK, rowVars, workVars, startVars, actorVars, turnVars, Goto, Labels, Dispatching
<1> QED
  BY <1>1, <1>2, <1>3, <1>4, <1>5, Zenon DEF DispatchStep

\* Waking waiters keeps the variables it touches typed.
LEMMA WakeTypes ==
    ASSUME TypeOK, NEW T, CancelWaiters(T)
    PROVE  /\ pc' \in [Actors -> Labels] /\ say' \in [Actors -> Decisions]
           /\ waiters' \subseteq Requests
BY DEF TypeOK, CancelWaiters, Labels, Decisions

\* Aborting tasks keeps the variables it touches typed.
LEMMA AbortTypes ==
    ASSUME TypeOK, NEW T, AbortTasks(T)
    PROVE  /\ pc' \in [Actors -> Labels]
           /\ req' \in [Actors -> Requests \cup {Nobody}]
           /\ ctx' \in [Gens -> Actors \cup {Nobody}]
           /\ live' \in [Turns -> SUBSET Requests]
BY DEF TypeOK, AbortTasks, Labels

\* Closing rows in bulk keeps the table typed.
LEMMA BulkTypes ==
    ASSUME TypeOK
    PROVE  /\ \A T : InterruptOperations(T) => row' \in [Requests -> Rows]
           /\ RecoverOperations => row' \in [Requests -> Rows]
<1>1. ASSUME NEW T, InterruptOperations(T) PROVE row' \in [Requests -> Rows]
  BY <1>1, RowTypes, StatusNames DEF TypeOK, InterruptOperations
<1>2. ASSUME RecoverOperations PROVE row' \in [Requests -> Rows]
  BY <1>2, RowTypes, StatusNames DEF TypeOK, RecoverOperations
<1> QED
  BY <1>1, <1>2

\* Every step of a cancellation keeps the types.
LEMMA CancelTypes ==
    ASSUME TypeOK, NEW t \in Turns, CancelTurn(t) \/ CancelStops(t) \/ CancelRecords(t)
    PROVE  TypeOK'
<1> USE ConstantFacts DEF TypeOK, rowVars, workVars, startVars, actorVars, turnVars, Idle, Cancelling, OpSteps
<1>1. CASE CancelTurn(t)
  BY <1>1, WakeTypes DEF CancelTurn
<1>2. CASE CancelStops(t)
  BY <1>2, AbortTypes DEF CancelStops
<1>3. CASE CancelRecords(t)
  BY <1>3, BulkTypes DEF CancelRecords
<1> QED
  BY <1>1, <1>2, <1>3

\* Other runs, interrupts and a crash keep the types.
LEMMA OtherTypes ==
    ASSUME TypeOK,
           \/ \E class \in {"state_capable", "project_mutation"} : OtherRun(class)
           \/ \E q \in Requests : InterruptRun(q)
           \/ Crash
    PROVE  TypeOK'
<1> USE ConstantFacts DEF TypeOK, rowVars, workVars, startVars, actorVars, turnVars
<1>1. ASSUME NEW class \in {"state_capable", "project_mutation"}, OtherRun(class) PROVE TypeOK'
  BY <1>1, IdentityTypes DEF OtherRun
<1>2. ASSUME NEW q \in Requests, InterruptRun(q) PROVE TypeOK'
  BY <1>2 DEF InterruptRun
<1>3. CASE Crash
  BY <1>3 DEF Crash, Restarting, OpSteps, Labels
<1> QED
  BY <1>1, <1>2, <1>3

\* Every step of a restart keeps the types: a start has a generation left for it.
LEMMA RestartTypes ==
    ASSUME TypeOK, StartsBounded, RestartStep
    PROVE  TypeOK'
<1> USE ConstantFacts DEF TypeOK, rowVars, workVars, startVars, actorVars, turnVars, Idle, Restarting, OpSteps
<1>1. CASE Restart
  BY <1>1, WakeTypes DEF Restart
<1>2. CASE RestartDrains
  BY <1>2, AbortTypes, BulkTypes DEF RestartDrains
<1>3. CASE RestartTakes
  BY <1>3 DEF RestartTakes
<1>4. CASE RestartWaits
  BY <1>4 DEF RestartWaits
<1>5. CASE RestartTimesOut
  BY <1>5 DEF RestartTimesOut
<1>6. CASE StartWorkspace
  <2>1. gen' \in Gens
    BY <1>6, EnvironmentAssumption DEF StartWorkspace, StartsBounded, Gens
  <2>2. run' \in [Requests -> RunStatus] /\ flagged' \in [Requests -> BOOLEAN]
    BY <1>6 DEF StartWorkspace, RecoverRuns, RunStatus
  <2>3. row' \in [Requests -> Rows]
    BY <1>6, BulkTypes DEF StartWorkspace
  <2> QED
    BY <1>6, <2>1, <2>2, <2>3 DEF StartWorkspace
<1>7. CASE StartFails
  BY <1>7 DEF StartFails
<1> QED
  BY <1>1, <1>2, <1>3, <1>4, <1>5, <1>6, <1>7 DEF RestartStep

\* Every step keeps the types.
LEMMA NextTypes ==
    ASSUME TypeOK, StartsBounded, ReviewDiscipline, Next
    PROVE  TypeOK'
BY CommandTypes, TurnTypes, DispatchTypes, CancelTypes, OtherTypes, RestartTypes, Zenon DEF Next

\* A restart only begins while a generation is left for it.
LEMMA NextBounded ==
    ASSUME TypeOK, StartsBounded, Next
    PROVE  StartsBounded'
<1> USE DEF StartsBounded, rowVars, workVars, startVars, actorVars, turnVars
<1>1. CASE UNCHANGED startVars
  BY <1>1
<1>2. ASSUME NEW t \in Turns, CancelTurn(t) \/ CancelStops(t) \/ CancelRecords(t) PROVE StartsBounded'
  BY <1>2 DEF CancelTurn, CancelStops, CancelRecords, Cancelling, Idle
<1>3. CASE RestartStep \/ Crash
  BY <1>3 DEF RestartStep, Restart, RestartDrains, RestartTakes, RestartWaits, RestartTimesOut,
              StartWorkspace, StartFails, Crash, Idle, Restarting
<1>4. ASSUME NEW k \in Commands, CommandStep(k) PROVE UNCHANGED startVars
  BY <1>4 DEF CommandStep, PreviewCall, PreviewRefused, Deliver, Recheck, Reconcile, Preview, Answer, Decide
<1>5. ASSUME NEW t \in Turns, TurnStep(t) PROVE UNCHANGED startVars
  BY <1>5 DEF TurnStep, StartTurn, RegisterWaiter, Reply, RefuseCancelled, Authorize, FinishTurn,
              RequestOperation, DecideForTurn, RequestDispatch
<1>6. ASSUME NEW a \in Actors, DispatchStep(a) PROVE UNCHANGED startVars
  BY <1>6 DEF DispatchStep, Claim, SnapshotFails, CreateRun, Settle, FinishRun
<1>7. ASSUME \/ \E class \in {"state_capable", "project_mutation"} : OtherRun(class)
             \/ \E q \in Requests : InterruptRun(q)
      PROVE  UNCHANGED startVars
  BY <1>7 DEF OtherRun, InterruptRun
<1> HIDE DEF StartsBounded, startVars
<1> QED
  BY <1>1, <1>2, <1>3, <1>4, <1>5, <1>6, <1>7, Zenon DEF Next

-----------------------------------------------------------------------------
(* A step of some actors leaves the others as they were *)

\* A row that exists goes on existing, for its turn and at its reviewed identity,
\* and what has a run keeps it.
Kept ==
    \A q \in Requests :
        /\ row[q].status # "absent" =>
             row'[q].status # "absent" /\ row'[q].turn = row[q].turn /\ row'[q].at = row[q].at
        /\ run[q] # "none" => run'[q] # "none"

\* The step is one of the actors in X: the others stay where they are, keep the
\* contexts they hold and see no change of them.
Framed(X) ==
    /\ \A b \in Actors \ X :
         /\ pc'[b] = pc[b] /\ on'[b] = on[b] /\ req'[b] = req[b]
         /\ b \in Turns => live'[b] \subseteq live[b]
    /\ \A g \in Gens : ctx[g] \in Actors \ X => ctx'[g] = ctx[g] /\ broker'[g] = broker[g]

\* What holds of an actor goes on holding in a step of others.
LEMMA OthersKept ==
    ASSUME TypeOK, ReviewDiscipline, Kept, NEW X, Framed(X)
    PROVE  \A b \in Actors \ X : ActorOK(b)'
<1> TAKE b \in Actors \ X
<1>1. ActorOK(b)
  BY DEF ReviewDiscipline
<1>2. on[b] \in Gens /\ pc'[b] = pc[b] /\ on'[b] = on[b] /\ req'[b] = req[b]
  BY DEF TypeOK, Framed
<1>3. pc[b] \in Locked => ctx'[on[b]] = b /\ broker'[on[b]] = broker[on[b]]
  BY <1>1, <1>2 DEF ActorOK, Framed
<1>4. b \in Turns => live'[b] \subseteq live[b] /\ live[b] \subseteq Requests
  BY DEF TypeOK, Framed
<1>5. {"claim", "snapshot", "executing"} \subseteq Locked /\ {"settle", "lost"} \subseteq Busy
      /\ {"registering", "awaiting", "deciding"} \subseteq Busy /\ Locked \subseteq Busy
  BY DEF Locked, Busy, Dispatching
<1>6. pc[b] \in Busy =>
        /\ req[b] \in Requests /\ row'[req[b]].status # "absent"
        /\ row'[req[b]].turn = row[req[b]].turn /\ row'[req[b]].at = row[req[b]].at
        /\ run[req[b]] # "none" => run'[req[b]] # "none"
  BY <1>1 DEF ActorOK, Kept
<1>7. b \in Turns => \A q \in live'[b] : row'[q].status # "absent"
  BY <1>1, <1>4 DEF ActorOK, Kept
<1> QED
  BY <1>1, <1>2, <1>3, <1>5, <1>6, <1>7 DEF ActorOK, Check

\* A status change to anything but absent keeps the rows.
LEMMA SetStatusKeeps ==
    ASSUME TypeOK, NEW q, NEW s, s # "absent", SetStatus(q, s), UNCHANGED run
    PROVE  Kept
BY DEF TypeOK, Rows, SetStatus, Kept

\* So does a step that touches neither table.
LEMMA UnchangedKeeps ==
    ASSUME UNCHANGED <<row, run>>
    PROVE  Kept
BY DEF Kept

\* An actor that leaves holds nothing that could be wrong.
LEMMA LeaveKeeps ==
    ASSUME TypeOK, ReviewDiscipline, Kept, NEW a \in Actors, Leave(a), UNCHANGED <<on, broker>>,
           \A t \in Turns : t # a => live'[t] \subseteq live[t],
           a \in Turns => \A q \in live'[a] : row'[q].status # "absent"
    PROVE  ReviewDiscipline'
<1>1. Framed({a})
  BY ConstantFacts DEF TypeOK, Framed, Leave, Goto
<1>2. pc'[a] \in {"none", "replying"}
  BY DEF TypeOK, Leave, Goto
<1>3. ActorOK(a)'
  BY <1>2 DEF ActorOK, Locked, Busy, Dispatching
<1> QED
  BY <1>1, <1>3, OthersKept DEF ReviewDiscipline

\* Every command of the interface keeps the discipline.
LEMMA CommandDiscipline ==
    ASSUME TypeOK, ReviewDiscipline, NEW k \in Commands, CommandStep(k)
    PROVE  ReviewDiscipline'
<1> USE ConstantFacts DEF rowVars, workVars, startVars, actorVars, turnVars
<1>0. ActorOK(k) /\ k \in Actors /\ k \notin Turns
  BY DEF ReviewDiscipline
<1>9. ASSUME Kept, Framed({k}), ActorOK(k)' PROVE ReviewDiscipline'
  BY <1>9, OthersKept DEF ReviewDiscipline
<1>1. CASE PreviewCall(k)
  <2>1. Kept /\ Framed({k})
    BY <1>1, UnchangedKeeps DEF PreviewCall, Framed, Goto, TypeOK
  <2>2. ActorOK(k)'
    BY <1>0, <1>1 DEF PreviewCall, Goto, TypeOK, ActorOK, Locked, Busy, Dispatching
  <2> QED
    BY <1>9, <2>1, <2>2
<1>2. CASE PreviewRefused(k)
  <2>1. Kept /\ Framed({k})
    BY <1>2, UnchangedKeeps DEF PreviewRefused, Framed, Goto, TypeOK
  <2>2. ActorOK(k)'
    BY <1>0, <1>2 DEF PreviewRefused, Goto, TypeOK, ActorOK, Locked, Busy, Dispatching
  <2> QED
    BY <1>9, <2>1, <2>2
<1>3. CASE Deliver(k)
  <2> DEFINE q == req[k]
             t == row[q].turn
  <2>1. Kept
    <3>1. CASE UNCHANGED row
      BY <1>3, <3>1, UnchangedKeeps DEF Deliver
    <3>2. CASE SetStatus(q, "interrupted")
      BY <1>3, <3>2, SetStatusKeeps DEF Deliver
    <3> QED
      BY <1>3, <3>1, <3>2 DEF Deliver
  <2>2. ActorOK(k)'
    <3>1. pc'[k] \in {"none", "deciding"} /\ (k # t => pc'[k] = "none")
      BY <1>0, <1>3 DEF Deliver, Goto, TypeOK
    <3>2. q \in Requests
      BY <1>0, <1>3 DEF Deliver, ActorOK, Busy
    <3>3. t \in Turns \cup {Nobody}
      BY <3>2 DEF TypeOK, Rows
    <3>4. pc'[k] = "none"
      BY <1>0, <3>1, <3>3
    <3> QED
      BY <1>0, <3>4 DEF ActorOK, Locked, Busy, Dispatching
  <2>3. CASE Listening(q)
    <3>1. PICK u \in Turns : pc[u] = "awaiting" /\ req[u] = q
      BY <2>3 DEF Listening
    <3>2. ActorOK(u)
      BY DEF ReviewDiscipline
    <3>3. u = t /\ q \in Requests
      BY <3>1, <3>2 DEF ActorOK, Busy
    <3>4. pc' = [pc EXCEPT ![k] = "none", ![u] = "deciding"] /\ req' = [req EXCEPT ![k] = Nobody]
      BY <1>3, <2>3, <3>3 DEF Deliver
    <3>5. Framed({k, u})
      BY <1>3, <3>4 DEF Deliver, Framed, TypeOK
    <3>6. pc'[u] = "deciding" /\ req'[u] = q /\ k # u
      BY <1>0, <3>1, <3>4 DEF TypeOK
    <3>7. row'[q].status # "absent" /\ row'[q].turn = u /\ \A p \in live'[u] : row'[p].status # "absent"
      BY <1>3, <2>3, <3>1, <3>2, <3>3 DEF Deliver, ActorOK, Busy
    <3>8. ActorOK(u)'
      BY <1>0, <3>3, <3>6, <3>7 DEF ActorOK, Locked, Busy, Dispatching
    <3> QED
      BY <2>1, <2>2, <3>5, <3>8, OthersKept DEF ReviewDiscipline
  <2>4. CASE ~Listening(q)
    <3>1. Framed({k})
      BY <1>3, <2>4 DEF Deliver, Framed, Goto, TypeOK
    <3> QED
      BY <1>9, <2>1, <2>2, <3>1
  <2> QED
    BY <2>3, <2>4
<1>4. CASE Recheck(k)
  <2>1. Kept
    BY <1>4, UnchangedKeeps DEF Recheck
  <2>2. CASE StillPending(k)
    <3>1. Framed({k})
      BY <1>4, <2>2 DEF Recheck, Framed, Goto, Lock, Free, TypeOK
    <3>2. ActorOK(k)'
      BY <1>0, <1>4, <2>2 DEF Recheck, Goto, Lock, TypeOK, ActorOK, Locked, Busy, Dispatching
    <3> QED
      BY <1>9, <2>1, <3>1, <3>2
  <2>3. CASE ~StillPending(k)
    BY <1>0, <1>4, <2>1, <2>3, LeaveKeeps DEF Recheck
  <2> QED
    BY <2>2, <2>3
<1>5. CASE Reconcile(k)
  <2>1. Kept
    BY <1>5, SetStatusKeeps DEF Reconcile
  <2> QED
    BY <1>0, <1>5, <2>1, LeaveKeeps DEF Reconcile
<1>6. ASSUME NEW q \in Requests, NEW s \in Captured, Preview(k, q, s) PROVE ReviewDiscipline'
  <2>1. Kept
    BY <1>6 DEF Preview, Kept, TypeOK
  <2>2. Framed({k})
    BY <1>6 DEF Preview, Framed, Goto, TypeOK
  <2>3. ActorOK(k)'
    BY <1>0, <1>6 DEF Preview, Goto, TypeOK, ActorOK, Locked, Busy, Dispatching
  <2> QED
    BY <1>9, <2>1, <2>2, <2>3
<1>7. ASSUME NEW q \in Requests, NEW d \in Decisions, Answer(k, q, d) PROVE ReviewDiscipline'
  <2>1. Kept /\ Framed({k})
    BY <1>7, UnchangedKeeps DEF Answer, Framed, Goto, TypeOK
  <2>2. pc'[k] \in {"answer", "deliver"} /\ req'[k] = q
    BY <1>0, <1>7 DEF Answer, Goto, TypeOK
  <2>3. row'[q].status # "absent"
    BY <1>7 DEF Answer
  <2>4. ActorOK(k)'
    BY <1>0, <2>2, <2>3 DEF ActorOK, Locked, Busy, Dispatching
  <2> QED
    BY <1>9, <2>1, <2>4
<1>8. ASSUME NEW s \in Captured, Decide(k, s) PROVE ReviewDiscipline'
  <2> DEFINE d == DecidedStatus(req[k], on[k], say[k], s)
  <2>1. Kept
    BY <1>8, SetStatusKeeps, DecidedStatusType DEF Decide
  <2>2. CASE d = "approved"
    <3>1. Framed({k})
      BY <1>8, <2>2 DEF Decide, Framed, Goto, TypeOK
    <3>2. StillCurrent(req[k], on[k], s)
      BY <2>2 DEF DecidedStatus
    <3>3. req[k] \in Requests /\ row[req[k]].status # "absent" /\ ctx[on[k]] = k
      BY <1>0, <1>8 DEF Decide, ActorOK, Locked, Busy
    <3>4. Check(broker'[on'[k]], row'[req'[k]].at)
      BY <1>8, <2>1, <2>2, <3>2, <3>3 DEF Decide, Kept, StillCurrent
    <3>5. pc'[k] = "claim" /\ req'[k] = req[k] /\ ctx'[on'[k]] = k /\ row'[req[k]].status # "absent"
      BY <1>0, <1>8, <2>1, <2>2, <3>3 DEF Decide, Goto, TypeOK, Kept
    <3>6. ActorOK(k)'
      BY <1>0, <3>3, <3>4, <3>5 DEF ActorOK
    <3> QED
      BY <1>9, <2>1, <3>1, <3>6
  <2>3. CASE d # "approved"
    BY <1>0, <1>8, <2>1, <2>3, LeaveKeeps DEF Decide
  <2> QED
    BY <2>2, <2>3
<1> HIDE ConstantFacts DEF rowVars, workVars, startVars, actorVars, turnVars
<1> QED
  BY <1>1, <1>2, <1>3, <1>4, <1>5, <1>6, <1>7, <1>8, Zenon DEF CommandStep

\* Every step of a turn's task keeps the discipline.
LEMMA TurnDiscipline ==
    ASSUME TypeOK, ReviewDiscipline, NEW t \in Turns, TurnStep(t)
    PROVE  ReviewDiscipline'
<1> USE ConstantFacts DEF rowVars, workVars, startVars, actorVars, turnVars
<1>0. ActorOK(t) /\ t \in Actors /\ t \notin Commands
  BY DEF ReviewDiscipline
<1>10. ASSUME Kept, Framed({t}), ActorOK(t)' PROVE ReviewDiscipline'
  BY <1>10, OthersKept DEF ReviewDiscipline
<1>1. CASE StartTurn(t)
  <2>1. Kept /\ Framed({t})
    BY <1>1, UnchangedKeeps DEF StartTurn, Framed, Goto, TypeOK
  <2>2. ActorOK(t)'
    BY <1>0, <1>1 DEF StartTurn, Goto, TypeOK, ActorOK, Locked, Busy, Dispatching
  <2> QED
    BY <1>10, <2>1, <2>2
<1>2. CASE RegisterWaiter(t)
  <2>1. Kept
    BY <1>2, UnchangedKeeps DEF RegisterWaiter
  <2>2. ctx[on[t]] = t /\ req[t] \in Requests /\ row[req[t]].turn = t /\ row[req[t]].status # "absent"
    BY <1>0, <1>2 DEF RegisterWaiter, ActorOK, Locked, Busy
  <2>3. Framed({t})
    BY <1>2, <2>2 DEF RegisterWaiter, Framed, Goto, TypeOK
  <2>4. pc'[t] = "awaiting" /\ req'[t] = req[t] /\ row' = row /\ live' = live
    BY <1>0, <1>2 DEF RegisterWaiter, Goto, TypeOK
  <2>5. ActorOK(t)'
    BY <1>0, <2>2, <2>4 DEF ActorOK, Locked, Busy, Dispatching
  <2> QED
    BY <1>10, <2>1, <2>3, <2>5
<1>3. CASE Reply(t)
  <2>1. Kept /\ Framed({t})
    BY <1>3, UnchangedKeeps DEF Reply, Framed, Goto, TypeOK
  <2>2. ActorOK(t)'
    BY <1>0, <1>3 DEF Reply, Goto, TypeOK, ActorOK, Locked, Busy, Dispatching
  <2> QED
    BY <1>10, <2>1, <2>2
<1>4. CASE RefuseCancelled(t)
  <2>1. Kept
    BY <1>4, UnchangedKeeps DEF RefuseCancelled
  <2> QED
    BY <1>0, <1>4, <2>1, LeaveKeeps DEF RefuseCancelled, ActorOK
<1>5. CASE Authorize(t)
  <2>1. Kept
    BY <1>5, UnchangedKeeps DEF Authorize
  <2>2. CASE Leave(t)
    BY <1>0, <1>5, <2>1, <2>2, LeaveKeeps DEF Authorize, ActorOK
  <2>3. CASE Lock(t) /\ Goto(t, "claim") /\ UNCHANGED req
    <3>1. Framed({t})
      BY <1>5, <2>3 DEF Authorize, Framed, Goto, Lock, Free, TypeOK
    <3>2. req[t] \in Requests /\ row[req[t]].status # "absent"
      BY <1>0, <1>5 DEF Authorize, ActorOK, Busy
    <3>3. pc'[t] = "claim" /\ req'[t] = req[t] /\ ctx'[on'[t]] = t /\ row' = row /\ live' = live
      BY <1>0, <1>5, <2>3 DEF Authorize, Goto, Lock, TypeOK
    <3>4. ActorOK(t)'
      BY <1>0, <3>2, <3>3 DEF ActorOK
    <3> QED
      BY <1>10, <2>1, <3>1, <3>4
  <2> QED
    BY <1>5, <2>2, <2>3 DEF Authorize
<1>6. CASE FinishTurn(t)
  <2>1. Kept /\ Framed({t})
    BY <1>6, UnchangedKeeps DEF FinishTurn, Framed, Goto, TypeOK
  <2>2. ActorOK(t)'
    BY <1>0, <1>6 DEF FinishTurn, Goto, TypeOK, ActorOK, Locked, Busy, Dispatching
  <2> QED
    BY <1>10, <2>1, <2>2
<1>7. ASSUME NEW q \in Requests, NEW s \in Captured, RequestOperation(t, q, s) PROVE ReviewDiscipline'
  <2>1. Kept
    BY <1>7 DEF RequestOperation, Kept, TypeOK
  <2>2. Framed({t})
    BY <1>7 DEF RequestOperation, Framed, Goto, Lock, Free, TypeOK
  <2>3. row'[q].status = "requested" /\ row'[q].turn = t
    BY <1>7 DEF RequestOperation, Previewed, TypeOK
  <2>4. pc'[t] = "registering" /\ req'[t] = q /\ ctx'[on'[t]] = t /\ live' = live
    BY <1>0, <1>7 DEF RequestOperation, Goto, Lock, TypeOK
  <2>5. \A p \in live[t] : row'[p].status # "absent"
    BY <1>0, <2>1 DEF ActorOK, Kept, TypeOK
  <2>6. ActorOK(t)'
    BY <1>0, <2>3, <2>4, <2>5 DEF ActorOK
  <2> QED
    BY <1>10, <2>1, <2>2, <2>6
<1>8. ASSUME NEW s \in Captured, DecideForTurn(t, s) PROVE ReviewDiscipline'
  <2>1. Kept
    BY <1>8, SetStatusKeeps, DecidedStatusType DEF DecideForTurn
  <2>2. req[t] \in Requests /\ row[req[t]].status # "absent"
    BY <1>0, <1>8 DEF DecideForTurn, ActorOK, Busy
  <2>3. \A u \in Turns : u # t => live'[u] \subseteq live[u]
    BY <1>8 DEF DecideForTurn, TypeOK
  <2>4. \A q \in live'[t] : q \in Requests /\ row[q].status # "absent"
    BY <1>0, <1>8, <2>2 DEF DecideForTurn, ActorOK, TypeOK
  <2>5. \A q \in live'[t] : row'[q].status # "absent"
    BY <2>1, <2>4 DEF Kept
  <2> QED
    BY <1>0, <1>8, <2>1, <2>3, <2>5, LeaveKeeps DEF DecideForTurn
<1>9. ASSUME NEW q \in Requests, NEW m \in BOOLEAN, RequestDispatch(t, q, m) PROVE ReviewDiscipline'
  <2>1. Kept /\ Framed({t})
    BY <1>9, UnchangedKeeps DEF RequestDispatch, Framed, Goto, TypeOK
  <2>2. (pc'[t] = "ctxwait" /\ req'[t] = q) \/ pc'[t] = "replying"
    BY <1>0, <1>9 DEF RequestDispatch, Goto, TypeOK
  <2>3. row' = row /\ row[q].status # "absent" /\ live'[t] \subseteq live[t]
    BY <1>0, <1>9 DEF RequestDispatch, ActorOK, TypeOK
  <2>4. ActorOK(t)'
    BY <1>0, <2>2, <2>3 DEF ActorOK, Locked, Busy, Dispatching
  <2> QED
    BY <1>10, <2>1, <2>4
<1> HIDE ConstantFacts DEF rowVars, workVars, startVars, actorVars, turnVars
<1> QED
  BY <1>1, <1>2, <1>3, <1>4, <1>5, <1>6, <1>7, <1>8, <1>9, Zenon DEF TurnStep

\* Every step of the dispatcher keeps the discipline: the mutex is held throughout.
LEMMA DispatchDiscipline ==
    ASSUME TypeOK, ReviewDiscipline, NEW a \in Actors, DispatchStep(a)
    PROVE  ReviewDiscipline'
<1> USE ConstantFacts DEF rowVars, workVars, startVars, actorVars, turnVars
<1>0. ActorOK(a)
  BY DEF ReviewDiscipline
<1>6. ASSUME Kept, Framed({a}), ActorOK(a)' PROVE ReviewDiscipline'
  BY <1>6, OthersKept DEF ReviewDiscipline
<1>7. ASSUME Kept, Leave(a), UNCHANGED <<on, broker, live>> PROVE ReviewDiscipline'
  <2>1. a \in Turns => \A q \in live'[a] : q \in Requests /\ row[q].status # "absent"
    BY <1>0, <1>7 DEF ActorOK, TypeOK
  <2>2. a \in Turns => \A q \in live'[a] : row'[q].status # "absent"
    BY <1>7, <2>1 DEF Kept
  <2> QED
    BY <1>7, <2>2, LeaveKeeps
<1>8. ASSUME FailedBeforeRun(a), UNCHANGED run PROVE Kept
  BY <1>8, SetStatusKeeps, UnchangedKeeps DEF FailedBeforeRun
<1>9. ASSUME pc[a] \in Dispatching PROVE ctx[on[a]] = a /\ req[a] \in Requests /\ row[req[a]].status # "absent"
  BY <1>0, <1>9 DEF ActorOK, Locked, Busy
<1>10. ASSUME Kept, pc[a] \in Dispatching, pc'[a] \in Dispatching, UNCHANGED <<on, req, ctx, live>>,
              pc'[a] \in {"settle", "lost"} => run'[req[a]] # "none",
              pc'[a] \in {"claim", "snapshot", "executing"} =>
                  pc[a] \in {"claim", "snapshot", "executing"} /\ UNCHANGED broker
       PROVE  ActorOK(a)'
  <2>1. /\ row'[req[a]].status # "absent" /\ row'[req[a]].at = row[req[a]].at
        /\ ctx[on[a]] = a /\ req[a] \in Requests
    BY <1>9, <1>10 DEF Kept
  <2>2. a \in Turns => \A q \in live[a] : row'[q].status # "absent"
    BY <1>0, <1>10 DEF ActorOK, Kept, TypeOK
  <2> QED
    BY <1>0, <1>10, <2>1, <2>2 DEF ActorOK, Locked, Busy, Dispatching
<1>1. CASE Claim(a)
  <2>1. CASE Claimable(req[a])
    <3>1. Kept
      BY <1>1, <2>1 DEF Claim, Kept, TypeOK, Rows
    <3>2. Framed({a})
      BY <1>1, <2>1 DEF Claim, Framed, Goto, TypeOK
    <3>3. pc[a] = "claim" /\ pc'[a] = "snapshot" /\ UNCHANGED <<on, req, ctx, live, broker>>
      BY <1>1, <2>1 DEF Claim, Goto, TypeOK
    <3>4. ActorOK(a)'
      BY <1>10, <3>1, <3>3 DEF Dispatching
    <3> QED
      BY <1>6, <3>1, <3>2, <3>4
  <2>2. CASE ~Claimable(req[a])
    BY <1>1, <1>7, <1>8, <2>2 DEF Claim
  <2> QED
    BY <2>1, <2>2
<1>2. CASE SnapshotFails(a)
  BY <1>2, <1>7, <1>8 DEF SnapshotFails
<1>3. CASE CreateRun(a)
  <2>1. Kept
    BY <1>3 DEF CreateRun, Kept, TypeOK
  <2>2. Framed({a})
    BY <1>3 DEF CreateRun, Framed, Goto, TypeOK
  <2>3. pc[a] = "snapshot" /\ pc'[a] = "executing" /\ UNCHANGED <<on, req, ctx, live, broker>>
    BY <1>3 DEF CreateRun, Goto, TypeOK
  <2>4. ActorOK(a)'
    BY <1>10, <2>1, <2>3 DEF Dispatching
  <2> QED
    BY <1>6, <2>1, <2>2, <2>4
<1>4. CASE Settle(a)
  <2>1. pc[a] \in Dispatching /\ run[req[a]] # "none" /\ run[req[a]] \in RunStatus
    BY <1>0, <1>4, <1>9 DEF Settle, ActorOK, Dispatching, TypeOK
  <2>2. Kept
    BY <1>4, <2>1, SetStatusKeeps DEF Settle, RunStatus
  <2>3. CASE Leave(a)
    BY <1>4, <1>7, <2>2, <2>3 DEF Settle
  <2>4. CASE Goto(a, "reconcile") /\ UNCHANGED <<ctx, req>>
    <3>1. Framed({a})
      BY <1>4, <2>4 DEF Settle, Framed, Goto, TypeOK
    <3>2. pc'[a] = "reconcile" /\ UNCHANGED <<on, req, ctx, live>>
      BY <1>4, <2>4 DEF Settle, Goto, TypeOK
    <3>3. ActorOK(a)'
      BY <1>10, <2>1, <2>2, <3>2 DEF Dispatching
    <3> QED
      BY <1>6, <2>2, <3>1, <3>3
  <2> QED
    BY <1>4, <2>3, <2>4 DEF Settle
<1>5. ASSUME NEW o \in Outcomes, NEW class \in {"state_capable", "project_mutation"}, FinishRun(a, o, class)
      PROVE  ReviewDiscipline'
  <2>1. RunOutcome(req[a], o) # "none"
    BY DEF RunOutcome, Outcomes
  <2>2. Kept
    BY <1>5, <2>1 DEF FinishRun, Kept, TypeOK
  <2>3. ctx[on[a]] = a /\ req[a] \in Requests
    BY <1>5, <1>9 DEF FinishRun, Dispatching
  <2>4. Framed({a})
    BY <1>5, <2>3 DEF FinishRun, Framed, Goto, TypeOK
  <2>5. /\ pc[a] = "executing" /\ pc'[a] \in {"settle", "lost"} /\ run'[req[a]] # "none"
        /\ UNCHANGED <<on, req, ctx, live>>
    BY <1>5, <2>1, <2>3 DEF FinishRun, Goto, TypeOK
  <2>6. ActorOK(a)'
    BY <1>10, <2>2, <2>5 DEF Dispatching
  <2> QED
    BY <1>6, <2>2, <2>4, <2>6
<1> HIDE ConstantFacts DEF rowVars, workVars, startVars, actorVars, turnVars
<1> QED
  BY <1>1, <1>2, <1>3, <1>4, <1>5, Zenon DEF DispatchStep

\* Waking waiters keeps the discipline: the turn still works on its own request.
LEMMA WakeKeeps ==
    ASSUME TypeOK, ReviewDiscipline, NEW T, CancelWaiters(T),
           UNCHANGED <<row, run, on, req, ctx, broker, live>>
    PROVE  ReviewDiscipline'
<1> SUFFICES ASSUME NEW a \in Actors PROVE ActorOK(a)'
  BY DEF ReviewDiscipline
<1>1. ActorOK(a)
  BY DEF ReviewDiscipline
<1>2. pc'[a] = pc[a] \/ (a \in T /\ pc[a] = "awaiting" /\ pc'[a] = "deciding")
  BY DEF CancelWaiters, TypeOK
<1> QED
  BY <1>1, <1>2 DEF ActorOK, Locked, Busy, Dispatching

\* Dropping tasks keeps the discipline: the tasks that go on keep their contexts.
LEMMA AbortKeeps ==
    ASSUME TypeOK, ReviewDiscipline, NEW T, T \subseteq Turns, AbortTasks(T), Kept, UNCHANGED <<on, broker>>
    PROVE  ReviewDiscipline'
<1>1. Framed(T)
  BY ConstantFacts DEF TypeOK, AbortTasks, Framed
<1>2. ASSUME NEW a \in T PROVE ActorOK(a)'
  <2>1. pc'[a] = "none" /\ live'[a] = {}
    BY <1>2, ConstantFacts DEF AbortTasks
  <2> QED
    BY <2>1 DEF ActorOK, Locked, Busy, Dispatching
<1> QED
  BY <1>1, <1>2, OthersKept DEF ReviewDiscipline

\* Rows that are closed in bulk are kept.
LEMMA BulkKeeps ==
    ASSUME TypeOK
    PROVE  /\ \A T : InterruptOperations(T) /\ UNCHANGED run => Kept
           /\ RecoverOperations /\ RecoverRuns => Kept
<1>1. ASSUME NEW T, InterruptOperations(T), UNCHANGED run PROVE Kept
  BY <1>1 DEF TypeOK, Rows, InterruptOperations, Kept
<1>2. ASSUME RecoverOperations, RecoverRuns PROVE Kept
  BY <1>2 DEF TypeOK, Rows, RecoverOperations, RecoverRuns, Kept
<1> QED
  BY <1>1, <1>2

\* A step that moves no actor and no context that is held.
LEMMA IdleKeeps ==
    ASSUME TypeOK, ReviewDiscipline, Kept, UNCHANGED <<ctx, pc, on, req, live>>,
           \A g \in Gens : ctx[g] # Nobody => broker'[g] = broker[g]
    PROVE  ReviewDiscipline'
<1>1. Framed({})
  BY ConstantFacts DEF Framed
<1> QED
  BY <1>1, OthersKept DEF ReviewDiscipline

\* Cancellation, restart, crash and everything else keep the discipline.
LEMMA RestDiscipline ==
    ASSUME TypeOK, ReviewDiscipline,
           \/ \E t \in Turns : CancelTurn(t) \/ CancelStops(t) \/ CancelRecords(t)
           \/ \E class \in {"state_capable", "project_mutation"} : OtherRun(class)
           \/ \E q \in Requests : InterruptRun(q)
           \/ RestartStep \/ Crash
    PROVE  ReviewDiscipline'
<1> USE DEF rowVars, workVars, startVars, actorVars, turnVars
<1>1. ASSUME NEW t \in Turns, CancelTurn(t) PROVE ReviewDiscipline'
  BY <1>1, WakeKeeps DEF CancelTurn
<1>2. ASSUME NEW t \in Turns, CancelStops(t) PROVE ReviewDiscipline'
  BY <1>2, AbortKeeps, UnchangedKeeps DEF CancelStops
<1>3. ASSUME NEW t \in Turns, CancelRecords(t) PROVE ReviewDiscipline'
  BY <1>3, IdleKeeps, BulkKeeps DEF CancelRecords
<1>4. ASSUME NEW class \in {"state_capable", "project_mutation"}, OtherRun(class) PROVE ReviewDiscipline'
  <2>1. \A g \in Gens : ctx[g] # Nobody => broker'[g] = broker[g]
    BY <1>4 DEF OtherRun, TypeOK
  <2> QED
    BY <1>4, <2>1, IdleKeeps, UnchangedKeeps DEF OtherRun
<1>5. ASSUME NEW q \in Requests, InterruptRun(q) PROVE ReviewDiscipline'
  BY <1>5, IdleKeeps, UnchangedKeeps DEF InterruptRun
<1>6. CASE Restart
  BY <1>6, WakeKeeps DEF Restart
<1>7. CASE RestartDrains
  <2> DEFINE T == {t \in Turns : pc[t] # "none"}
  <2>1. Kept
    BY <1>7, BulkKeeps DEF RestartDrains
  <2>2. AbortTasks(T) /\ UNCHANGED <<on, broker>>
    BY <1>7 DEF RestartDrains
  <2> QED
    BY <2>1, <2>2, AbortKeeps
<1>8. CASE RestartTakes \/ RestartWaits \/ RestartTimesOut \/ StartFails
  BY <1>8, IdleKeeps, UnchangedKeeps DEF RestartTakes, RestartWaits, RestartTimesOut, StartFails
<1>9. CASE StartWorkspace
  BY <1>9, IdleKeeps, BulkKeeps DEF StartWorkspace
<1>10. CASE Crash
  BY <1>10 DEF Crash, ReviewDiscipline, ActorOK, Locked, Busy, Dispatching
<1> HIDE DEF rowVars, workVars, startVars, actorVars, turnVars
<1> QED
  BY <1>1, <1>2, <1>3, <1>4, <1>5, <1>6, <1>7, <1>8, <1>9, <1>10 DEF RestartStep

\* The inductive invariant: types, a generation left for every start, and the
\* discipline of the actors.
Inv == TypeOK /\ StartsBounded /\ ReviewDiscipline

\* The invariant holds of every state of every behaviour.
THEOREM Invariance == Spec => []Inv
<1>1. Init => Inv
  <2> SUFFICES ASSUME Init PROVE Inv
    OBVIOUS
  <2>1. StartsBounded
    BY DEF Init, StartsBounded, Idle
  <2>2. ReviewDiscipline
    BY ConstantFacts DEF Init, ReviewDiscipline, ActorOK, Locked, Busy, Dispatching
  <2> QED
    BY <2>1, <2>2, InitType DEF Inv
<1>2. Inv /\ [Next]_vars => Inv'
  <2> SUFFICES ASSUME Inv, [Next]_vars PROVE Inv'
    OBVIOUS
  <2>1. CASE Next
    <3>1. TypeOK' /\ StartsBounded'
      BY <2>1, NextTypes, NextBounded DEF Inv
    <3>2. ReviewDiscipline'
      BY <2>1, CommandDiscipline, TurnDiscipline, DispatchDiscipline, RestDiscipline, Zenon DEF Inv, Next
    <3> QED
      BY <3>1, <3>2 DEF Inv
  <2>2. CASE UNCHANGED vars
    BY <2>2 DEF vars, rowVars, workVars, startVars, actorVars, turnVars, Inv, TypeOK, StartsBounded,
                ReviewDiscipline, ActorOK
  <2> QED
    BY <2>1, <2>2
<1> QED
  BY <1>1, <1>2, PTL DEF Spec

\* The rows, contexts and actors have their types: in particular the row of a
\* request is only ever given a status of the table, the outcome of a run that exists.
THEOREM TypeCorrect == Spec => []TypeOK
<1>1. Inv => TypeOK
  BY DEF Inv
<1> QED
  BY <1>1, Invariance, PTL

\* A direct operation executes at the Workspace and project revision its preview
\* was reviewed at, whatever other commands, turns, restarts and crashes do
\* between the user's decision and the execution.
THEOREM ReviewedIsExecuted == Spec => []ExecutesAsReviewed
<1>1. Inv => ExecutesAsReviewed
  BY ConstantFacts DEF Inv, ReviewDiscipline, ActorOK, ExecutesAsReviewed
<1> QED
  BY <1>1, Invariance, PTL

-----------------------------------------------------------------------------
(* What a request reads as is what was done for it *)

\* Labels at which a command works on a direct request, and at which only a turn can be.
DirectWork == Dispatching \cup {"answer", "recheck"}
TurnLabels == {"registering", "awaiting", "deciding", "ctxwait"}
NotRunYet == {"recheck", "claim", "snapshot"} \cup TurnLabels
Finished == {"completed", "failed", "interrupted"}

\* The request an actor works on is of its lane; it has no run before its actor creates one,
\* which needs the user's approval and a claimed row; its run is over when it is recorded.
WorkOK(a) ==
    /\ a \in Commands => pc[a] \notin TurnLabels
    /\ a \in Commands /\ pc[a] \in DirectWork => row[req[a]].turn = Nobody
    /\ a \in Turns /\ pc[a] \in Busy => row[req[a]].turn = a
    /\ pc[a] \in {"answer", "deliver", "recheck", "deciding"} /\ say[a] = "approve" => granted[req[a]]
    /\ pc[a] \in {"ctxwait", "claim", "snapshot"} => granted[req[a]]
    /\ pc[a] \in NotRunYet => run[req[a]] = "none"
    /\ pc[a] = "snapshot" => row[req[a]].status \in {"running", "interrupted"}
    /\ pc[a] = "executing" => run[req[a]] # "none"
    /\ pc[a] \in {"settle", "lost"} => run[req[a]] \in Finished
    /\ a \in Turns => \A q \in live[a] :
         /\ row[q].turn = a /\ granted[q] /\ run[q] = "none"
         /\ ~(pc[a] \in Busy /\ req[a] = q)

\* The commands that work on a direct request cloned the same context, the current one
\* while the request is still open for a decision.
OneContext ==
    /\ \A k, l \in Commands :
         pc[k] \in DirectWork /\ pc[l] \in DirectWork /\ req[k] = req[l] => on[k] = on[l]
    /\ \A k \in Commands :
         pc[k] \in DirectWork /\ row[req[k]].status = "requested" => on[k] = gen

\* A Workspace is up, or may yet be put back by a restart that times out.
MayServe == ready \/ op = Restarting("wait")

\* A direct request that reads as approved or running has its command.
HasCommand(q) ==
    Direct(q) /\ row[q].status \in {"approved", "running"} =>
        \E k \in Commands : req[k] = q /\ pc[k] \in Dispatching

\* The inductive invariant of the request table.
RequestDiscipline ==
    /\ RowTellsRun
    /\ \A a \in Actors : WorkOK(a)
    /\ OneContext
    /\ MayServe => \A q \in Requests : HasCommand(q)

\* Labels at which an actor is the only one that may touch its request.
Owning == Locked \cup TurnLabels

\* What the labels have to do with each other.
LEMMA LabelFacts ==
    /\ Locked \subseteq Owning /\ TurnLabels \subseteq Owning /\ Owning \subseteq Busy
    /\ DirectWork \subseteq Busy /\ Dispatching \subseteq DirectWork /\ NotRunYet \subseteq Owning
    /\ Dispatching \subseteq Locked /\ Locked \ {"registering"} \subseteq DirectWork
    /\ "deliver" \in Busy /\ "none" \notin Busy /\ "replying" \notin Busy /\ "idle" \notin Busy
    /\ "preview" \notin Busy /\ "answer" \notin Owning /\ "deliver" \notin Owning
    /\ "deliver" \notin DirectWork /\ TurnLabels \cap DirectWork = {}
BY DEF Owning, Locked, Busy, TurnLabels, DirectWork, Dispatching, NotRunYet

\* No two actors own the same request.
LEMMA Exclusive ==
    ASSUME TypeOK, ReviewDiscipline, RequestDiscipline, NEW a \in Actors, NEW b \in Actors, a # b,
           pc[a] \in Owning, pc[b] \in Owning
    PROVE  req[a] # req[b]
<1> SUFFICES ASSUME req[a] = req[b] PROVE FALSE
  OBVIOUS
<1>1. ActorOK(a) /\ ActorOK(b) /\ WorkOK(a) /\ WorkOK(b)
  BY DEF ReviewDiscipline, RequestDiscipline
<1>2. pc[a] \in Busy /\ pc[b] \in Busy
  BY LabelFacts
<1>3. a \in Turns => row[req[a]].turn = a
  BY <1>1, <1>2 DEF WorkOK
<1>4. b \in Turns => row[req[b]].turn = b
  BY <1>1, <1>2 DEF WorkOK
<1>5. a \in Commands => pc[a] \in Locked /\ pc[a] \in DirectWork /\ row[req[a]].turn = Nobody
  BY <1>1, LabelFacts DEF WorkOK, Owning, TurnLabels
<1>6. b \in Commands => pc[b] \in Locked /\ pc[b] \in DirectWork /\ row[req[b]].turn = Nobody
  BY <1>1, LabelFacts DEF WorkOK, Owning, TurnLabels
<1>7. CASE a \in Commands /\ b \in Commands
  <2>1. on[a] = on[b]
    BY <1>5, <1>6, <1>7 DEF RequestDiscipline, OneContext
  <2> QED
    BY <1>1, <1>5, <1>6, <1>7, <2>1 DEF ActorOK
<1> QED
  BY <1>3, <1>4, <1>5, <1>6, <1>7, ConstantFacts DEF Actors

\* A request that is owned is not a live approval of another turn.
LEMMA OwnedNotLive ==
    ASSUME TypeOK, ReviewDiscipline, RequestDiscipline, NEW a \in Actors, NEW t \in Turns, a # t,
           pc[a] \in Owning
    PROVE  req[a] \notin live[t]
<1>1. WorkOK(a) /\ WorkOK(t)
  BY ConstantFacts DEF RequestDiscipline
<1>2. a \in Turns => row[req[a]].turn = a
  BY <1>1, LabelFacts DEF WorkOK
<1>3. a \in Commands => row[req[a]].turn = Nobody
  BY <1>1, LabelFacts DEF WorkOK, Owning, TurnLabels
<1> QED
  BY <1>1, <1>2, <1>3, ConstantFacts DEF WorkOK, Actors

\* Request q is made, left alone or closed, and its run is left alone or recovered.
Closed(q) ==
    /\ \/ row'[q].status = row[q].status
       \/ row'[q].status = "interrupted"
       \/ row[q].status = "requested" /\ row'[q].status = "stale"
       \/ row[q].status = "absent" /\ row'[q].status = "requested"
    /\ row[q].status # "absent" => row'[q].status # "absent" /\ row'[q].turn = row[q].turn
    /\ run'[q] = run[q] \/ (run[q] = "running" /\ run'[q] = "interrupted")
    /\ granted[q] => granted'[q]

\* Actor b stays where it is.
Stays(b) ==
    /\ pc'[b] = pc[b] /\ on'[b] = on[b] /\ req'[b] = req[b] /\ say'[b] = say[b]
    /\ b \in Turns => live'[b] \subseteq live[b]

\* What holds of an actor's request goes on holding while the actor stays and its requests
\* are at most closed.
LEMMA WorkKept ==
    ASSUME TypeOK, NEW b \in Actors, ActorOK(b), WorkOK(b), Stays(b),
           \A q \in Requests : granted[q] => granted'[q],
           \A q \in Requests : row[q].status # "absent" => row'[q].turn = row[q].turn,
           pc[b] \in Owning => Closed(req[b]),
           b \in Turns => \A q \in live[b] : Closed(q)
    PROVE  WorkOK(b)'
<1>1. pc[b] \in Busy => req[b] \in Requests /\ row'[req[b]].turn = row[req[b]].turn
                        /\ (granted[req[b]] => granted'[req[b]])
  BY DEF ActorOK
<1>2. ASSUME b \in Turns, NEW q \in live'[b]
      PROVE  /\ row'[q].turn = b /\ granted'[q] /\ run'[q] = "none"
             /\ ~(pc'[b] \in Busy /\ req'[b] = q)
  <2>1. q \in live[b] /\ q \in Requests /\ Closed(q)
    BY <1>2 DEF Stays, TypeOK
  <2>2. row[q].turn = b /\ granted[q] /\ run[q] = "none" /\ ~(pc[b] \in Busy /\ req[b] = q) /\ row[q].status # "absent"
    BY <1>2, <2>1 DEF WorkOK, ActorOK
  <2> QED
    BY <2>1, <2>2 DEF Closed, Stays
<1>3. pc[b] \in NotRunYet => run'[req[b]] = "none"
  BY LabelFacts DEF WorkOK, Closed
<1>4. /\ pc[b] = "snapshot" => row'[req[b]].status \in {"running", "interrupted"}
      /\ pc[b] = "executing" => run'[req[b]] # "none"
      /\ pc[b] \in {"settle", "lost"} => run'[req[b]] \in Finished
  BY DEF WorkOK, Closed, Finished, Owning, Locked, Dispatching
<1>5. {"answer", "deliver", "recheck", "deciding", "ctxwait", "claim", "snapshot"} \subseteq Busy
  BY DEF Busy, Locked, Dispatching
<1> QED
  BY <1>1, <1>2, <1>3, <1>4, <1>5, LabelFacts DEF WorkOK, Stays

\* Rows that are at most closed go on telling their runs.
LEMMA TellsKept ==
    ASSUME RowTellsRun, NEW q \in Requests, Closed(q)
    PROVE  /\ run'[q] # "none" => granted'[q] /\ row'[q].status \notin Denied \cup {"absent", "requested", "approved"}
           /\ row'[q].status = "completed" => run'[q] # "none"
BY DEF RowTellsRun, Closed, Denied

\* Commands that stay at their requests stay in their context.
LEMMA OneContextKept ==
    ASSUME ReviewDiscipline, OneContext, UNCHANGED gen,
           \A k \in Commands : pc'[k] \in DirectWork =>
             pc[k] \in DirectWork /\ req'[k] = req[k] /\ on'[k] = on[k],
           \A q \in Requests : row'[q].status = "requested" => row[q].status \in {"requested", "absent"}
    PROVE  OneContext'
<1>1. \A k \in Commands : pc[k] \in DirectWork => req[k] \in Requests /\ row[req[k]].status # "absent"
  BY LabelFacts, ConstantFacts DEF ReviewDiscipline, ActorOK
<1> QED
  BY <1>1 DEF OneContext

\* A direct request that is still open keeps its command.
LEMMA SettledKept ==
    ASSUME MayServe => \A q \in Requests : HasCommand(q), MayServe' => MayServe,
           \A k \in Commands : pc[k] \in Dispatching =>
             (pc'[k] \in Dispatching /\ req'[k] = req[k]) \/ row'[req[k]].status \notin {"approved", "running"},
           \A q \in Requests : row'[q].status \in {"approved", "running"} =>
             \/ row[q].status \in {"approved", "running"} /\ row'[q].turn = row[q].turn
             \/ row'[q].turn # Nobody
             \/ \E k \in Commands : req'[k] = q /\ pc'[k] \in Dispatching
    PROVE  MayServe' => \A q \in Requests : HasCommand(q)'
<1> SUFFICES ASSUME MayServe', NEW q \in Requests, row'[q].turn = Nobody, row'[q].status \in {"approved", "running"}
             PROVE  \E k \in Commands : req'[k] = q /\ pc'[k] \in Dispatching
  BY DEF HasCommand, Direct
<1>1. CASE row[q].status \in {"approved", "running"} /\ row'[q].turn = row[q].turn
  <2>1. PICK k \in Commands : req[k] = q /\ pc[k] \in Dispatching
    BY <1>1 DEF HasCommand, Direct
  <2> QED
    BY <2>1
<1> QED
  BY <1>1

\* A step in which requests are at most made or closed, and the actors' requests are in
\* order again, keeps the discipline.
LEMMA SoftStep ==
    ASSUME TypeOK, ReviewDiscipline, RequestDiscipline, UNCHANGED gen, MayServe' => MayServe,
           \A q \in Requests : Closed(q), \A a \in Actors : WorkOK(a)',
           \A k \in Commands : pc'[k] \in DirectWork =>
             pc[k] \in DirectWork /\ req'[k] = req[k] /\ on'[k] = on[k],
           \A k \in Commands : pc[k] \in Dispatching => pc'[k] \in Dispatching /\ req'[k] = req[k]
    PROVE  RequestDiscipline'
<1>1. RowTellsRun'
  BY TellsKept DEF RequestDiscipline, RowTellsRun
<1>2. OneContext'
  BY OneContextKept DEF RequestDiscipline, Closed
<1>3. MayServe' => \A q \in Requests : HasCommand(q)'
  BY SettledKept DEF RequestDiscipline, Closed
<1> QED
  BY <1>1, <1>2, <1>3 DEF RequestDiscipline

\* What RowTellsRun says of one request.
Tells(q) ==
    /\ run[q] # "none" => granted[q] /\ row[q].status \notin Denied \cup {"absent", "requested", "approved"}
    /\ row[q].status = "completed" => run[q] # "none"

\* The owner of a request changes it, and nothing else changes.
LEMMA OwnerStep ==
    ASSUME TypeOK, ReviewDiscipline, RequestDiscipline, NEW a \in Actors, pc[a] \in Owning,
           NEW r \in Requests, r = req[a],
           UNCHANGED <<granted, gen, op, ready>>, \A b \in Actors \ {a} : Stays(b), on'[a] = on[a],
           \A q \in Requests \ {req[a]} : row'[q] = row[q] /\ run'[q] = run[q],
           row'[req[a]].status # "absent", row'[req[a]].turn = row[req[a]].turn,
           row'[req[a]].status = "requested" => row[req[a]].status = "requested",
           WorkOK(a)', Tells(r)',
           pc'[a] \in DirectWork => req'[a] = req[a],
           a \in Commands => \/ pc'[a] \in Dispatching /\ req'[a] = req[a]
                             \/ row'[req[a]].status \notin {"approved", "running"}
    PROVE  RequestDiscipline'
<1>1. ActorOK(a) /\ WorkOK(a) /\ req[a] \in Requests
  BY LabelFacts DEF ReviewDiscipline, RequestDiscipline, ActorOK
<1>2. \A q \in Requests : row'[q].turn = row[q].turn
  OBVIOUS
<1>3. ASSUME NEW b \in Actors \ {a} PROVE WorkOK(b)'
  <2>1. ActorOK(b) /\ WorkOK(b) /\ Stays(b)
    BY DEF ReviewDiscipline, RequestDiscipline
  <2>2. ASSUME pc[b] \in Owning PROVE Closed(req[b])
    <3>1. req[b] \in Requests /\ req[b] # req[a]
      BY <2>1, <2>2, LabelFacts, Exclusive DEF ActorOK
    <3> QED
      BY <3>1 DEF Closed
  <2>3. ASSUME b \in Turns, NEW q \in live[b] PROVE Closed(q)
    <3>1. q \in Requests /\ q # req[a]
      BY <2>3, OwnedNotLive DEF TypeOK
    <3> QED
      BY <3>1 DEF Closed
  <2> QED
    BY <1>2, <2>1, <2>2, <2>3, WorkKept
<1>4. RowTellsRun'
  <2>1. ASSUME NEW q \in Requests PROVE Tells(q)'
    <3>1. CASE q = req[a]
      BY <3>1
    <3>2. CASE q # req[a]
      BY <3>2 DEF RequestDiscipline, RowTellsRun, Tells
    <3> QED
      BY <3>1, <3>2
  <2> QED
    BY <2>1 DEF RowTellsRun, Tells
<1>5. OneContext'
  <2>1. a \in Commands => pc[a] \in DirectWork
    BY <1>1, LabelFacts DEF WorkOK, Owning, TurnLabels
  <2>2. \A k \in Commands : pc'[k] \in DirectWork =>
          pc[k] \in DirectWork /\ req'[k] = req[k] /\ on'[k] = on[k]
    BY <2>1, ConstantFacts DEF Stays
  <2>3. \A q \in Requests : row'[q].status = "requested" => row[q].status \in {"requested", "absent"}
    OBVIOUS
  <2> QED
    BY <2>2, <2>3, OneContextKept DEF RequestDiscipline
<1>6. MayServe' => \A q \in Requests : HasCommand(q)'
  <2>1. a \in Turns => row[req[a]].turn = a
    BY <1>1, LabelFacts DEF WorkOK
  <2>2. \A k \in Commands : pc[k] \in Dispatching =>
          (pc'[k] \in Dispatching /\ req'[k] = req[k]) \/ row'[req[k]].status \notin {"approved", "running"}
    BY ConstantFacts DEF Stays
  <2>3. ASSUME NEW q \in Requests, row'[q].status \in {"approved", "running"}
        PROVE  \/ row[q].status \in {"approved", "running"} /\ row'[q].turn = row[q].turn
               \/ row'[q].turn # Nobody
               \/ \E k \in Commands : req'[k] = q /\ pc'[k] \in Dispatching
    BY <1>1, <2>1, <2>3, ConstantFacts DEF Actors
  <2>4. MayServe' => MayServe
    BY DEF MayServe
  <2>5. MayServe => \A q \in Requests : HasCommand(q)
    BY DEF RequestDiscipline
  <2> QED
    BY <2>2, <2>3, <2>4, <2>5, SettledKept
<1> QED
  BY <1>3, <1>4, <1>5, <1>6 DEF RequestDiscipline

\* An actor that is at no request, with live approvals that are unused.
LEMMA RestWork ==
    ASSUME NEW a \in Actors, pc'[a] \notin Busy,
           a \in Turns => \A q \in live'[a] : row'[q].turn = a /\ granted'[q] /\ run'[q] = "none"
    PROVE  WorkOK(a)'
<1>1. pc'[a] \notin TurnLabels /\ pc'[a] \notin NotRunYet /\ pc'[a] \notin DirectWork
  BY LabelFacts
<1> QED
  BY <1>1 DEF WorkOK, Busy, Locked, Dispatching, DirectWork

\* Actors of X move, and requests are at most made or closed.
LEMMA SoftMove ==
    ASSUME TypeOK, ReviewDiscipline, RequestDiscipline, NEW X, UNCHANGED gen, MayServe' => MayServe,
           \A q \in Requests : Closed(q), \A b \in Actors \ X : Stays(b),
           \A a \in Actors \cap X : WorkOK(a)',
           \A k \in Commands \cap X : pc'[k] \in DirectWork =>
             pc[k] \in DirectWork /\ req'[k] = req[k] /\ on'[k] = on[k],
           \A k \in Commands \cap X : pc[k] \in Dispatching => pc'[k] \in Dispatching /\ req'[k] = req[k]
    PROVE  RequestDiscipline'
<1>1. ASSUME NEW b \in Actors \ X PROVE WorkOK(b)'
  <2>1. ActorOK(b) /\ WorkOK(b) /\ Stays(b)
    BY DEF ReviewDiscipline, RequestDiscipline
  <2>2. pc[b] \in Owning => Closed(req[b])
    BY <2>1, LabelFacts DEF ActorOK
  <2>3. b \in Turns => \A q \in live[b] : Closed(q)
    BY DEF TypeOK
  <2>4. /\ \A q \in Requests : granted[q] => granted'[q]
        /\ \A q \in Requests : row[q].status # "absent" => row'[q].turn = row[q].turn
    BY DEF Closed
  <2> QED
    BY <2>1, <2>2, <2>3, <2>4, WorkKept
<1>2. \A a \in Actors : WorkOK(a)'
  BY <1>1
<1>3. \A k \in Commands : pc'[k] \in DirectWork => pc[k] \in DirectWork /\ req'[k] = req[k] /\ on'[k] = on[k]
  BY ConstantFacts DEF Stays
<1>4. \A k \in Commands : pc[k] \in Dispatching => pc'[k] \in Dispatching /\ req'[k] = req[k]
  BY ConstantFacts DEF Stays
<1> QED
  BY <1>2, <1>3, <1>4, SoftStep

\* Nothing is done to a row or a run.
LEMMA UntouchedClosed ==
    ASSUME TypeOK, UNCHANGED <<row, run>>, \A q \in Requests : granted[q] => granted'[q]
    PROVE  \A q \in Requests : Closed(q)
BY DEF Closed

\* Closing one row is closing.
LEMMA InterruptedClosed ==
    ASSUME TypeOK, NEW p, SetStatus(p, "interrupted"), UNCHANGED <<run, granted>>
    PROVE  \A q \in Requests : Closed(q)
BY DEF Closed, SetStatus, TypeOK, Rows

\* The live approvals of a turn that does not touch the tables stay unused.
LEMMA LiveKept ==
    ASSUME TypeOK, RequestDiscipline, NEW t \in Turns, live'[t] \subseteq live[t],
           UNCHANGED <<row, run>>, \A q \in Requests : granted[q] => granted'[q]
    PROVE  \A q \in live'[t] : row'[q].turn = t /\ granted'[q] /\ run'[q] = "none"
<1>1. WorkOK(t) /\ live[t] \subseteq Requests
  BY ConstantFacts DEF RequestDiscipline, TypeOK
<1> QED
  BY <1>1 DEF WorkOK

\* Every command of the interface keeps the discipline of the requests.
LEMMA CommandRequests ==
    ASSUME TypeOK, ReviewDiscipline, RequestDiscipline, NEW k \in Commands, CommandStep(k)
    PROVE  RequestDiscipline'
<1> USE DEF rowVars, workVars, startVars, actorVars, turnVars, Goto
<1>1. k \in Actors /\ k \notin Turns /\ ActorOK(k) /\ WorkOK(k)
  BY ConstantFacts DEF ReviewDiscipline, RequestDiscipline
<1>2. /\ pc \in [Actors -> Labels] /\ req \in [Actors -> Requests \cup {Nobody}] /\ say \in [Actors -> Decisions]
      /\ on \in [Actors -> Gens] /\ row \in [Requests -> Rows] /\ live \in [Turns -> SUBSET Requests]
      /\ granted \in [Requests -> BOOLEAN] /\ Turns \subseteq Actors
  BY ConstantFacts DEF TypeOK
<1>3. ASSUME UNCHANGED <<gen, op, ready>>, \A q \in Requests : Closed(q),
             \A b \in Actors \ {k} : Stays(b), WorkOK(k)',
             pc'[k] \in DirectWork => pc[k] \in DirectWork /\ req'[k] = req[k] /\ on'[k] = on[k],
             pc[k] \notin Dispatching
      PROVE  RequestDiscipline'
  <2>1. MayServe' => MayServe
    BY <1>3 DEF MayServe
  <2>2. /\ \A a \in Actors \cap {k} : WorkOK(a)'
        /\ \A l \in Commands \cap {k} : pc'[l] \in DirectWork =>
             pc[l] \in DirectWork /\ req'[l] = req[l] /\ on'[l] = on[l]
        /\ \A l \in Commands \cap {k} : pc[l] \in Dispatching => pc'[l] \in Dispatching /\ req'[l] = req[l]
    BY <1>3
  <2> QED
    BY <1>3, <2>1, <2>2, SoftMove
<1>4. CASE PreviewCall(k) \/ PreviewRefused(k)
  <2>1. UNCHANGED <<gen, op, ready, row, run, granted, req, say, live>>
    BY <1>4 DEF PreviewCall, PreviewRefused
  <2>2. pc'[k] \in {"preview", "none"} /\ pc[k] \in {"preview", "none"}
    BY <1>1, <1>2, <1>4 DEF PreviewCall, PreviewRefused
  <2>3. \A b \in Actors \ {k} : Stays(b)
    BY <1>1, <1>2, <1>4, <2>1 DEF PreviewCall, PreviewRefused, Stays
  <2>4. WorkOK(k)'
    BY <1>1, <2>2, RestWork, LabelFacts
  <2>5. \A q \in Requests : Closed(q)
    BY <2>1, UntouchedClosed
  <2> QED
    BY <1>3, <2>1, <2>2, <2>3, <2>4, <2>5, LabelFacts DEF Dispatching
<1>5. ASSUME NEW q \in Requests, NEW snapshot \in Captured, Preview(k, q, snapshot) PROVE RequestDiscipline'
  <2>1. UNCHANGED <<gen, op, ready, run, granted, on, req, say, live>> /\ row[q].status = "absent"
        /\ pc' = [pc EXCEPT ![k] = "none"] /\ pc[k] = "preview"
        /\ row' = [row EXCEPT ![q] = Previewed(on[k], Nobody, snapshot)]
    BY <1>5 DEF Preview
  <2>2. \A p \in Requests : Closed(p)
    BY <1>2, <2>1 DEF Closed, Previewed
  <2>3. \A b \in Actors \ {k} : Stays(b)
    BY <1>1, <1>2, <2>1 DEF Stays
  <2>4. WorkOK(k)'
    BY <1>1, <1>2, <2>1, RestWork, LabelFacts
  <2> QED
    BY <1>1, <1>2, <1>3, <2>1, <2>2, <2>3, <2>4, LabelFacts DEF Dispatching
<1>6. ASSUME NEW q \in Requests, NEW d \in Decisions, Answer(k, q, d) PROVE RequestDiscipline'
  <2>1. /\ UNCHANGED <<gen, op, ready, row, run, live>> /\ row[q].status = "requested" /\ pc[k] = "none"
        /\ on' = [on EXCEPT ![k] = gen] /\ req' = [req EXCEPT ![k] = q] /\ say' = [say EXCEPT ![k] = d]
        /\ granted' = IF d = "approve" THEN [granted EXCEPT ![q] = TRUE] ELSE granted
        /\ pc' = [pc EXCEPT ![k] = IF Direct(q) THEN "answer" ELSE "deliver"]
    BY <1>6 DEF Answer
  <2>2. \A p \in Requests : granted[p] => granted'[p]
    BY <1>2, <2>1
  <2>3. \A p \in Requests : Closed(p)
    BY <2>1, <2>2, UntouchedClosed
  <2>4. \A b \in Actors \ {k} : Stays(b)
    BY <1>1, <1>2, <2>1 DEF Stays
  <2>5. WorkOK(k)'
    <3>1. pc'[k] \in {"answer", "deliver"} /\ req'[k] = q /\ say'[k] = d /\ (d = "approve" => granted'[q])
      BY <1>1, <1>2, <2>1
    <3>2. pc'[k] = "answer" => row'[q].turn = Nobody
      BY <1>1, <1>2, <2>1 DEF Direct
    <3> QED
      BY <1>1, <3>1, <3>2, LabelFacts DEF WorkOK, TurnLabels, NotRunYet
  <2>6. \A b \in Actors : WorkOK(b)'
    <3>1. ASSUME NEW b \in Actors \ {k} PROVE WorkOK(b)'
      <4>1. ActorOK(b) /\ WorkOK(b) /\ Stays(b)
        BY <2>4 DEF ReviewDiscipline, RequestDiscipline
      <4>2. pc[b] \in Owning => Closed(req[b])
        BY <2>3, <4>1, LabelFacts DEF ActorOK
      <4>3. b \in Turns => \A p \in live[b] : Closed(p)
        BY <1>2, <2>3
      <4>4. \A p \in Requests : row[p].status # "absent" => row'[p].turn = row[p].turn
        BY <2>1
      <4> QED
        BY <2>2, <4>1, <4>2, <4>3, <4>4, WorkKept
    <3> QED
      BY <2>5, <3>1
  <2>7. RowTellsRun'
    BY <2>3, TellsKept DEF RequestDiscipline, RowTellsRun
  <2>8. OneContext'
    <3>1. \A l \in Commands \ {k} : pc'[l] = pc[l] /\ req'[l] = req[l] /\ on'[l] = on[l]
      BY <2>4, ConstantFacts DEF Stays
    <3>2. on'[k] = gen /\ req'[k] = q
      BY <1>1, <1>2, <2>1
    <3>3. \A l \in Commands : pc[l] \in DirectWork /\ req[l] = q => on[l] = gen
      BY <2>1 DEF RequestDiscipline, OneContext
    <3> QED
      BY <2>1, <3>1, <3>2, <3>3 DEF RequestDiscipline, OneContext
  <2>9. MayServe' => \A p \in Requests : HasCommand(p)'
    <3>1. \A l \in Commands : pc[l] \in Dispatching => pc'[l] \in Dispatching /\ req'[l] = req[l]
      BY <2>1, <2>4, ConstantFacts DEF Stays, Dispatching
    <3>2. MayServe' => MayServe
      BY <2>1 DEF MayServe
    <3> QED
      BY <2>1, <3>1, <3>2, SettledKept DEF RequestDiscipline
  <2> QED
    BY <2>6, <2>7, <2>8, <2>9 DEF RequestDiscipline
<1>7. CASE Recheck(k)
  <2>1. UNCHANGED <<gen, op, ready, row, run, granted, on, say, live>> /\ pc[k] = "answer"
    BY <1>7 DEF Recheck
  <2>2. \/ pc' = [pc EXCEPT ![k] = "recheck"] /\ UNCHANGED req /\ row[req[k]].status = "requested"
        \/ pc' = [pc EXCEPT ![k] = "none"] /\ req' = [req EXCEPT ![k] = Nobody]
    BY <1>1, <1>7 DEF Recheck, Leave, StillPending
  <2>3. \A b \in Actors \ {k} : Stays(b)
    BY <1>1, <1>2, <2>1, <2>2 DEF Stays
  <2>4. \A q \in Requests : Closed(q)
    BY <2>1, UntouchedClosed
  <2>5. WorkOK(k)'
    <3>1. CASE pc'[k] = "none"
      BY <1>1, <3>1, RestWork, LabelFacts
    <3>2. CASE pc'[k] = "recheck" /\ UNCHANGED req /\ row[req[k]].status = "requested"
      <4>1. req[k] \in Requests /\ run[req[k]] = "none"
        BY <1>1, <2>1, <3>2 DEF ActorOK, Busy, RequestDiscipline, RowTellsRun
      <4> QED
        BY <1>1, <2>1, <3>2, <4>1 DEF WorkOK, TurnLabels, DirectWork
    <3> QED
      BY <1>1, <1>2, <2>2, <3>1, <3>2
  <2>6. pc'[k] \in DirectWork => pc[k] \in DirectWork /\ req'[k] = req[k] /\ on'[k] = on[k]
    BY <1>1, <1>2, <2>1, <2>2, LabelFacts DEF DirectWork
  <2> QED
    BY <1>3, <2>1, <2>3, <2>4, <2>5, <2>6 DEF Dispatching
<1>8. CASE Deliver(k)
  <2> DEFINE q == req[k]
             t == row[q].turn
  <2>1. /\ UNCHANGED <<gen, op, ready, run, granted, on, live>> /\ pc[k] = "deliver" /\ q \in Requests
        /\ req' = [req EXCEPT ![k] = Nobody]
    BY <1>1, <1>8 DEF Deliver, ActorOK, Busy
  <2>2. CASE ~Listening(q)
    <3>1. SetStatus(q, "interrupted") /\ pc' = [pc EXCEPT ![k] = "none"] /\ UNCHANGED say
      BY <1>8, <2>2 DEF Deliver
    <3>2. \A p \in Requests : Closed(p)
      BY <2>1, <3>1, InterruptedClosed
    <3>3. \A b \in Actors \ {k} : Stays(b)
      BY <1>1, <1>2, <2>1, <3>1 DEF Stays
    <3>4. WorkOK(k)' /\ pc'[k] = "none"
      BY <1>1, <1>2, <3>1, RestWork, LabelFacts
    <3> QED
      BY <1>3, <2>1, <3>2, <3>3, <3>4, LabelFacts DEF Dispatching
  <2>3. CASE Listening(q)
    <3>1. PICK u \in Turns : pc[u] = "awaiting" /\ req[u] = q
      BY <2>3 DEF Listening
    <3>2. ActorOK(u) /\ WorkOK(u) /\ u \in Actors /\ u # k
      BY <1>1, <1>2 DEF ReviewDiscipline, RequestDiscipline
    <3>3. u = t
      BY <3>1, <3>2 DEF ActorOK
    <3>4. /\ pc' = [pc EXCEPT ![k] = "none", ![u] = "deciding"] /\ UNCHANGED row
          /\ say' = [say EXCEPT ![u] = say[k]]
      BY <1>8, <2>3, <3>3 DEF Deliver
    <3> HIDE DEF q, t
    <3>5. \A p \in Requests : Closed(p)
      BY <2>1, <3>4, UntouchedClosed
    <3>6. \A b \in Actors \ {k, u} : Stays(b)
      BY <1>2, <2>1, <3>4 DEF Stays
    <3>7. pc'[k] = "none" /\ pc'[u] = "deciding" /\ req'[u] = q /\ say'[u] = say[k]
      BY <1>1, <1>2, <2>1, <3>1, <3>2, <3>4
    <3>8. WorkOK(k)'
      BY <1>1, <3>7, RestWork, LabelFacts
    <3>9. WorkOK(u)'
      <4>1. say[k] = "approve" => granted[q]
        BY <1>1, <2>1 DEF WorkOK, q
      <4>2. row[q].turn = u /\ run[q] = "none" /\ \A p \in live[u] : row[p].turn = u /\ granted[p] /\ run[p] = "none" /\ p # q
        BY <3>1, <3>2, LabelFacts DEF WorkOK, NotRunYet, TurnLabels
      <4> QED
        BY <2>1, <3>2, <3>4, <3>7, <4>1, <4>2, ConstantFacts DEF WorkOK, TurnLabels, DirectWork, Dispatching
    <3>10. MayServe' => MayServe
      BY <2>1 DEF MayServe
    <3>11. /\ \A a \in Actors \cap {k, u} : WorkOK(a)'
           /\ \A l \in Commands \cap {k, u} : pc'[l] \notin DirectWork /\ pc[l] \notin Dispatching
      BY <2>1, <3>7, <3>8, <3>9, <3>1, LabelFacts DEF DirectWork, Dispatching
    <3> QED
      BY <2>1, <3>5, <3>6, <3>10, <3>11, SoftMove
  <2> QED
    BY <2>2, <2>3
<1>9. ASSUME NEW snapshot \in Captured, Decide(k, snapshot) PROVE RequestDiscipline'
  <2>0. PICK q \in Requests : q = req[k]
    BY <1>1, <1>9 DEF Decide, ActorOK, Busy, Locked
  <2> DEFINE st == DecidedStatus(q, on[k], say[k], snapshot)
  <2>1. /\ UNCHANGED <<gen, op, ready, run, granted, on, say, live>> /\ pc[k] = "recheck" /\ q \in Requests
        /\ row' = [row EXCEPT ![q].status = st] /\ run[q] = "none" /\ row[q].turn = Nobody
        /\ say[k] = "approve" => granted[q]
    BY <1>1, <1>9, <2>0 DEF Decide, SetStatus, ActorOK, Busy, Locked, WorkOK, NotRunYet, DirectWork
  <2>2. st \in {"approved", "stale", "cancelled", "rejected"} /\ (st = "approved" => say[k] = "approve")
    BY DecidedStatusType DEF DecidedStatus
  <2>3. \/ st = "approved" /\ pc' = [pc EXCEPT ![k] = "claim"] /\ UNCHANGED req
        \/ st # "approved" /\ pc' = [pc EXCEPT ![k] = "none"] /\ req' = [req EXCEPT ![k] = Nobody]
    BY <1>1, <1>9, <2>0 DEF Decide, Leave
  <2> HIDE DEF st
  <2>4. /\ row'[q].status = st /\ row'[q].turn = row[q].turn
        /\ \A p \in Requests \ {q} : row'[p] = row[p]
    BY <1>2, <2>1 DEF Rows
  <2>5. \A b \in Actors \ {k} : Stays(b)
    BY <1>1, <1>2, <2>1, <2>3 DEF Stays
  <2>6. Tells(q)'
    BY <2>1, <2>2, <2>4 DEF Tells
  <2>7. WorkOK(k)'
    <3>1. CASE pc'[k] = "none"
      BY <1>1, <3>1, RestWork, LabelFacts
    <3>2. CASE st = "approved" /\ pc'[k] = "claim" /\ req'[k] = q
      BY <1>1, <2>1, <2>2, <2>4, <3>2 DEF WorkOK, TurnLabels, DirectWork, Dispatching, NotRunYet
    <3> QED
      BY <1>1, <1>2, <2>0, <2>3, <3>1, <3>2
  <2>8. pc'[k] \in DirectWork => req'[k] = req[k]
    BY <1>1, <1>2, <2>3, LabelFacts
  <2>9. (pc'[k] \in Dispatching /\ req'[k] = req[k]) \/ row'[q].status \notin {"approved", "running"}
    BY <1>1, <1>2, <2>2, <2>3, <2>4 DEF Dispatching
  <2>10. pc[k] \in Owning /\ row'[q].status \notin {"absent", "requested"}
    BY <2>1, <2>2, <2>4 DEF Owning, Locked
  <2> QED
    BY <1>1, <2>1, <2>4, <2>5, <2>6, <2>7, <2>8, <2>9, <2>10, <2>0, OwnerStep
<1>10. CASE Reconcile(k)
  <2>0. PICK q \in Requests : q = req[k]
    BY <1>1, <1>10 DEF Reconcile, ActorOK, Busy, Locked, Dispatching
  <2>1. /\ UNCHANGED <<gen, op, ready, run, granted, on, say, live>> /\ pc[k] = "reconcile" /\ q \in Requests
        /\ row' = [row EXCEPT ![q].status = "failed"] /\ row[q].status # "absent"
        /\ pc' = [pc EXCEPT ![k] = "none"] /\ req' = [req EXCEPT ![k] = Nobody]
    BY <1>1, <1>10, <2>0 DEF Reconcile, Leave, SetStatus, ActorOK, Busy, Locked, Dispatching
  <2>2. /\ row'[q].status = "failed" /\ row'[q].turn = row[q].turn
        /\ \A p \in Requests \ {q} : row'[p] = row[p]
    BY <1>2, <2>1 DEF Rows
  <2>3. \A b \in Actors \ {k} : Stays(b)
    BY <1>1, <1>2, <2>1 DEF Stays
  <2>4. Tells(q)'
    BY <2>1, <2>2 DEF Tells, RequestDiscipline, RowTellsRun, Denied
  <2>5. WorkOK(k)' /\ pc'[k] = "none"
    BY <1>1, <1>2, <2>1, RestWork, LabelFacts
  <2>6. pc[k] \in Owning /\ pc'[k] \notin DirectWork
    BY <2>1, <2>5, LabelFacts DEF Owning, Locked, Dispatching
  <2> QED
    BY <1>1, <2>1, <2>2, <2>3, <2>4, <2>5, <2>6, <2>0, OwnerStep
<1> QED
  BY <1>4, <1>5, <1>6, <1>7, <1>8, <1>9, <1>10 DEF CommandStep

\* Every step of a turn keeps the discipline of the requests.
LEMMA TurnRequests ==
    ASSUME TypeOK, ReviewDiscipline, RequestDiscipline, NEW t \in Turns, TurnStep(t)
    PROVE  RequestDiscipline'
<1> USE DEF rowVars, workVars, startVars, actorVars, turnVars, Goto
<1>1. t \in Actors /\ t \notin Commands /\ ActorOK(t) /\ WorkOK(t)
  BY ConstantFacts DEF ReviewDiscipline, RequestDiscipline
<1>2. /\ pc \in [Actors -> Labels] /\ req \in [Actors -> Requests \cup {Nobody}] /\ say \in [Actors -> Decisions]
      /\ on \in [Actors -> Gens] /\ row \in [Requests -> Rows] /\ live \in [Turns -> SUBSET Requests]
      /\ Turns \subseteq Actors
  BY ConstantFacts DEF TypeOK
<1>3. ASSUME UNCHANGED <<gen, op, ready, granted>>, \A q \in Requests : Closed(q),
             \A b \in Actors \ {t} : Stays(b), WorkOK(t)'
      PROVE  RequestDiscipline'
  <2>1. MayServe' => MayServe
    BY <1>3 DEF MayServe
  <2>2. \A a \in Actors \cap {t} : WorkOK(a)'
    BY <1>3
  <2>3. Commands \cap {t} = {}
    BY <1>1
  <2> QED
    BY <1>3, <2>1, <2>2, <2>3, SoftMove
<1>4. CASE StartTurn(t) \/ Reply(t) \/ FinishTurn(t)
  <2>1. UNCHANGED <<gen, op, ready, granted, row, run, req, say>>
    BY <1>4 DEF StartTurn, Reply, FinishTurn
  <2>2. pc'[t] \in {"idle", "none"} /\ live'[t] \subseteq live[t]
    BY <1>1, <1>2, <1>4 DEF StartTurn, Reply, FinishTurn
  <2>3. \A b \in Actors \ {t} : Stays(b)
    BY <1>1, <1>2, <1>4, <2>1 DEF StartTurn, Reply, FinishTurn, Stays
  <2>4. WorkOK(t)'
    BY <1>1, <2>1, <2>2, RestWork, LiveKept, LabelFacts
  <2>5. \A q \in Requests : Closed(q)
    BY <2>1, UntouchedClosed
  <2> QED
    BY <1>3, <2>1, <2>3, <2>4, <2>5
<1>5. ASSUME NEW q \in Requests, NEW snapshot \in Captured, RequestOperation(t, q, snapshot)
      PROVE  RequestDiscipline'
  <2>1. /\ UNCHANGED <<gen, op, ready, run, granted, on, say, live>> /\ row[q].status = "absent"
        /\ pc' = [pc EXCEPT ![t] = "registering"] /\ req' = [req EXCEPT ![t] = q]
        /\ row' = [row EXCEPT ![q] = Previewed(on[t], t, snapshot)]
    BY <1>5 DEF RequestOperation
  <2>2. \A p \in Requests : Closed(p)
    BY <1>2, <2>1 DEF Closed, Previewed
  <2>3. \A b \in Actors \ {t} : Stays(b)
    BY <1>1, <1>2, <2>1 DEF Stays
  <2>4. WorkOK(t)'
    <3>1. pc'[t] = "registering" /\ req'[t] = q /\ row'[q].turn = t
      BY <1>1, <1>2, <2>1 DEF Previewed
    <3>2. run[q] = "none"
      BY <2>1 DEF RequestDiscipline, RowTellsRun
    <3>3. \A p \in live[t] : row[p].turn = t /\ granted[p] /\ run[p] = "none" /\ row[p].status # "absent"
      BY <1>1 DEF WorkOK, ActorOK
    <3>4. \A p \in live[t] : p # q /\ row'[p] = row[p]
      BY <1>2, <2>1, <3>3
    <3> QED
      BY <1>1, <2>1, <3>1, <3>2, <3>3, <3>4, LabelFacts DEF WorkOK, TurnLabels
  <2> QED
    BY <1>3, <2>1, <2>2, <2>3, <2>4
<1>6. CASE RegisterWaiter(t)
  <2>1. /\ UNCHANGED <<gen, op, ready, row, run, granted, on, req, say, live>>
        /\ pc' = [pc EXCEPT ![t] = "awaiting"] /\ pc[t] = "registering"
    BY <1>6 DEF RegisterWaiter
  <2>2. \A q \in Requests : Closed(q)
    BY <2>1, UntouchedClosed
  <2>3. \A b \in Actors \ {t} : Stays(b)
    BY <1>1, <1>2, <2>1 DEF Stays
  <2>4. WorkOK(t)'
    <3>1. pc'[t] = "awaiting"
      BY <1>1, <1>2, <2>1
    <3> QED
      BY <1>1, <2>1, <3>1, LabelFacts DEF WorkOK, TurnLabels, NotRunYet
  <2> QED
    BY <1>3, <2>1, <2>2, <2>3, <2>4
<1>7. ASSUME NEW snapshot \in Captured, DecideForTurn(t, snapshot) PROVE RequestDiscipline'
  <2>0. PICK q \in Requests : q = req[t]
    BY <1>1, <1>7 DEF DecideForTurn, ActorOK, Busy
  <2> DEFINE st == DecidedStatus(q, on[t], say[t], snapshot)
  <2>1. /\ UNCHANGED <<gen, op, ready, run, granted, on, say>> /\ pc[t] = "deciding"
        /\ row' = [row EXCEPT ![q].status = st] /\ run[q] = "none" /\ row[q].turn = t
        /\ say[t] = "approve" => granted[q]
        /\ live' = IF st = "approved" THEN [live EXCEPT ![t] = @ \cup {q}] ELSE live
        /\ pc' = [pc EXCEPT ![t] = "replying"] /\ req' = [req EXCEPT ![t] = Nobody]
    BY <1>1, <1>7, <2>0 DEF DecideForTurn, SetStatus, Leave, WorkOK, Busy, NotRunYet, TurnLabels
  <2>2. st \in {"approved", "stale", "cancelled", "rejected"} /\ (st = "approved" => say[t] = "approve")
    BY DecidedStatusType DEF DecidedStatus
  <2> HIDE DEF st
  <2>3. /\ row'[q].status = st /\ row'[q].turn = row[q].turn
        /\ \A p \in Requests \ {q} : row'[p] = row[p]
    BY <1>2, <2>1 DEF Rows
  <2>4. \A b \in Actors \ {t} : Stays(b)
    BY <1>1, <1>2, <2>1 DEF Stays
  <2>5. Tells(q)'
    BY <2>1, <2>2, <2>3 DEF Tells
  <2>6. WorkOK(t)' /\ pc'[t] = "replying"
    <3>1. \A p \in live[t] : row[p].turn = t /\ granted[p] /\ run[p] = "none" /\ p \in Requests
      BY <1>1, <1>2 DEF WorkOK
    <3>2. \A p \in live'[t] : p \in live[t] \/ (p = q /\ granted[q])
      BY <1>2, <2>1, <2>2
    <3>3. \A p \in live'[t] : row'[p].turn = t /\ granted'[p] /\ run'[p] = "none"
      BY <2>1, <2>3, <3>1, <3>2
    <3>4. pc'[t] = "replying"
      BY <1>1, <1>2, <2>1
    <3> QED
      BY <1>1, <3>3, <3>4, RestWork, LabelFacts
  <2>7. pc[t] \in Owning /\ row'[q].status \notin {"absent", "requested"} /\ pc'[t] \notin DirectWork
    BY <2>1, <2>2, <2>3, <2>6, LabelFacts DEF Owning, TurnLabels
  <2> QED
    BY <1>1, <2>0, <2>1, <2>3, <2>4, <2>5, <2>6, <2>7, OwnerStep
<1>8. ASSUME NEW q \in Requests, NEW matches \in BOOLEAN, RequestDispatch(t, q, matches)
      PROVE  RequestDiscipline'
  <2>1. /\ UNCHANGED <<gen, op, ready, row, run, granted, on, say>> /\ q \in live[t]
        /\ live' = [live EXCEPT ![t] = @ \ {q}] /\ pc[t] = "idle"
        /\ req' = [req EXCEPT ![t] = IF matches THEN q ELSE Nobody]
        /\ pc' = [pc EXCEPT ![t] = IF matches THEN "ctxwait" ELSE "replying"]
    BY <1>8 DEF RequestDispatch
  <2>2. \A p \in Requests : Closed(p)
    BY <2>1, UntouchedClosed
  <2>3. \A b \in Actors \ {t} : Stays(b)
    BY <1>1, <1>2, <2>1 DEF Stays
  <2>4. live'[t] = live[t] \ {q}
    BY <1>2, <2>1
  <2>5. WorkOK(t)'
    <3>1. CASE pc'[t] = "replying"
      BY <1>1, <2>1, <2>4, <3>1, RestWork, LiveKept, LabelFacts
    <3>2. CASE pc'[t] = "ctxwait" /\ req'[t] = q
      <4>1. \A p \in live[t] : row[p].turn = t /\ granted[p] /\ run[p] = "none"
        BY <1>1 DEF WorkOK
      <4> QED
        BY <1>1, <2>1, <2>4, <3>2, <4>1, LabelFacts DEF WorkOK, TurnLabels
    <3> QED
      BY <1>1, <1>2, <2>1, <3>1, <3>2
  <2> QED
    BY <1>3, <2>1, <2>2, <2>3, <2>5
<1>9. CASE RefuseCancelled(t) \/ Authorize(t)
  <2>1. UNCHANGED <<gen, op, ready, row, run, granted, on, say, live>> /\ pc[t] = "ctxwait"
    BY <1>9 DEF RefuseCancelled, Authorize
  <2>2. \/ pc' = [pc EXCEPT ![t] = "claim"] /\ UNCHANGED req
        \/ pc' = [pc EXCEPT ![t] = "replying"] /\ req' = [req EXCEPT ![t] = Nobody]
    BY <1>9 DEF RefuseCancelled, Authorize, Leave
  <2>3. \A q \in Requests : Closed(q)
    BY <2>1, UntouchedClosed
  <2>4. \A b \in Actors \ {t} : Stays(b)
    BY <1>1, <1>2, <2>1, <2>2 DEF Stays
  <2>5. WorkOK(t)'
    <3>1. CASE pc'[t] = "replying"
      BY <1>1, <2>1, <3>1, RestWork, LiveKept, LabelFacts
    <3>2. CASE pc'[t] = "claim" /\ req'[t] = req[t]
      BY <1>1, <2>1, <3>2, LabelFacts DEF WorkOK, TurnLabels, NotRunYet, Busy, Locked, Dispatching
    <3> QED
      BY <1>1, <1>2, <2>2, <3>1, <3>2
  <2> QED
    BY <1>3, <2>1, <2>3, <2>4, <2>5
<1> QED
  BY <1>4, <1>5, <1>6, <1>7, <1>8, <1>9 DEF TurnStep

\* An owner that leaves its request, having closed it if it is a command.
LEMMA OwnerLeaves ==
    ASSUME TypeOK, ReviewDiscipline, RequestDiscipline, NEW a \in Actors, pc[a] \in Owning, Leave(a),
           NEW q \in Requests, q = req[a], UNCHANGED <<granted, gen, op, ready, run, on, say, live>>,
           \A p \in Requests \ {q} : row'[p] = row[p],
           row'[q].status # "absent", row'[q].turn = row[q].turn, Tells(q)',
           row'[q].status = "requested" => row[q].status = "requested",
           a \in Commands => row'[q].status \notin {"approved", "running"}
    PROVE  RequestDiscipline'
<1>1. /\ pc \in [Actors -> Labels] /\ req \in [Actors -> Requests \cup {Nobody}]
      /\ pc' = [pc EXCEPT ![a] = IF a \in Turns THEN "replying" ELSE "none"]
      /\ req' = [req EXCEPT ![a] = Nobody]
  BY DEF TypeOK, Leave, Goto
<1>2. \A b \in Actors \ {a} : Stays(b)
  BY <1>1 DEF Stays
<1>3. pc'[a] \in {"replying", "none"}
  BY <1>1
<1>4. ASSUME a \in Turns, NEW p \in live'[a] PROVE row'[p].turn = a /\ granted'[p] /\ run'[p] = "none"
  <2>1. WorkOK(a) /\ live[a] \subseteq Requests /\ pc[a] \in Busy
    BY <1>4, LabelFacts DEF RequestDiscipline, TypeOK
  <2>2. p \in Requests /\ p # q /\ row[p].turn = a /\ granted[p] /\ run[p] = "none"
    BY <1>4, <2>1 DEF WorkOK
  <2> QED
    BY <2>2
<1>5. WorkOK(a)'
  BY <1>3, <1>4, RestWork, LabelFacts
<1>6. pc'[a] \notin DirectWork
  BY <1>3, LabelFacts
<1> QED
  BY <1>2, <1>5, <1>6, OwnerStep

\* Every step of the dispatcher keeps the discipline of the requests.
LEMMA DispatchRequests ==
    ASSUME TypeOK, ReviewDiscipline, RequestDiscipline, NEW a \in Actors, DispatchStep(a)
    PROVE  RequestDiscipline'
<1> USE DEF rowVars, workVars, startVars, actorVars, turnVars, Goto
<1>1. ActorOK(a) /\ WorkOK(a)
  BY DEF ReviewDiscipline, RequestDiscipline
<1>2. /\ pc \in [Actors -> Labels] /\ req \in [Actors -> Requests \cup {Nobody}] /\ say \in [Actors -> Decisions]
      /\ on \in [Actors -> Gens] /\ row \in [Requests -> Rows] /\ live \in [Turns -> SUBSET Requests]
      /\ run \in [Requests -> RunStatus] /\ Turns \subseteq Actors
  BY ConstantFacts DEF TypeOK
<1>3. pc[a] \in Dispatching /\ pc[a] \in Owning /\ pc[a] \in Busy
  BY LabelFacts DEF DispatchStep, Claim, SnapshotFails, CreateRun, Settle, FinishRun, Dispatching
<1>4. PICK q \in Requests : q = req[a] /\ row[q].status # "absent" /\ row[q] \in Rows
  BY <1>1, <1>2, <1>3 DEF ActorOK
<1>5. Tells(q)
  BY DEF RequestDiscipline, RowTellsRun, Tells
<1>6. UNCHANGED <<granted, gen, op, ready, on, say, live>>
  BY DEF DispatchStep, Claim, SnapshotFails, CreateRun, Settle, FinishRun
<1>7. ASSUME pc[a] \in {"claim", "snapshot"}, FailedBeforeRun(a), Leave(a), UNCHANGED run PROVE RequestDiscipline'
  <2>1. run[q] = "none"
    BY <1>1, <1>4, <1>7 DEF WorkOK, NotRunYet
  <2>2. \/ a \in Commands /\ row'[q].status = "failed" /\ row'[q].turn = row[q].turn
           /\ \A p \in Requests \ {q} : row'[p] = row[p]
        \/ a \notin Commands /\ UNCHANGED row
    BY <1>2, <1>4, <1>7 DEF FailedBeforeRun, SetStatus, Rows
  <2>3. Tells(q)'
    BY <1>5, <1>7, <2>1, <2>2 DEF Tells
  <2> QED
    BY <1>3, <1>4, <1>6, <1>7, <2>2, <2>3, OwnerLeaves
<1>8. CASE Claim(a)
  <2>1. pc[a] = "claim" /\ UNCHANGED run
    BY <1>8 DEF Claim
  <2>2. CASE ~Claimable(req[a])
    BY <1>7, <1>8, <2>1, <2>2 DEF Claim
  <2>3. CASE Claimable(req[a])
    <3>1. /\ row' = [row EXCEPT ![q].status = "running", ![q].claimed = TRUE]
          /\ pc' = [pc EXCEPT ![a] = "snapshot"] /\ UNCHANGED req
      BY <1>4, <1>8, <2>3 DEF Claim
    <3>2. /\ row'[q].status = "running" /\ row'[q].turn = row[q].turn
          /\ \A p \in Requests \ {q} : row'[p] = row[p]
      BY <1>2, <1>4, <3>1 DEF Rows
    <3>3. \A b \in Actors \ {a} : Stays(b)
      BY <1>2, <1>6, <3>1 DEF Stays
    <3>4. run[q] = "none" /\ granted[q] /\ pc'[a] = "snapshot"
      BY <1>1, <1>2, <1>4, <2>1, <3>1 DEF WorkOK, NotRunYet
    <3>5. Tells(q)'
      BY <2>1, <3>2, <3>4 DEF Tells
    <3>6. WorkOK(a)'
      <4>1. /\ a \in Commands => row'[q].turn = Nobody
            /\ a \in Turns => row'[q].turn = a
        BY <1>1, <1>3, <1>4, <3>2, LabelFacts DEF WorkOK
      <4>2. a \in Turns => \A p \in live[a] : row[p].turn = a /\ granted[p] /\ run[p] = "none" /\ p # q /\ p \in Requests
        BY <1>1, <1>2, <1>3, <1>4 DEF WorkOK
      <4> QED
        BY <1>4, <1>6, <2>1, <3>1, <3>2, <3>4, <4>1, <4>2 DEF WorkOK, TurnLabels
    <3>7. pc'[a] \in Dispatching /\ req'[a] = req[a]
      BY <3>1, <3>4 DEF Dispatching
    <3> QED
      BY <1>3, <1>4, <1>6, <2>1, <3>2, <3>3, <3>5, <3>6, <3>7, OwnerStep
  <2> QED
    BY <2>2, <2>3
<1>9. CASE SnapshotFails(a)
  BY <1>7, <1>9 DEF SnapshotFails
<1>10. CASE CreateRun(a)
  <2>1. /\ pc[a] = "snapshot" /\ run' = [run EXCEPT ![q] = "running"] /\ UNCHANGED <<row, req>>
        /\ pc' = [pc EXCEPT ![a] = "executing"]
    BY <1>4, <1>10 DEF CreateRun
  <2>2. run'[q] = "running" /\ pc'[a] = "executing" /\ \A p \in Requests \ {q} : run'[p] = run[p]
    BY <1>2, <1>4, <2>1
  <2>3. \A b \in Actors \ {a} : Stays(b)
    BY <1>2, <1>6, <2>1 DEF Stays
  <2>4. Tells(q)'
    BY <1>1, <1>4, <1>6, <2>1, <2>2 DEF Tells, WorkOK, Denied
  <2>5. WorkOK(a)'
    <3>1. /\ a \in Commands => row[q].turn = Nobody
          /\ a \in Turns => row[q].turn = a
      BY <1>1, <1>3, <1>4, LabelFacts DEF WorkOK
    <3>2. a \in Turns => \A p \in live[a] : row[p].turn = a /\ granted[p] /\ run[p] = "none" /\ p # q /\ p \in Requests
      BY <1>1, <1>2, <1>3, <1>4 DEF WorkOK
    <3> QED
      BY <1>4, <1>6, <2>1, <2>2, <3>1, <3>2 DEF WorkOK, TurnLabels, NotRunYet
  <2>6. pc'[a] \in Dispatching /\ req'[a] = req[a]
    BY <2>1, <2>2 DEF Dispatching
  <2> QED
    BY <1>3, <1>4, <1>6, <2>1, <2>2, <2>3, <2>4, <2>5, <2>6, OwnerStep
<1>11. ASSUME NEW o \in Outcomes, NEW class \in {"state_capable", "project_mutation"}, FinishRun(a, o, class)
       PROVE  RequestDiscipline'
  <2> DEFINE st == RunOutcome(q, o)
  <2>1. st \in Finished
    BY DEF RunOutcome, Outcomes, Finished
  <2>2. /\ pc[a] = "executing" /\ run' = [run EXCEPT ![q] = st] /\ UNCHANGED <<row, req>>
        /\ pc' = [pc EXCEPT ![a] = IF o = "lost" THEN "lost" ELSE "settle"]
    BY <1>4, <1>11 DEF FinishRun
  <2> HIDE DEF st
  <2>3. run'[q] = st /\ pc'[a] \in {"lost", "settle"} /\ \A p \in Requests \ {q} : run'[p] = run[p]
    BY <1>2, <1>4, <2>2
  <2>4. \A b \in Actors \ {a} : Stays(b)
    BY <1>2, <1>6, <2>2 DEF Stays
  <2>5. run[q] # "none" /\ st # "none"
    BY <1>1, <1>4, <2>1, <2>2 DEF WorkOK, Finished
  <2>6. Tells(q)'
    BY <1>5, <1>6, <2>2, <2>3, <2>5 DEF Tells
  <2>7. WorkOK(a)'
    <3>1. /\ a \in Commands => row[q].turn = Nobody
          /\ a \in Turns => row[q].turn = a
      BY <1>1, <1>3, <1>4, LabelFacts DEF WorkOK
    <3>2. a \in Turns => \A p \in live[a] : row[p].turn = a /\ granted[p] /\ run[p] = "none" /\ p # q /\ p \in Requests
      BY <1>1, <1>2, <1>3, <1>4 DEF WorkOK
    <3> QED
      BY <1>4, <1>6, <2>1, <2>2, <2>3, <3>1, <3>2 DEF WorkOK, TurnLabels, NotRunYet
  <2>8. pc'[a] \in Dispatching /\ req'[a] = req[a]
    BY <2>2, <2>3 DEF Dispatching
  <2> QED
    BY <1>3, <1>4, <1>6, <2>2, <2>3, <2>4, <2>6, <2>7, <2>8, OwnerStep
<1>12. CASE Settle(a)
  <2>1. pc[a] \in {"settle", "lost"} /\ row' = [row EXCEPT ![q].status = run[q]] /\ UNCHANGED run
    BY <1>4, <1>12 DEF Settle, SetStatus
  <2>2. run[q] \in Finished
    BY <1>1, <1>4, <2>1 DEF WorkOK
  <2>3. /\ row'[q].status = run[q] /\ row'[q].turn = row[q].turn
        /\ \A p \in Requests \ {q} : row'[p] = row[p]
    BY <1>2, <1>4, <2>1 DEF Rows
  <2>4. row'[q].status \notin {"approved", "running", "absent", "requested"} \cup Denied
    BY <2>2, <2>3 DEF Finished, Denied
  <2>5. Tells(q)'
    BY <1>5, <1>6, <2>1, <2>2, <2>3, <2>4 DEF Tells, Finished
  <2>6. CASE Leave(a)
    BY <1>3, <1>4, <1>6, <2>1, <2>3, <2>4, <2>5, <2>6, OwnerLeaves
  <2>7. CASE ~Leave(a)
    <3>1. pc' = [pc EXCEPT ![a] = "reconcile"] /\ UNCHANGED req /\ a \in Commands
      BY <1>12, <2>7 DEF Settle
    <3>2. \A b \in Actors \ {a} : Stays(b)
      BY <1>2, <1>6, <3>1 DEF Stays
    <3>3. pc'[a] = "reconcile" /\ row[q].turn = Nobody /\ a \notin Turns
      BY <1>1, <1>2, <1>3, <1>4, <3>1, LabelFacts, ConstantFacts DEF WorkOK
    <3>4. WorkOK(a)'
      BY <1>4, <2>3, <3>1, <3>3 DEF WorkOK, TurnLabels, NotRunYet
    <3>5. pc'[a] \in Dispatching /\ req'[a] = req[a]
      BY <3>1, <3>3 DEF Dispatching
    <3> QED
      BY <1>3, <1>4, <1>6, <2>1, <2>3, <2>4, <2>5, <3>2, <3>4, <3>5, OwnerStep
  <2> QED
    BY <2>6, <2>7
<1> QED
  BY <1>8, <1>9, <1>10, <1>11, <1>12 DEF DispatchStep

\* Rows and runs that are closed in bulk are closed.
LEMMA BulkClosed ==
    ASSUME TypeOK, UNCHANGED granted
    PROVE  /\ \A T : InterruptOperations(T) /\ UNCHANGED run => \A q \in Requests : Closed(q)
           /\ RecoverOperations /\ RecoverRuns => \A q \in Requests : Closed(q)
<1>1. ASSUME NEW T, InterruptOperations(T), UNCHANGED run, NEW q \in Requests PROVE Closed(q)
  <2>1. row[q] \in Rows
    BY DEF TypeOK
  <2> QED
    BY <1>1, <2>1 DEF Rows, InterruptOperations, Closed, OpenStatus
<1>2. ASSUME RecoverOperations, RecoverRuns, NEW q \in Requests PROVE Closed(q)
  <2>1. row[q] \in Rows
    BY DEF TypeOK
  <2> QED
    BY <1>2, <2>1 DEF Rows, RecoverOperations, RecoverRuns, Closed
<1> QED
  BY <1>1, <1>2

\* Dropping tasks keeps the discipline of the requests.
LEMMA AbortRequests ==
    ASSUME TypeOK, ReviewDiscipline, RequestDiscipline, NEW T, T \subseteq Turns, AbortTasks(T),
           \A q \in Requests : Closed(q), UNCHANGED <<gen, on, say>>, MayServe' => MayServe
    PROVE  RequestDiscipline'
<1>1. \A b \in Actors \ T : Stays(b)
  BY ConstantFacts DEF Stays, AbortTasks, TypeOK
<1>2. \A a \in Actors \cap T : pc'[a] = "none" /\ (a \in Turns => live'[a] = {})
  BY DEF AbortTasks
<1>3. \A a \in Actors \cap T : WorkOK(a)'
  BY <1>2, RestWork, LabelFacts
<1>4. Commands \cap T = {}
  BY ConstantFacts
<1> QED
  BY <1>1, <1>3, <1>4, SoftMove

\* Waking waiting tasks with a cancellation keeps the discipline of the requests.
LEMMA WakeRequests ==
    ASSUME TypeOK, ReviewDiscipline, RequestDiscipline, NEW T, T \subseteq Turns, CancelWaiters(T),
           UNCHANGED <<gen, row, run, granted, on, req, live>>, MayServe' => MayServe
    PROVE  RequestDiscipline'
<1> DEFINE Woken == {t \in T : pc[t] = "awaiting" /\ req[t] \in waiters}
<1>1. \A b \in Actors \ Woken : Stays(b)
  BY DEF Stays, CancelWaiters, TypeOK
<1>2. ASSUME NEW a \in Actors \cap Woken PROVE WorkOK(a)'
  <2>1. pc'[a] = "deciding" /\ say'[a] = "cancel" /\ pc[a] = "awaiting" /\ a \in Turns
    BY DEF CancelWaiters
  <2>2. WorkOK(a)
    BY DEF RequestDiscipline
  <2> QED
    BY <2>1, <2>2, LabelFacts, ConstantFacts DEF WorkOK, TurnLabels, NotRunYet
<1>3. Commands \cap Woken = {}
  BY ConstantFacts
<1>4. \A q \in Requests : Closed(q)
  BY UntouchedClosed
<1> HIDE DEF Woken
<1> QED
  BY <1>1, <1>2, <1>3, <1>4, SoftMove

\* A step of no actor that leaves requests alone or closes them.
LEMMA IdleRequests ==
    ASSUME TypeOK, ReviewDiscipline, RequestDiscipline, UNCHANGED <<gen, pc, on, req, say, live>>,
           \A q \in Requests : Closed(q), MayServe' => MayServe
    PROVE  RequestDiscipline'
<1> DEFINE X == {}
<1>1. \A b \in Actors \ X : Stays(b)
  BY DEF Stays
<1>2. \A a \in Actors \cap X : WorkOK(a)'
  OBVIOUS
<1>3. Commands \cap X = {}
  OBVIOUS
<1> HIDE DEF X
<1> QED
  BY <1>1, <1>2, <1>3, SoftMove

\* Cancellation, restart, crash and everything else keep the discipline of the requests.
LEMMA RestRequests ==
    ASSUME TypeOK, ReviewDiscipline, RequestDiscipline,
           \/ \E t \in Turns : CancelTurn(t) \/ CancelStops(t) \/ CancelRecords(t)
           \/ \E class \in {"state_capable", "project_mutation"} : OtherRun(class)
           \/ \E q \in Requests : InterruptRun(q)
           \/ RestartStep \/ Crash
    PROVE  RequestDiscipline'
<1> USE DEF rowVars, workVars, startVars, actorVars, turnVars
<1>1. ASSUME NEW t \in Turns, CancelTurn(t) PROVE RequestDiscipline'
  <2>1. MayServe' => MayServe
    BY <1>1 DEF CancelTurn, MayServe, Cancelling, Restarting
  <2> QED
    BY <1>1, <2>1, WakeRequests DEF CancelTurn
<1>2. ASSUME NEW t \in Turns, CancelStops(t) PROVE RequestDiscipline'
  <2>1. MayServe' => MayServe
    BY <1>2 DEF CancelStops, MayServe, Cancelling, Restarting
  <2>2. \A q \in Requests : Closed(q)
    BY <1>2, UntouchedClosed DEF CancelStops
  <2> QED
    BY <1>2, <2>1, <2>2, AbortRequests DEF CancelStops
<1>3. ASSUME NEW t \in Turns, CancelRecords(t) PROVE RequestDiscipline'
  <2>1. MayServe' => MayServe
    BY <1>3 DEF CancelRecords, MayServe, Idle, Restarting
  <2>2. \A q \in Requests : Closed(q)
    BY <1>3, BulkClosed DEF CancelRecords
  <2> QED
    BY <1>3, <2>1, <2>2, IdleRequests DEF CancelRecords
<1>4. ASSUME \/ \E class \in {"state_capable", "project_mutation"} : OtherRun(class)
             \/ \E q \in Requests : InterruptRun(q)
      PROVE  RequestDiscipline'
  <2>1. UNCHANGED <<gen, ready, op, pc, on, req, say, live, row, run, granted>>
    BY <1>4 DEF OtherRun, InterruptRun
  <2>2. \A q \in Requests : Closed(q)
    BY <2>1, UntouchedClosed
  <2> QED
    BY <2>1, <2>2, IdleRequests DEF MayServe
<1>5. CASE Restart
  <2>1. MayServe' => MayServe
    BY <1>5 DEF Restart, MayServe, Restarting
  <2> QED
    BY <1>5, <2>1, WakeRequests DEF Restart
<1>6. CASE RestartDrains
  <2> DEFINE T == {t \in Turns : pc[t] # "none"}
  <2>1. MayServe' => MayServe
    BY <1>6 DEF RestartDrains, MayServe, Restarting
  <2>2. \A q \in Requests : Closed(q)
    BY <1>6, BulkClosed DEF RestartDrains
  <2>3. AbortTasks(T) /\ UNCHANGED <<gen, on, say>> /\ T \subseteq Turns
    BY <1>6 DEF RestartDrains
  <2> HIDE DEF T
  <2> QED
    BY <2>1, <2>2, <2>3, AbortRequests
<1>7. CASE RestartTakes \/ RestartWaits \/ RestartTimesOut \/ StartFails
  <2>1. UNCHANGED <<gen, pc, on, req, say, live, row, run, granted>>
    BY <1>7 DEF RestartTakes, RestartWaits, RestartTimesOut, StartFails
  <2>2. MayServe' => MayServe
    BY <1>7 DEF RestartTakes, RestartWaits, RestartTimesOut, StartFails, MayServe, Restarting, Idle
  <2>3. \A q \in Requests : Closed(q)
    BY <2>1, UntouchedClosed
  <2> QED
    BY <2>1, <2>2, <2>3, IdleRequests
<1>8. CASE StartWorkspace
  <2>1. UNCHANGED <<pc, on, req, say, live, granted>> /\ RecoverOperations /\ RecoverRuns
    BY <1>8 DEF StartWorkspace
  <2>2. \A q \in Requests : Closed(q)
    BY <2>1, BulkClosed
  <2>3. \A q \in Requests : row'[q].status \notin {"requested", "approved", "running"}
    BY <2>1 DEF RecoverOperations, TypeOK, Rows
  <2>4. ASSUME NEW b \in Actors PROVE WorkOK(b)'
    <3>1. ActorOK(b) /\ WorkOK(b) /\ Stays(b)
      BY <2>1 DEF ReviewDiscipline, RequestDiscipline, Stays
    <3>2. pc[b] \in Owning => Closed(req[b])
      BY <2>2, <3>1, LabelFacts DEF ActorOK
    <3>3. b \in Turns => \A q \in live[b] : Closed(q)
      BY <2>2 DEF TypeOK
    <3>4. /\ \A q \in Requests : granted[q] => granted'[q]
          /\ \A q \in Requests : row[q].status # "absent" => row'[q].turn = row[q].turn
      BY <2>2 DEF Closed
    <3> QED
      BY <3>1, <3>2, <3>3, <3>4, WorkKept
  <2>5. RowTellsRun'
    BY <2>2, TellsKept DEF RequestDiscipline, RowTellsRun
  <2>6. OneContext'
    <3>1. \A k \in Commands : pc[k] \in DirectWork => req[k] \in Requests
      BY LabelFacts, ConstantFacts DEF ReviewDiscipline, ActorOK
    <3> QED
      BY <2>1, <2>3, <3>1 DEF RequestDiscipline, OneContext
  <2> QED
    BY <2>3, <2>4, <2>5, <2>6 DEF RequestDiscipline, HasCommand
<1>9. CASE Crash
  <2>1. \A a \in Actors : pc'[a] = "none" /\ (a \in Turns => live'[a] = {})
    BY <1>9 DEF Crash
  <2>2. \A a \in Actors : WorkOK(a)'
    BY <2>1, RestWork, LabelFacts
  <2>3. RowTellsRun' /\ ~MayServe'
    BY <1>9 DEF Crash, RequestDiscipline, RowTellsRun, MayServe, Restarting
  <2>4. OneContext'
    BY <2>1, LabelFacts, ConstantFacts DEF OneContext
  <2> QED
    BY <2>2, <2>3, <2>4 DEF RequestDiscipline
<1> HIDE DEF rowVars, workVars, startVars, actorVars, turnVars
<1> QED
  BY <1>1, <1>2, <1>3, <1>4, <1>5, <1>6, <1>7, <1>8, <1>9 DEF RestartStep

\* What the request table, the runs and the actors say of each other holds in every state:
\* no request that was executed reads as if it had not been, and no direct one is left open
\* by a failure, a lost run, a restart that times out or a crash.
THEOREM RequestsTell == Spec => []RequestsTellRuns
<1>1. Init => RequestDiscipline
  <2> SUFFICES ASSUME Init PROVE RequestDiscipline
    OBVIOUS
  <2>1. \A a \in Actors : pc[a] = "none" /\ (a \in Turns => live[a] = {})
    BY DEF Init
  <2>2. \A a \in Actors : WorkOK(a)
    BY <2>1 DEF WorkOK, TurnLabels, DirectWork, Dispatching, Busy, Locked, NotRunYet
  <2>3. OneContext
    BY <2>1, ConstantFacts DEF OneContext, DirectWork, Dispatching
  <2>4. RowTellsRun /\ \A q \in Requests : HasCommand(q)
    BY DEF Init, RowTellsRun, HasCommand, NoRow
  <2> QED
    BY <2>2, <2>3, <2>4 DEF RequestDiscipline
<1>2. Inv /\ RequestDiscipline /\ [Next]_vars => RequestDiscipline'
  <2> SUFFICES ASSUME Inv, RequestDiscipline, [Next]_vars PROVE RequestDiscipline'
    OBVIOUS
  <2>1. TypeOK /\ ReviewDiscipline
    BY DEF Inv
  <2>2. CASE Next
    BY <2>1, <2>2, CommandRequests, TurnRequests, DispatchRequests, RestRequests, Zenon DEF Next
  <2>3. CASE UNCHANGED vars
    <3>1. UNCHANGED <<gen, ready, op, pc, on, req, say, live, row, run, granted>>
      BY <2>3 DEF vars, rowVars, workVars, startVars, actorVars, turnVars
    <3>2. \A q \in Requests : Closed(q)
      BY <2>1, <3>1, UntouchedClosed
    <3> QED
      BY <2>1, <3>1, <3>2, IdleRequests DEF MayServe
  <2> QED
    BY <2>2, <2>3
<1>3. RequestDiscipline => RequestsTellRuns
  BY DEF RequestDiscipline, RequestsTellRuns, DirectRequestsSettle, HasCommand, MayServe
<1> QED
  BY <1>1, <1>2, <1>3, Invariance, PTL DEF Spec

=============================================================================
