------------------------- MODULE PluginLifecycleProofs -------------------------
(***************************************************************************)
(* Proofs about PluginLifecycle: that its steps implement PackageCustody,  *)
(* and that no host runs of a plugin that is disabled or shown as crashed, *)
(* for any number of transitions, packages, edits and failures.            *)
(***************************************************************************)
EXTENDS PluginLifecycle, TLAPS

-----------------------------------------------------------------------------
(* The inductive invariant *)

ActivatingSteps == {"preflight", "cache", "plan", "allocate", "grants", "candidate", "swap", "commit"}
MovingSteps == {"move", "record"}
PurgeSteps == {"mark", "rename", "delete", "purged"}

\* The gate moves a package out of the project, for the user or for a recovery
Moving == gate.step \in MovingSteps \/ (gate.step = "complete" /\ gate.op # "restore")
TakenOut == gate.step = "record" \/ (gate.step = "complete" /\ gate.op # "restore")

\* Which call of the gate is at which step.
GateInv ==
    /\ gate.step \in {"disable", "disabling", "recheck", "request"} => gate.op = "uninstall"
    /\ gate.step \in {"teardown", "tearing"} => gate.op \in Boundaries
    /\ gate.step = "restore" => gate.op = "restore"
    /\ gate.op = "restore" => gate.step \in {"restore", "complete"}
    /\ gate.op = "uninstall" => gate.digest # None

\* What a tombstone, a marker and a quarantined directory say of each other.
RecordsInv ==
    \A i \in Ids :
        /\ tomb[i].digest # None => trans[i].kind = "uninstall" /\ trans[i].status = "completed"
        /\ trans[i].kind = "uninstall" => trans[i].old # None
        /\ i \in marker => /\ tomb[i].digest # None /\ ~tomb[i].restored
                           /\ tomb[i].retention = "purge_pending" \/ tomb[i].deleted
        /\ purging[i] # "none" => i \in marker /\ trash[i] = None

\* What the call that holds the gate knows about its package.
MoveInv ==
    /\ Moving => /\ gate.i \in Ids /\ gate.digest # None
                 /\ tomb[gate.i].digest = None /\ trans[gate.i].kind = "uninstall"
    /\ TakenOut => trash[gate.i] # None

RestoreInv ==
    gate.op = "restore" =>
        /\ gate.i \in Ids /\ gate.digest # None /\ tomb[gate.i].digest = gate.digest
        /\ Kept(gate.i) /\ tomb[gate.i].retention \in {"recoverable", "expired"}
        /\ gate.step = "complete" => trash[gate.i] = None

PurgeInv ==
    gate.step \in PurgeSteps =>
        /\ gate.i \in Ids /\ Kept(gate.i) /\ tomb[gate.i].retention = "purge_pending"
        /\ gate.step = "rename" => trash[gate.i] # None /\ gate.i \in marker
        /\ gate.step \in {"delete", "purged"} => trash[gate.i] = None /\ gate.i \in marker
        /\ gate.step = "purged" => purging[gate.i] = "none"

\* A call that activates a package, and one that waits to, know which.
PlanInv ==
    /\ lane.op \in Activations /\ lane.step \in ActivatingSteps => lane.digest # None
    /\ pend # NoPending => pend.digest # None

CustodyInv == GateInv /\ RecordsInv /\ MoveInv /\ RestoreInv /\ PurgeInv

\* A call activates a package
Activating == lane.op \in Activations /\ lane.step \in ActivatingSteps
Allocated == lane.op \in Activations /\ lane.step \in {"grants", "candidate", "swap", "commit"}
Stopped == active = NoHost /\ pend = NoPending /\ ~Activating

\* Nothing runs, waits or starts of a disabled plugin, nor of one that is being restored.
DisabledInv ==
    /\ row.desired = "disabled" => Stopped
    /\ gate.op = "restore" /\ row.desired = "uninstalled" => Stopped

\* Hosts are told apart by their generation: a crashed host that is not recorded yet is
\* older than the one being activated, and the row names it only while no other runs.
HostsInv ==
    /\ active # NoHost => active.host # 0
    /\ dead # NoHost => dead.host # 0
    /\ active.host <= row.gen /\ dead.host <= row.gen
    /\ Allocated => dead.host < row.gen
    /\ dead # NoHost /\ dead.host = row.host => active = NoHost

\* A retry, which records a crash when it fails, begins and waits without a host.
CrashedInv ==
    /\ row.observed = "crashed" => active = NoHost
    /\ lane.op = "retry" /\ lane.step # "commit" => active = NoHost
    /\ pend.op = "retry" =>
          active = NoHost \/ (lane.op \in Activations /\ lane.step = "commit")

StoppedInv == DisabledInv /\ HostsInv /\ CrashedInv

-----------------------------------------------------------------------------
(* What every write of the store keeps *)

StoreType ==
    /\ row \in Rows /\ trans \in [Ids -> Transitions] /\ tomb \in [Ids -> Tombstones]
    /\ crashes \in 0 .. CrashLimit

\* No transition is forgotten, changes its kind or is reopened.
Grows ==
    \A j \in Ids :
        /\ trans[j].kind # "none" =>
              /\ trans'[j].kind = trans[j].kind /\ trans'[j].old = trans[j].old
              /\ trans[j].status = "completed" => trans'[j].status = "completed"
        /\ trans'[j].kind = "uninstall" => trans'[j].old # None

StoreStep == StoreType' /\ Grows /\ tomb' = tomb

KnownOld == \A j \in Ids : trans[j].kind = "uninstall" => trans[j].old # None

\* The phases, by name.
LEMMA PhaseNames ==
    Phases = {"requested", "preflight", "backup_prepared", "grants_ready", "candidate_activated",
              "routing_closed", "calls_drained", "handles_revoked", "contributions_disposed",
              "host_disposed", "package_moved", "pointer_swapped", "durable_committed", "completed"}
BY DEF Phases, Rank

\* A write that is refused or does not touch the store.
LEMMA KeepStore ==
    ASSUME StoreType, KnownOld, UNCHANGED storeVars
    PROVE  StoreStep
BY DEF StoreType, KnownOld, StoreStep, Grows, storeVars

\* upsert_discovered_workspace_plugin records the package and touches no transition.
LEMMA DiscoverKeeps ==
    ASSUME StoreType, KnownOld, NEW d \in Optional, Discover(d)
    PROVE  StoreStep
<1>1. row' \in Rows /\ UNCHANGED <<trans, tomb, crashes>>
  BY DEF Discover, StoreType, Rows, Observed, Optional
<1> QED
  BY <1>1 DEF StoreType, KnownOld, StoreStep, Grows

\* request_workspace_plugin_transition makes the next transition and changes no other.
LEMMA RequestKeeps ==
    ASSUME StoreType, KnownOld, NEW i, NEW kind \in Kinds, NEW old \in Optional, NEW cand \in Optional,
           Request(i, kind, old, cand), kind = "uninstall" => old # None
    PROVE  StoreStep /\ i \in Ids /\ trans'[i].kind = kind /\ trans'[i].old = old
                     /\ trans[i].kind = "none"
<1>1. i \in Ids /\ trans[i].kind = "none"
  BY DEF Request, Requested, Ids
<1>2. /\ trans' = [trans EXCEPT ![i] = [NoTransition EXCEPT !.kind = kind, !.status = "pending",
                                                         !.old = old, !.cand = cand]]
      /\ row' = [row EXCEPT !.desired = DesiredFor(kind, @), !.tr = i, !.pending = Or(cand, @)]
      /\ tomb' = tomb /\ crashes' = crashes
  BY DEF Request
<1>3. row' \in Rows
  <2>1. DesiredFor(kind, row.desired) \in Desired
    BY DEF StoreType, Rows, DesiredFor, Desired, Kinds, Boundaries
  <2>2. Or(cand, row.pending) \in Optional
    BY DEF StoreType, Rows, Or
  <2>3. i \in Refs
    BY <1>1, StoreAssumption DEF Ids, Refs
  <2>4. row' = [row EXCEPT !.desired = DesiredFor(kind, row.desired), !.tr = i,
                           !.pending = Or(cand, row.pending)]
    BY <1>2 DEF StoreType, Rows, DesiredFor, Or
  <2> QED
    BY <2>1, <2>2, <2>3, <2>4 DEF StoreType, Rows
<1>4. /\ trans'[i] = [kind |-> kind, phase |-> "requested", status |-> "pending", old |-> old,
                      cand |-> cand, reconciled |-> FALSE]
      /\ \A j \in Ids : j # i => trans'[j] = trans[j]
  BY <1>1, <1>2 DEF StoreType, NoTransition
<1>5. trans'[i] \in Transitions
  BY <1>4, PhaseNames DEF Transitions, Open
<1>6. trans' \in [Ids -> Transitions]
  BY <1>1, <1>2, <1>4, <1>5 DEF StoreType
<1> QED
  BY <1>1, <1>2, <1>3, <1>4, <1>6 DEF StoreType, StoreStep, Grows, KnownOld

\* A write that moves one open transition on, and the row with it.
LEMMA MoveOn ==
    ASSUME StoreType, KnownOld, NEW i, IsOpen(i), row' \in Rows, i \in Refs,
           NEW to \in Phases, NEW status \in Open \cup Terminal, NEW rec \in BOOLEAN,
           \/ trans' = [trans EXCEPT ![i].phase = to, ![i].status = status]
           \/ trans' = [trans EXCEPT ![i].phase = to, ![i].status = status, ![i].reconciled = rec],
           UNCHANGED <<tomb, crashes>>
    PROVE  StoreStep
<1>1. i \in Ids /\ trans[i] \in Transitions
  BY DEF IsOpen, StoreType, Ids, Refs
<1>2. /\ trans'[i].kind = trans[i].kind /\ trans'[i].old = trans[i].old
      /\ trans'[i] \in Transitions
  BY <1>1 DEF StoreType, Transitions
<1>3. \A j \in Ids : j # i => trans'[j] = trans[j]
  BY <1>1 DEF StoreType
<1>4. trans' \in [Ids -> Transitions]
  BY <1>1, <1>2, <1>3 DEF StoreType
<1>5. trans[i].status # "completed"
  BY DEF IsOpen, Open
<1> QED
  BY <1>1, <1>2, <1>3, <1>4, <1>5 DEF StoreType, StoreStep, Grows, KnownOld

\* advance_workspace_plugin_transition
LEMMA AdvanceKeeps ==
    ASSUME StoreType, KnownOld, NEW i \in Refs, NEW from, NEW to \in Phases,
           NEW status \in Open \cup Terminal, NEW observed \in Observed, NEW host \in Nat,
           Advance(i, from, to, status, observed, host)
    PROVE  StoreStep
<1>1. row' \in Rows
  BY DEF Advance, StoreType, Rows
<1> QED
  BY <1>1, MoveOn DEF Advance, Advanceable

\* The terminal advance of an enable
LEMMA AcceptKeeps ==
    ASSUME StoreType, KnownOld, NEW i \in Refs, NEW d \in Optional, NEW host \in Nat,
           Accept(i, d, host)
    PROVE  StoreStep
<1>1. row' \in Rows
  BY DEF Accept, StoreType, Rows, Observed, Optional
<1> QED
  BY <1>1, MoveOn, PhaseNames DEF Accept, Advanceable, Terminal

\* fail_enable_transition
LEMMA FailKeeps ==
    ASSUME StoreType, KnownOld, NEW i \in Refs, NEW observed \in Observed, NEW rec \in BOOLEAN,
           Fail(i, observed, rec)
    PROVE  StoreStep
<1>1. CASE IsOpen(i)
  <2>1. row' \in Rows
    BY <1>1 DEF Fail, StoreType, Rows
  <2>2. /\ trans' = [trans EXCEPT ![i].phase = "completed", ![i].status = "failed", ![i].reconciled = rec]
        /\ UNCHANGED <<tomb, crashes>>
    BY <1>1 DEF Fail
  <2>3. "completed" \in Phases /\ "failed" \in Open \cup Terminal
    BY PhaseNames DEF Terminal
  <2> QED
    BY <1>1, <2>1, <2>2, <2>3, MoveOn
<1>2. CASE ~IsOpen(i)
  BY <1>2, KeepStore DEF Fail
<1> QED
  BY <1>1, <1>2

\* allocate_workspace_plugin_generation
LEMMA AllocateKeeps ==
    ASSUME StoreType, KnownOld, NEW i, Allocate(i)
    PROVE  StoreStep
<1>1. row' \in Rows /\ UNCHANGED <<trans, tomb, crashes>>
  BY DEF Allocate, StoreType, Rows
<1> QED
  BY <1>1 DEF StoreType, KnownOld, StoreStep, Grows

\* complete_workspace_plugin_replacement
LEMMA ReplacementKeeps ==
    ASSUME StoreType, KnownOld, NEW i \in Refs, NEW host \in Nat, CompleteReplacement(i, host)
    PROVE  StoreStep
<1>1. i \in Ids /\ trans[i] \in Transitions
  BY DEF CompleteReplacement, Replaceable, IsOpen, StoreType, Ids, Refs
<1>2. row' \in Rows
  BY <1>1 DEF CompleteReplacement, StoreType, Rows, Observed, Optional, Transitions
<1> QED
  BY <1>2, MoveOn, PhaseNames DEF CompleteReplacement, Replaceable, Terminal

\* record_workspace_plugin_recovery_required
LEMMA RecoveryKeeps ==
    ASSUME StoreType, KnownOld, NEW i, RequireRecovery(i)
    PROVE  StoreStep
BY DEF StoreType, KnownOld, StoreStep, Grows, RequireRecovery, Rows, Observed

\* record_workspace_plugin_crash
LEMMA CrashKeeps ==
    ASSUME StoreType, KnownOld, NEW d, NEW host, RecordCrash(d, host)
    PROVE  StoreStep
BY DEF StoreType, KnownOld, StoreStep, Grows, RecordCrash, Rows, Observed, CrashLimit

-----------------------------------------------------------------------------
(* Steps that leave the packages and what is recorded of them alone *)

\* A call of the gate that is not about to move, restore or purge a package
Quiet(g) ==
    \/ /\ g.op \notin {"restore", "uninstall"}
       /\ g.step \in {"none", "files", "purges", "discover", "judging"}
    \/ g.op \in Boundaries /\ g.step \in {"teardown", "tearing"}
    \/ /\ g.op = "uninstall" /\ g.digest # None
       /\ g.step \in {"disable", "disabling", "recheck", "request"}

Packages == <<trash, purging, marker>>
Framed == Grows /\ tomb' = tomb /\ UNCHANGED Packages /\ (gate' = gate \/ Quiet(gate'))

\* The types of what is in memory and on disk.
MemoryType ==
    /\ active \in [digest : Optional, host : Nat]
    /\ pend \in [op : Activations \cup {"none"}, i : Refs, digest : Optional,
                 answer : {"open", "granted", "denied"}]
    /\ asked \in Optional
    /\ lane \in [op : Activations \cup Teardowns \cup {"none"}, step : LaneSteps, i : Refs,
                 digest : Optional]
    /\ block \in [state : {"no", "wanted", "requested"}, i : Refs]
    /\ dead \in [digest : Optional, host : Nat]
    /\ PlanInv

Typed == TypeOK /\ PlanInv

GateType ==
    gate \in [op : {"none", "uninstall", "restore", "purge", "reconcile"} \cup Boundaries,
              step : GateSteps, i : Refs, digest : Optional]

FilesType ==
    /\ source \in Optional /\ cache \subseteq Digests
    /\ trash \in [Ids -> Optional]
    /\ purging \in [Ids -> {"none", "whole", "partial"}]
    /\ marker \subseteq Ids

\* The type invariant in parts, before and after a step.
LEMMA TypeParts ==
    /\ Typed <=> /\ StoreType /\ MemoryType /\ GateType /\ FilesType
                 /\ edits \in 0 .. MaxEdits /\ faults \in 0 .. MaxFaults
    /\ Typed' <=> /\ StoreType' /\ MemoryType' /\ GateType' /\ FilesType'
                  /\ edits' \in 0 .. MaxEdits /\ faults' \in 0 .. MaxFaults
BY DEF Typed, TypeOK, StoreType, MemoryType, GateType, FilesType

\* The marks of a call, a host, a request and a block are of their types.
LEMMA Marks ==
    /\ None \in Optional /\ 0 \in Refs /\ Ids \subseteq Refs
    /\ NoHost \in [digest : Optional, host : Nat]
    /\ NoPending \in [op : Activations \cup {"none"}, i : Refs, digest : Optional,
                      answer : {"open", "granted", "denied"}]
    /\ Idle \in [op : Activations \cup Teardowns \cup {"none"}, step : LaneSteps, i : Refs,
                 digest : Optional]
    /\ NoBlock \in [state : {"no", "wanted", "requested"}, i : Refs]
    /\ WantBlock \in [state : {"no", "wanted", "requested"}, i : Refs]
    /\ Idle \in [op : {"none", "uninstall", "restore", "purge", "reconcile"} \cup Boundaries,
                 step : GateSteps, i : Refs, digest : Optional]
    /\ Quiet(Idle)
BY StoreAssumption DEF Optional, Refs, Ids, NoHost, Host, NoPending, Idle, Call, NoBlock, WantBlock,
   LaneSteps, GateSteps, Quiet

\* An uninstall knows the package it was asked for.
LEMMA OldIsKnown ==
    ASSUME CustodyInv
    PROVE  KnownOld
BY DEF CustodyInv, RecordsInv, KnownOld

\* A call of the gate that steps on quietly keeps what the others know.
LEMMA CustodyFrame ==
    ASSUME CustodyInv, Framed
    PROVE  CustodyInv'
<1>1. RecordsInv'
  <2> SUFFICES ASSUME NEW i \in Ids
               PROVE  /\ tomb'[i].digest # None => trans'[i].kind = "uninstall" /\ trans'[i].status = "completed"
                      /\ trans'[i].kind = "uninstall" => trans'[i].old # None
                      /\ i \in marker' => /\ tomb'[i].digest # None /\ ~tomb'[i].restored
                                          /\ tomb'[i].retention = "purge_pending" \/ tomb'[i].deleted
                      /\ purging'[i] # "none" => i \in marker' /\ trash'[i] = None
    BY DEF RecordsInv
  <2> QED
    BY DEF CustodyInv, RecordsInv, Framed, Packages, Grows
<1>2. CASE gate' = gate
  <2>1. GateInv' /\ RestoreInv' /\ PurgeInv'
    BY <1>2 DEF CustodyInv, GateInv, RestoreInv, PurgeInv, Framed, Packages, Kept
  <2>2. MoveInv'
    BY <1>2 DEF CustodyInv, MoveInv, Moving, TakenOut, Framed, Packages, Grows
  <2> QED
    BY <1>1, <2>1, <2>2 DEF CustodyInv
<1>3. CASE Quiet(gate')
  BY <1>1, <1>3 DEF CustodyInv, GateInv, RestoreInv, PurgeInv, MoveInv, Moving, TakenOut, Quiet,
     MovingSteps, PurgeSteps, Boundaries
<1> QED
  BY <1>2, <1>3 DEF Framed

\* The enable is journaled as running: no package is touched.
LEMMA PreflightStep ==
    ASSUME Typed, CustodyInv, Preflight
    PROVE  Typed' /\ Framed
<1> USE TypeParts, OldIsKnown, Marks
<1>1. StoreStep
  <2>1. lane.i \in Refs /\ StoreType /\ KnownOld
    BY DEF MemoryType
  <2>2. Advance(lane.i, "requested", "preflight", "running", Preparing(lane.op), 0)
    BY DEF Preflight, Step
  <2>3. "preflight" \in Phases /\ "running" \in Open \cup Terminal /\ Preparing(lane.op) \in Observed
    BY PhaseNames DEF Open, Terminal, Observed, Preparing
  <2> QED
    BY <2>1, <2>2, <2>3, AdvanceKeeps
<1>2. MemoryType'
  BY DEF Preflight, Step, Goto, KeepRest, MemoryType, LaneSteps, PlanInv, ActivatingSteps
<1>3. GateType' /\ FilesType' /\ UNCHANGED Packages /\ (gate' = gate \/ Quiet(gate'))
  BY DEF Preflight, Step, KeepRest, KeepFiles, fileVars, Packages, GateType, FilesType
<1>4. edits' \in 0 .. MaxEdits /\ faults' \in 0 .. MaxFaults
  BY LifecycleAssumption DEF Preflight, Step, NoFault, KeepRest
<1> QED
  BY <1>1, <1>2, <1>3, <1>4 DEF StoreStep, Framed

\* The exact package is cached before the transition says so.
LEMMA PrepareStep ==
    ASSUME Typed, CustodyInv, Prepare
    PROVE  Typed' /\ Framed
<1> USE TypeParts, OldIsKnown, Marks
<1>1. StoreStep
  <2>1. lane.i \in Refs /\ StoreType /\ KnownOld
    BY DEF MemoryType
  <2>2. Advance(lane.i, "preflight", "backup_prepared", "running", Preparing(lane.op), 0)
    BY DEF Prepare, Step
  <2>3. "backup_prepared" \in Phases /\ "running" \in Open \cup Terminal /\ Preparing(lane.op) \in Observed
    BY PhaseNames DEF Open, Terminal, Observed, Preparing
  <2> QED
    BY <2>1, <2>2, <2>3, AdvanceKeeps
<1>2. MemoryType'
  BY DEF Prepare, Step, Goto, KeepRest, MemoryType, LaneSteps, PlanInv, ActivatingSteps
<1>3. GateType' /\ FilesType' /\ UNCHANGED Packages /\ (gate' = gate \/ Quiet(gate'))
  BY DEF Prepare, Step, KeepRest, KeepFiles, fileVars, Packages, GateType, FilesType, Optional, MemoryType, PlanInv, ActivatingSteps
<1>4. edits' \in 0 .. MaxEdits /\ faults' \in 0 .. MaxFaults
  BY LifecycleAssumption DEF Prepare, Step, NoFault, KeepRest
<1> QED
  BY <1>1, <1>2, <1>3, <1>4 DEF StoreStep, Framed

\* The activation waits for the user, with its transition open.
LEMMA AskStep ==
    ASSUME Typed, CustodyInv, Ask
    PROVE  Typed' /\ Framed
<1> USE TypeParts, OldIsKnown, Marks
<1>1. StoreStep
  BY KeepStore DEF Ask
<1>2. MemoryType'
  BY DEF Ask, KeepRest, MemoryType, PlanInv, ActivatingSteps, Idle, Call, Pending, Activations, Recoveries, Replacements
<1>3. GateType' /\ FilesType' /\ UNCHANGED Packages /\ (gate' = gate \/ Quiet(gate'))
  BY DEF Ask, KeepRest, fileVars, Packages, GateType, FilesType
<1>4. edits' \in 0 .. MaxEdits /\ faults' \in 0 .. MaxFaults
  BY LifecycleAssumption DEF Ask, NoFault, KeepRest
<1> QED
  BY <1>1, <1>2, <1>3, <1>4 DEF StoreStep, Framed

\* Nothing needs to be asked.
LEMMA PlannedStep ==
    ASSUME Typed, CustodyInv, Planned
    PROVE  Typed' /\ Framed
<1> USE TypeParts, OldIsKnown, Marks
<1>1. StoreStep
  BY KeepStore DEF Planned, Step
<1>2. MemoryType'
  BY DEF Planned, Step, Goto, KeepRest, MemoryType, LaneSteps, PlanInv, ActivatingSteps
<1>3. GateType' /\ FilesType' /\ UNCHANGED Packages /\ (gate' = gate \/ Quiet(gate'))
  BY DEF Planned, Step, KeepRest, KeepFiles, fileVars, Packages, GateType, FilesType
<1>4. edits' \in 0 .. MaxEdits /\ faults' \in 0 .. MaxFaults
  BY LifecycleAssumption DEF Planned, Step, NoFault, KeepRest
<1> QED
  BY <1>1, <1>2, <1>3, <1>4 DEF StoreStep, Framed

\* The generation is allocated once.
LEMMA AllocateGenerationStep ==
    ASSUME Typed, CustodyInv, AllocateGeneration
    PROVE  Typed' /\ Framed
<1> USE TypeParts, OldIsKnown, Marks
<1>1. StoreStep
  BY AllocateKeeps DEF AllocateGeneration, Step
<1>2. MemoryType'
  BY DEF AllocateGeneration, Step, Goto, KeepRest, MemoryType, LaneSteps, PlanInv, ActivatingSteps
<1>3. GateType' /\ FilesType' /\ UNCHANGED Packages /\ (gate' = gate \/ Quiet(gate'))
  BY DEF AllocateGeneration, Step, KeepRest, KeepFiles, fileVars, Packages, GateType, FilesType
<1>4. edits' \in 0 .. MaxEdits /\ faults' \in 0 .. MaxFaults
  BY LifecycleAssumption DEF AllocateGeneration, Step, NoFault, KeepRest
<1> QED
  BY <1>1, <1>2, <1>3, <1>4 DEF StoreStep, Framed

\* The grants are journaled.
LEMMA GrantsReadyStep ==
    ASSUME Typed, CustodyInv, GrantsReady
    PROVE  Typed' /\ Framed
<1> USE TypeParts, OldIsKnown, Marks
<1>1. StoreStep
  BY AdvanceKeeps, PhaseNames DEF GrantsReady, Step, MemoryType, Observed, Open
<1>2. MemoryType'
  BY DEF GrantsReady, Step, Goto, KeepRest, MemoryType, LaneSteps, PlanInv, ActivatingSteps
<1>3. GateType' /\ FilesType' /\ UNCHANGED Packages /\ (gate' = gate \/ Quiet(gate'))
  BY DEF GrantsReady, Step, KeepRest, KeepFiles, fileVars, Packages, GateType, FilesType
<1>4. edits' \in 0 .. MaxEdits /\ faults' \in 0 .. MaxFaults
  BY LifecycleAssumption DEF GrantsReady, Step, NoFault, KeepRest
<1> QED
  BY <1>1, <1>2, <1>3, <1>4 DEF StoreStep, Framed

\* The host runs before it is routable.
LEMMA CandidateActivatedStep ==
    ASSUME Typed, CustodyInv, CandidateActivated
    PROVE  Typed' /\ Framed
<1> USE TypeParts, OldIsKnown, Marks
<1>1. StoreStep
  <2>1. lane.i \in Refs /\ StoreType /\ KnownOld /\ row.gen \in Nat
    BY DEF MemoryType, StoreType, Rows
  <2>2. Advance(lane.i, "grants_ready", "candidate_activated", "running", "activating", row.gen)
    BY DEF CandidateActivated, Step
  <2>3. "candidate_activated" \in Phases /\ "running" \in Open \cup Terminal /\ "activating" \in Observed
    BY PhaseNames DEF Open, Terminal, Observed
  <2> QED
    BY <2>1, <2>2, <2>3, AdvanceKeeps
<1>2. MemoryType'
  BY DEF CandidateActivated, Step, Goto, KeepRest, MemoryType, LaneSteps, PlanInv, ActivatingSteps
<1>3. GateType' /\ FilesType' /\ UNCHANGED Packages /\ (gate' = gate \/ Quiet(gate'))
  BY DEF CandidateActivated, Step, KeepRest, KeepFiles, fileVars, Packages, GateType, FilesType
<1>4. edits' \in 0 .. MaxEdits /\ faults' \in 0 .. MaxFaults
  BY LifecycleAssumption DEF CandidateActivated, Step, NoFault, KeepRest
<1> QED
  BY <1>1, <1>2, <1>3, <1>4 DEF StoreStep, Framed

\* The route is published, then journaled.
LEMMA SwapPointerStep ==
    ASSUME Typed, CustodyInv, SwapPointer
    PROVE  Typed' /\ Framed
<1> USE TypeParts, OldIsKnown, Marks
<1>1. StoreStep
  <2>1. lane.i \in Refs /\ StoreType /\ KnownOld /\ row.gen \in Nat
    BY DEF MemoryType, StoreType, Rows
  <2>2. Advance(lane.i, "candidate_activated", "pointer_swapped", "running", "activating", row.gen)
    BY DEF SwapPointer, Step
  <2>3. "pointer_swapped" \in Phases /\ "running" \in Open \cup Terminal /\ "activating" \in Observed
    BY PhaseNames DEF Open, Terminal, Observed
  <2> QED
    BY <2>1, <2>2, <2>3, AdvanceKeeps
<1>2. MemoryType'
  BY DEF SwapPointer, Step, Goto, KeepRest, MemoryType, LaneSteps, PlanInv, ActivatingSteps, Host, StoreType, Rows
<1>3. GateType' /\ FilesType' /\ UNCHANGED Packages /\ (gate' = gate \/ Quiet(gate'))
  BY DEF SwapPointer, Step, KeepRest, KeepFiles, fileVars, Packages, GateType, FilesType
<1>4. edits' \in 0 .. MaxEdits /\ faults' \in 0 .. MaxFaults
  BY LifecycleAssumption DEF SwapPointer, Step, NoFault, KeepRest
<1> QED
  BY <1>1, <1>2, <1>3, <1>4 DEF StoreStep, Framed

\* The terminal write moves the accepted pointer, or is ignored as stale.
LEMMA CommitStep ==
    ASSUME Typed, CustodyInv, Commit
    PROVE  Typed' /\ Framed
<1> USE TypeParts, OldIsKnown, Marks
<1>1. StoreStep
  <2>0. row.gen \in Nat /\ lane.i \in Refs /\ lane.digest \in Optional
    BY DEF StoreType, Rows, MemoryType
  <2>1. CASE lane.op \in Replacements
    BY <2>0, <2>1, ReplacementKeeps, KeepStore DEF Commit
  <2>2. CASE lane.op \notin Replacements
    BY <2>0, <2>2, AcceptKeeps DEF Commit
  <2> QED
    BY <2>1, <2>2
<1>2. MemoryType'
  BY DEF Commit, MemoryType, PlanInv, ActivatingSteps, LaneSteps, Idle, Call, KeepRest
<1>3. GateType' /\ FilesType' /\ UNCHANGED Packages /\ (gate' = gate \/ Quiet(gate'))
  BY DEF Commit, GateType, FilesType, fileVars, Packages, KeepFiles, KeepRest
<1>4. edits' \in 0 .. MaxEdits /\ faults' \in 0 .. MaxFaults
  BY LifecycleAssumption DEF Commit, NoFault, KeepRest
<1> QED
  BY <1>1, <1>2, <1>3, <1>4 DEF StoreStep, Framed

\* A step that fails is recorded on the transition, or leaves it open.
LEMMA ActivationFailsStep ==
    ASSUME Typed, CustodyInv, ActivationFails
    PROVE  Typed' /\ Framed
<1> USE TypeParts, OldIsKnown, Marks
<1>1. StoreStep
  <2>0. lane.i \in Refs
    BY DEF MemoryType
  <2>1. CASE UNCHANGED storeVars
    BY <2>1, KeepStore
  <2>2. CASE /\ Recorded(lane.op, lane.step) # "open"
             /\ Fail(lane.i, Recorded(lane.op, lane.step), FALSE)
    <3>1. Recorded(lane.op, lane.step) \in Observed
      BY <2>2 DEF Recorded, FailureState, Observed
    <3> QED
      BY <2>0, <2>2, <3>1, FailKeeps
  <2> QED
    BY <2>1, <2>2 DEF ActivationFails
<1>2. MemoryType'
  BY DEF ActivationFails, MemoryType, PlanInv, ActivatingSteps, LaneSteps, Idle, Call, KeepRest
<1>3. GateType' /\ FilesType' /\ UNCHANGED Packages /\ (gate' = gate \/ Quiet(gate'))
  BY DEF ActivationFails, GateType, FilesType, fileVars, Packages, KeepFiles, KeepRest
<1>4. edits' \in 0 .. MaxEdits /\ faults' \in 0 .. MaxFaults
  BY LifecycleAssumption DEF ActivationFails, Fault, NoFault, KeepRest
<1> QED
  BY <1>1, <1>2, <1>3, <1>4 DEF StoreStep, Framed

\* Nothing was published: the old host, if any, keeps its route.
LEMMA PublishFailsStep ==
    ASSUME Typed, CustodyInv, PublishFails
    PROVE  Typed' /\ Framed
<1> USE TypeParts, OldIsKnown, Marks
<1>1. StoreStep
  <2>0. lane.i \in Refs
    BY DEF MemoryType
  <2>1. /\ FailureState(lane.op) \in Observed /\ "update_pending" \in Observed
    BY DEF FailureState, Observed
  <2>2. CASE UNCHANGED storeVars
    BY <2>2, KeepStore
  <2> QED
    BY <2>0, <2>1, <2>2, FailKeeps DEF PublishFails
<1>2. MemoryType'
  BY DEF PublishFails, MemoryType, PlanInv, ActivatingSteps, LaneSteps, Idle, Call, KeepRest
<1>3. GateType' /\ FilesType' /\ UNCHANGED Packages /\ (gate' = gate \/ Quiet(gate'))
  BY DEF PublishFails, GateType, FilesType, fileVars, Packages, KeepFiles, KeepRest
<1>4. edits' \in 0 .. MaxEdits /\ faults' \in 0 .. MaxFaults
  BY LifecycleAssumption DEF PublishFails, Fault, NoFault, KeepRest
<1> QED
  BY <1>1, <1>2, <1>3, <1>4 DEF StoreStep, Framed

\* The package is recorded before the mutex is taken.
LEMMA EnableDiscoversStep ==
    ASSUME Typed, CustodyInv, EnableDiscovers
    PROVE  Typed' /\ Framed
<1> USE TypeParts, OldIsKnown, Marks
<1>1. StoreStep
  BY DiscoverKeeps DEF EnableDiscovers, FilesType
<1>2. MemoryType'
  BY DEF EnableDiscovers, MemoryType, PlanInv, ActivatingSteps, LaneSteps, Idle, Call, KeepOthers, FilesType
<1>3. GateType' /\ FilesType' /\ UNCHANGED Packages /\ (gate' = gate \/ Quiet(gate'))
  BY DEF EnableDiscovers, GateType, FilesType, fileVars, Packages, KeepFiles, KeepOthers
<1>4. edits' \in 0 .. MaxEdits /\ faults' \in 0 .. MaxFaults
  BY LifecycleAssumption DEF EnableDiscovers, Fault, NoFault, KeepOthers
<1> QED
  BY <1>1, <1>2, <1>3, <1>4 DEF StoreStep, Framed

\* The transition is requested after the running host was stopped.
LEMMA EnableStep ==
    ASSUME Typed, CustodyInv, Enable
    PROVE  Typed' /\ Framed
<1> USE TypeParts, OldIsKnown, Marks
<1>1. StoreStep
  <2>1. CASE Request(NextId, "enable", None, asked)
    BY <2>1, RequestKeeps DEF MemoryType, Kinds
  <2> QED
    BY <2>1, KeepStore DEF Enable, Begin, Refused
<1>2. MemoryType'
  BY DEF Enable, MemoryType, PlanInv, ActivatingSteps, LaneSteps, Idle, Call, KeepOthers, Refused, Begin, Request, Requestable, Activations, Ids, Refs
<1>3. GateType' /\ FilesType' /\ UNCHANGED Packages /\ (gate' = gate \/ Quiet(gate'))
  BY DEF Enable, GateType, FilesType, fileVars, Packages, KeepFiles, KeepOthers
<1>4. edits' \in 0 .. MaxEdits /\ faults' \in 0 .. MaxFaults
  BY LifecycleAssumption DEF Enable, Fault, NoFault, KeepOthers
<1> QED
  BY <1>1, <1>2, <1>3, <1>4 DEF StoreStep, Framed

\* A crashed plugin is started again from its accepted package.
LEMMA RetryStep ==
    ASSUME Typed, CustodyInv, Retry
    PROVE  Typed' /\ Framed
<1> USE TypeParts, OldIsKnown, Marks
<1>1. StoreStep
  BY RequestKeeps DEF Retry, Begin, FilesType, Kinds
<1>2. MemoryType'
  BY DEF Retry, MemoryType, PlanInv, ActivatingSteps, LaneSteps, Idle, Call, KeepOthers, FilesType, Begin, Request, Requestable, Activations, Ids, Refs
<1>3. GateType' /\ FilesType' /\ UNCHANGED Packages /\ (gate' = gate \/ Quiet(gate'))
  BY DEF Retry, GateType, FilesType, fileVars, Packages, KeepFiles, KeepOthers
<1>4. edits' \in 0 .. MaxEdits /\ faults' \in 0 .. MaxFaults
  BY LifecycleAssumption DEF Retry, Fault, NoFault, KeepOthers
<1> QED
  BY <1>1, <1>2, <1>3, <1>4 DEF StoreStep, Framed

\* An update is requested for the pointers the user reviewed.
LEMMA UpdateStep ==
    ASSUME Typed, CustodyInv, Update
    PROVE  Typed' /\ Framed
<1> USE TypeParts, OldIsKnown, Marks
<1>1. StoreStep
  <2>1. row.accepted \in Optional /\ source \in Optional
    BY DEF StoreType, Rows, FilesType
  <2> QED
    BY <2>1, RequestKeeps DEF Update, Begin, Kinds, Replacements
<1>2. MemoryType'
  BY DEF Update, MemoryType, PlanInv, ActivatingSteps, LaneSteps, Idle, Call, KeepOthers, FilesType, Begin, Request, Requestable, Activations, Replacements, Ids, Refs
<1>3. GateType' /\ FilesType' /\ UNCHANGED Packages /\ (gate' = gate \/ Quiet(gate'))
  BY DEF Update, GateType, FilesType, fileVars, Packages, KeepFiles, KeepOthers
<1>4. edits' \in 0 .. MaxEdits /\ faults' \in 0 .. MaxFaults
  BY LifecycleAssumption DEF Update, Fault, NoFault, KeepOthers
<1> QED
  BY <1>1, <1>2, <1>3, <1>4 DEF StoreStep, Framed

\* A rollback is requested to the package the row names.
LEMMA RollbackStep ==
    ASSUME Typed, CustodyInv, Rollback
    PROVE  Typed' /\ Framed
<1> USE TypeParts, OldIsKnown, Marks
<1>1. StoreStep
  <2>1. row.accepted \in Optional /\ row.rollback \in Optional
    BY DEF StoreType, Rows
  <2> QED
    BY <2>1, RequestKeeps DEF Rollback, Begin, Kinds, Replacements
<1>2. MemoryType'
  BY DEF Rollback, MemoryType, PlanInv, ActivatingSteps, LaneSteps, Idle, Call, KeepOthers, StoreType, Rows, Begin, Request, Requestable, Activations, Replacements, Ids, Refs
<1>3. GateType' /\ FilesType' /\ UNCHANGED Packages /\ (gate' = gate \/ Quiet(gate'))
  BY DEF Rollback, GateType, FilesType, fileVars, Packages, KeepFiles, KeepOthers
<1>4. edits' \in 0 .. MaxEdits /\ faults' \in 0 .. MaxFaults
  BY LifecycleAssumption DEF Rollback, Fault, NoFault, KeepOthers
<1> QED
  BY <1>1, <1>2, <1>3, <1>4 DEF StoreStep, Framed

\* A decision of the user changes only the pending activation.
LEMMA AnswerStep ==
    ASSUME Typed, CustodyInv, NEW decision \in {"granted", "denied"}, Answer(decision)
    PROVE  Typed' /\ Framed
<1> USE TypeParts, OldIsKnown, Marks
<1>1. StoreStep
  BY KeepStore DEF Answer
<1>2. MemoryType'
  BY DEF Answer, MemoryType, PlanInv, ActivatingSteps, LaneSteps, Idle, Call, KeepOthers, NoPending
<1>3. GateType' /\ FilesType' /\ UNCHANGED Packages /\ (gate' = gate \/ Quiet(gate'))
  BY DEF Answer, GateType, FilesType, fileVars, Packages, KeepFiles, KeepOthers
<1>4. edits' \in 0 .. MaxEdits /\ faults' \in 0 .. MaxFaults
  BY LifecycleAssumption DEF Answer, Fault, NoFault, KeepOthers
<1> QED
  BY <1>1, <1>2, <1>3, <1>4 DEF StoreStep, Framed

\* An answered activation fails, goes on or is dropped.
LEMMA ActivatePendingStep ==
    ASSUME Typed, CustodyInv, ActivatePending
    PROVE  Typed' /\ Framed
<1> USE TypeParts, OldIsKnown, Marks
<1>1. StoreStep
  <2>0. pend.i \in Refs
    BY DEF MemoryType
  <2>1. /\ FailureState(pend.op) \in Observed
        /\ "rollback_pending" \in Observed /\ "update_pending" \in Observed
    BY DEF FailureState, Observed
  <2>2. CASE UNCHANGED storeVars
    BY <2>2, KeepStore
  <2>3. CASE Fail(pend.i, FailureState(pend.op), FALSE)
    BY <2>0, <2>1, <2>3, FailKeeps
  <2>4. CASE Fail(pend.i, "rollback_pending", FALSE)
    BY <2>0, <2>1, <2>4, FailKeeps
  <2>5. CASE Fail(pend.i, "update_pending", FALSE)
    BY <2>0, <2>1, <2>5, FailKeeps
  <2> QED
    BY <2>2, <2>3, <2>4, <2>5 DEF ActivatePending
<1>2. MemoryType'
  <2>1. pend' = NoPending /\ pend # NoPending
    BY DEF ActivatePending, NoPending
  <2>2. lane' = Idle \/ lane' = Call(pend.op, "allocate", pend.i, pend.digest)
    BY DEF ActivatePending
  <2> QED
    BY <2>1, <2>2 DEF ActivatePending, MemoryType, PlanInv, ActivatingSteps, LaneSteps, Idle, Call, KeepOthers
<1>3. GateType' /\ FilesType' /\ UNCHANGED Packages /\ (gate' = gate \/ Quiet(gate'))
  BY DEF ActivatePending, GateType, FilesType, fileVars, Packages, KeepFiles, KeepOthers
<1>4. edits' \in 0 .. MaxEdits /\ faults' \in 0 .. MaxFaults
  BY LifecycleAssumption DEF ActivatePending, Fault, NoFault, KeepOthers
<1> QED
  BY <1>1, <1>2, <1>3, <1>4 DEF StoreStep, Framed

\* A teardown closes the open transition first.
LEMMA DisableStep ==
    ASSUME Typed, CustodyInv, Disable
    PROVE  Typed' /\ Framed
<1> USE TypeParts, OldIsKnown, Marks
<1>1. StoreStep
  BY KeepStore DEF Disable
<1>2. MemoryType'
  BY DEF Disable, MemoryType, PlanInv, ActivatingSteps, LaneSteps, Idle, Call, TeardownFrame, BeginTeardown, Teardowns, Activations, Recoveries, Replacements, StoreType, Rows
<1>3. GateType' /\ FilesType' /\ UNCHANGED Packages /\ (gate' = gate \/ Quiet(gate'))
  BY DEF Disable, GateType, FilesType, fileVars, Packages, KeepFiles, TeardownFrame
<1>4. edits' \in 0 .. MaxEdits /\ faults' \in 0 .. MaxFaults
  BY LifecycleAssumption DEF Disable, Fault, NoFault, TeardownFrame
<1> QED
  BY <1>1, <1>2, <1>3, <1>4 DEF StoreStep, Framed

\* The open transition is failed before the teardown is requested.
LEMMA CloseOpenStep ==
    ASSUME Typed, CustodyInv, CloseOpen
    PROVE  Typed' /\ Framed
<1> USE TypeParts, OldIsKnown, Marks
<1>1. StoreStep
  BY FailKeeps DEF CloseOpen, MemoryType, Observed
<1>2. MemoryType'
  BY DEF CloseOpen, MemoryType, PlanInv, ActivatingSteps, LaneSteps, Idle, Call, TeardownFrame, Goto
<1>3. GateType' /\ FilesType' /\ UNCHANGED Packages /\ (gate' = gate \/ Quiet(gate'))
  BY DEF CloseOpen, GateType, FilesType, fileVars, Packages, KeepFiles, TeardownFrame
<1>4. edits' \in 0 .. MaxEdits /\ faults' \in 0 .. MaxFaults
  BY LifecycleAssumption DEF CloseOpen, Fault, NoFault, TeardownFrame
<1> QED
  BY <1>1, <1>2, <1>3, <1>4 DEF StoreStep, Framed

\* The registry forgets the plugin once the teardown is durable.
LEMMA RequestTeardownStep ==
    ASSUME Typed, CustodyInv, RequestTeardown
    PROVE  Typed' /\ Framed
<1> USE TypeParts, OldIsKnown, Marks
<1>1. StoreStep
  <2>1. lane.op \in Kinds /\ lane.op # "uninstall" /\ row.accepted \in Optional
    BY DEF RequestTeardown, Teardowns, Kinds, Boundaries, StoreType, Rows
  <2> QED
    BY <2>1, RequestKeeps DEF RequestTeardown
<1>2. MemoryType'
  BY DEF RequestTeardown, MemoryType, PlanInv, ActivatingSteps, LaneSteps, Idle, Call, TeardownFrame, Request, Ids, Refs
<1>3. GateType' /\ FilesType' /\ UNCHANGED Packages /\ (gate' = gate \/ Quiet(gate'))
  BY DEF RequestTeardown, GateType, FilesType, fileVars, Packages, KeepFiles, TeardownFrame
<1>4. edits' \in 0 .. MaxEdits /\ faults' \in 0 .. MaxFaults
  BY LifecycleAssumption DEF RequestTeardown, Fault, NoFault, TeardownFrame
<1> QED
  BY <1>1, <1>2, <1>3, <1>4 DEF StoreStep, Framed

\* A phase of the teardown is journaled.
LEMMA TeardownPhaseStep ==
    ASSUME Typed, CustodyInv, TeardownPhase
    PROVE  Typed' /\ Framed
<1> USE TypeParts, OldIsKnown, Marks
<1>1. StoreStep
  <2>1. lane.i \in Refs /\ lane.step \in Phases
    BY PhaseNames DEF TeardownPhase, Teardown, MemoryType
  <2>2. Teardown[lane.step].shows \in Observed
    BY DEF TeardownPhase, Teardown, Observed
  <2> QED
    BY <2>1, <2>2, AdvanceKeeps DEF TeardownPhase, Open
<1>2. MemoryType'
  BY DEF TeardownPhase, MemoryType, PlanInv, ActivatingSteps, LaneSteps, Idle, Call, TeardownFrame, Goto, Teardown, Teardowns, Activations, Recoveries, Replacements, Boundaries
<1>3. GateType' /\ FilesType' /\ UNCHANGED Packages /\ (gate' = gate \/ Quiet(gate'))
  BY DEF TeardownPhase, GateType, FilesType, fileVars, Packages, KeepFiles, TeardownFrame
<1>4. edits' \in 0 .. MaxEdits /\ faults' \in 0 .. MaxFaults
  BY LifecycleAssumption DEF TeardownPhase, Fault, NoFault, TeardownFrame
<1> QED
  BY <1>1, <1>2, <1>3, <1>4 DEF StoreStep, Framed

\* The teardown ends, and the call of the gate that waited goes on.
LEMMA TeardownCompletesStep ==
    ASSUME Typed, CustodyInv, TeardownCompletes
    PROVE  Typed' /\ Framed
<1> USE TypeParts, OldIsKnown, Marks
<1>1. StoreStep
  <2>1. lane.i \in Refs /\ StoreType /\ KnownOld
    BY DEF MemoryType
  <2>2. Advance(lane.i, "host_disposed", "completed", "completed", IF lane.op = "disable" THEN "disabled" ELSE "stopped", 0)
    BY DEF TeardownCompletes
  <2>3. "completed" \in Phases /\ "completed" \in Open \cup Terminal /\ (IF lane.op = "disable" THEN "disabled" ELSE "stopped") \in Observed
    BY PhaseNames DEF Open, Terminal, Observed
  <2> QED
    BY <2>1, <2>2, <2>3, AdvanceKeeps
<1>2. MemoryType'
  BY DEF TeardownCompletes, MemoryType, PlanInv, ActivatingSteps, LaneSteps, Idle, Call, TeardownFrame, TeardownEnds
<1>3. GateType' /\ FilesType' /\ UNCHANGED Packages /\ (gate' = gate \/ Quiet(gate'))
  BY DEF TeardownCompletes, GateType, FilesType, fileVars, Packages, KeepFiles, TeardownFrame, TeardownEnds, GateResumes, GateSteps, Call, Quiet, CustodyInv, GateInv
<1>4. edits' \in 0 .. MaxEdits /\ faults' \in 0 .. MaxFaults
  BY LifecycleAssumption DEF TeardownCompletes, Fault, NoFault, TeardownFrame
<1> QED
  BY <1>1, <1>2, <1>3, <1>4 DEF StoreStep, Framed

\* A phase that is not journaled leaves the teardown uncertain.
LEMMA TeardownUncertainStep ==
    ASSUME Typed, CustodyInv, TeardownUncertain
    PROVE  Typed' /\ Framed
<1> USE TypeParts, OldIsKnown, Marks
<1>1. StoreStep
  BY KeepStore DEF TeardownUncertain
<1>2. MemoryType'
  BY DEF TeardownUncertain, MemoryType, PlanInv, ActivatingSteps, LaneSteps, Idle, Call, TeardownFrame, Goto
<1>3. GateType' /\ FilesType' /\ UNCHANGED Packages /\ (gate' = gate \/ Quiet(gate'))
  BY DEF TeardownUncertain, GateType, FilesType, fileVars, Packages, KeepFiles, TeardownFrame
<1>4. edits' \in 0 .. MaxEdits /\ faults' \in 0 .. MaxFaults
  BY LifecycleAssumption DEF TeardownUncertain, Fault, NoFault, TeardownFrame
<1> QED
  BY <1>1, <1>2, <1>3, <1>4 DEF StoreStep, Framed

\* The uncertainty is recorded, or is not.
LEMMA RecordUncertainStep ==
    ASSUME Typed, CustodyInv, RecordUncertain
    PROVE  Typed' /\ Framed
<1> USE TypeParts, OldIsKnown, Marks
<1>1. StoreStep
  <2>0. lane.i \in Refs
    BY DEF MemoryType
  <2> QED
    BY <2>0, AdvanceKeeps, KeepStore, PhaseNames DEF RecordUncertain, Observed, Open
<1>2. MemoryType'
  BY DEF RecordUncertain, MemoryType, PlanInv, ActivatingSteps, LaneSteps, Idle, Call, TeardownFrame, TeardownEnds
<1>3. GateType' /\ FilesType' /\ UNCHANGED Packages /\ (gate' = gate \/ Quiet(gate'))
  BY DEF RecordUncertain, GateType, FilesType, fileVars, Packages, KeepFiles, TeardownFrame, TeardownEnds, GateResumes, GateSteps, Call, Quiet, CustodyInv, GateInv
<1>4. edits' \in 0 .. MaxEdits /\ faults' \in 0 .. MaxFaults
  BY LifecycleAssumption DEF RecordUncertain, Fault, NoFault, TeardownFrame
<1> QED
  BY <1>1, <1>2, <1>3, <1>4 DEF StoreStep, Framed

\* A refused teardown leaves the plugin to a disable and forces a boundary on.
LEMMA TeardownRefusedStep ==
    ASSUME Typed, CustodyInv, TeardownRefused
    PROVE  Typed' /\ Framed
<1> USE TypeParts, OldIsKnown, Marks
<1>1. StoreStep
  BY KeepStore DEF TeardownRefused
<1>2. MemoryType'
  BY DEF TeardownRefused, MemoryType, PlanInv, ActivatingSteps, LaneSteps, Idle, Call, TeardownFrame
<1>3. GateType' /\ FilesType' /\ UNCHANGED Packages /\ (gate' = gate \/ Quiet(gate'))
  BY DEF TeardownRefused, GateType, FilesType, fileVars, Packages, KeepFiles, TeardownFrame, TeardownEnds, GateResumes, GateSteps, Call, Quiet, CustodyInv, GateInv
<1>4. edits' \in 0 .. MaxEdits /\ faults' \in 0 .. MaxFaults
  BY LifecycleAssumption DEF TeardownRefused, Fault, NoFault, TeardownFrame
<1> QED
  BY <1>1, <1>2, <1>3, <1>4 DEF StoreStep, Framed

\* The user confirms a package.
LEMMA UninstallStep ==
    ASSUME Typed, CustodyInv, Uninstall
    PROVE  Typed' /\ Framed
<1> USE TypeParts, OldIsKnown, Marks
<1>1. StoreStep
  BY KeepStore DEF Uninstall
<1>2. MemoryType'
  BY DEF Uninstall, MemoryType, PlanInv, ActivatingSteps, LaneSteps, Idle, Call, GateFrame
<1>3. GateType' /\ FilesType' /\ UNCHANGED Packages /\ (gate' = gate \/ Quiet(gate'))
  BY DEF Uninstall, GateType, FilesType, fileVars, Packages, KeepFiles, GateFrame, Call, GateSteps, Quiet, StoreType, Rows
<1>4. edits' \in 0 .. MaxEdits /\ faults' \in 0 .. MaxFaults
  BY LifecycleAssumption DEF Uninstall, Fault, NoFault, GateFrame
<1> QED
  BY <1>1, <1>2, <1>3, <1>4 DEF StoreStep, Framed

\* The uninstall disables first.
LEMMA UninstallDisablesStep ==
    ASSUME Typed, CustodyInv, UninstallDisables
    PROVE  Typed' /\ Framed
<1> USE TypeParts, OldIsKnown, Marks
<1>1. StoreStep
  BY KeepStore DEF UninstallDisables
<1>2. MemoryType'
  BY DEF UninstallDisables, MemoryType, PlanInv, ActivatingSteps, LaneSteps, Idle, Call, GateFrame, BeginTeardown, Teardowns, Activations, Recoveries, Replacements, StoreType, Rows
<1>3. GateType' /\ FilesType' /\ UNCHANGED Packages /\ (gate' = gate \/ Quiet(gate'))
  BY DEF UninstallDisables, GateType, FilesType, fileVars, Packages, KeepFiles, GateFrame, GateGoto, GateSteps, Quiet, CustodyInv, GateInv
<1>4. edits' \in 0 .. MaxEdits /\ faults' \in 0 .. MaxFaults
  BY LifecycleAssumption DEF UninstallDisables, Fault, NoFault, GateFrame
<1> QED
  BY <1>1, <1>2, <1>3, <1>4 DEF StoreStep, Framed

\* The row and the package are read again.
LEMMA UninstallRechecksStep ==
    ASSUME Typed, CustodyInv, UninstallRechecks
    PROVE  Typed' /\ Framed
<1> USE TypeParts, OldIsKnown, Marks
<1>1. StoreStep
  BY KeepStore DEF UninstallRechecks
<1>2. MemoryType'
  BY DEF UninstallRechecks, MemoryType, PlanInv, ActivatingSteps, LaneSteps, Idle, Call, GateFrame
<1>3. GateType' /\ FilesType' /\ UNCHANGED Packages /\ (gate' = gate \/ Quiet(gate'))
  BY DEF UninstallRechecks, GateType, FilesType, fileVars, Packages, KeepFiles, GateFrame, GateSteps, Quiet, CustodyInv, GateInv
<1>4. edits' \in 0 .. MaxEdits /\ faults' \in 0 .. MaxFaults
  BY LifecycleAssumption DEF UninstallRechecks, Fault, NoFault, GateFrame
<1> QED
  BY <1>1, <1>2, <1>3, <1>4 DEF StoreStep, Framed

\* A failed uninstall leaves what was moved to a recovery.
LEMMA UninstallFailsStep ==
    ASSUME Typed, CustodyInv, UninstallFails
    PROVE  Typed' /\ Framed
<1> USE TypeParts, OldIsKnown, Marks
<1>1. StoreStep
  <2>1. CASE RequireRecovery(gate.i)
    BY <2>1, RecoveryKeeps
  <2> QED
    BY <2>1, KeepStore DEF UninstallFails
<1>2. MemoryType'
  BY DEF UninstallFails, MemoryType, PlanInv, ActivatingSteps, LaneSteps, Idle, Call, GateFrame
<1>3. GateType' /\ FilesType' /\ UNCHANGED Packages /\ (gate' = gate \/ Quiet(gate'))
  BY DEF UninstallFails, GateType, FilesType, fileVars, Packages, KeepFiles, GateFrame, Call, GateSteps, Quiet
<1>4. edits' \in 0 .. MaxEdits /\ faults' \in 0 .. MaxFaults
  BY LifecycleAssumption DEF UninstallFails, Fault, NoFault, GateFrame
<1> QED
  BY <1>1, <1>2, <1>3, <1>4 DEF StoreStep, Framed

\* A failed purge leaves its marker to a later one.
LEMMA PurgeFailsStep ==
    ASSUME Typed, CustodyInv, PurgeFails
    PROVE  Typed' /\ Framed
<1> USE TypeParts, OldIsKnown, Marks
<1>1. StoreStep
  BY KeepStore DEF PurgeFails
<1>2. MemoryType'
  BY DEF PurgeFails, MemoryType, PlanInv, ActivatingSteps, LaneSteps, Idle, Call, GateFrame
<1>3. GateType' /\ FilesType' /\ UNCHANGED Packages /\ (gate' = gate \/ Quiet(gate'))
  BY DEF PurgeFails, GateType, FilesType, fileVars, Packages, KeepFiles, GateFrame, GateDone, Call, GateSteps, Quiet
<1>4. edits' \in 0 .. MaxEdits /\ faults' \in 0 .. MaxFaults
  BY LifecycleAssumption DEF PurgeFails, Fault, NoFault, GateFrame
<1> QED
  BY <1>1, <1>2, <1>3, <1>4 DEF StoreStep, Framed

\* A boundary tears the plugin down or goes on to reconcile.
LEMMA BoundaryStep ==
    ASSUME Typed, CustodyInv, NEW kind \in Boundaries, Boundary(kind)
    PROVE  Typed' /\ Framed
<1> USE TypeParts, OldIsKnown, Marks
<1>1. StoreStep
  BY KeepStore DEF Boundary
<1>2. MemoryType'
  BY DEF Boundary, MemoryType, PlanInv, ActivatingSteps, LaneSteps, Idle, Call, GateFrame
<1>3. GateType' /\ FilesType' /\ UNCHANGED Packages /\ (gate' = gate \/ Quiet(gate'))
  BY DEF Boundary, GateType, FilesType, fileVars, Packages, KeepFiles, GateFrame, Call, GateSteps, Quiet
<1>4. edits' \in 0 .. MaxEdits /\ faults' \in 0 .. MaxFaults
  BY LifecycleAssumption DEF Boundary, Fault, NoFault, GateFrame
<1> QED
  BY <1>1, <1>2, <1>3, <1>4 DEF StoreStep, Framed

\* The boundary waits for the mutex.
LEMMA BoundaryTearsDownStep ==
    ASSUME Typed, CustodyInv, BoundaryTearsDown
    PROVE  Typed' /\ Framed
<1> USE TypeParts, OldIsKnown, Marks
<1>1. StoreStep
  BY KeepStore DEF BoundaryTearsDown
<1>2. MemoryType'
  BY DEF BoundaryTearsDown, MemoryType, PlanInv, ActivatingSteps, LaneSteps, Idle, Call, GateFrame, BeginTeardown, Teardowns, StoreType, Rows, CustodyInv, GateInv
<1>3. GateType' /\ FilesType' /\ UNCHANGED Packages /\ (gate' = gate \/ Quiet(gate'))
  BY DEF BoundaryTearsDown, GateType, FilesType, fileVars, Packages, KeepFiles, GateFrame, GateGoto, Call, GateSteps, Quiet, CustodyInv, GateInv
<1>4. edits' \in 0 .. MaxEdits /\ faults' \in 0 .. MaxFaults
  BY LifecycleAssumption DEF BoundaryTearsDown, Fault, NoFault, GateFrame
<1> QED
  BY <1>1, <1>2, <1>3, <1>4 DEF StoreStep, Framed

\* What is in memory is lost, the store and the files are not.
LEMMA DieStep ==
    ASSUME Typed, CustodyInv, Die
    PROVE  Typed' /\ Framed
<1> USE TypeParts, OldIsKnown, Marks
<1>1. StoreStep
  BY KeepStore DEF Die
<1>2. MemoryType'
  BY DEF Die, MemoryType, PlanInv, ActivatingSteps, LaneSteps, Idle, Call
<1>3. GateType' /\ FilesType' /\ UNCHANGED Packages /\ (gate' = gate \/ Quiet(gate'))
  BY DEF Die, GateType, FilesType, fileVars, Packages, KeepFiles, Call, GateSteps, Quiet
<1>4. edits' \in 0 .. MaxEdits /\ faults' \in 0 .. MaxFaults
  BY LifecycleAssumption DEF Die, Fault, NoFault
<1> QED
  BY <1>1, <1>2, <1>3, <1>4 DEF StoreStep, Framed

\* An interrupted replacement is closed.
LEMMA RecoverReplacementStep ==
    ASSUME Typed, CustodyInv, RecoverReplacement
    PROVE  Typed' /\ Framed
<1> USE TypeParts, OldIsKnown, Marks
<1>1. StoreStep
  <2>1. PICK i \in OpenOf(Replacements) : Fail(i, "disabled", TRUE)
    BY DEF RecoverReplacement
  <2>2. i \in Refs
    BY DEF OpenOf, OpenIds, Ids, Refs
  <2> QED
    BY <2>1, <2>2, FailKeeps DEF Observed
<1>2. MemoryType'
  BY DEF RecoverReplacement, MemoryType, PlanInv, ActivatingSteps, LaneSteps, Idle, Call, GateFrame
<1>3. GateType' /\ FilesType' /\ UNCHANGED Packages /\ (gate' = gate \/ Quiet(gate'))
  BY DEF RecoverReplacement, GateType, FilesType, fileVars, Packages, KeepFiles, GateFrame
<1>4. edits' \in 0 .. MaxEdits /\ faults' \in 0 .. MaxFaults
  BY LifecycleAssumption DEF RecoverReplacement, Fault, NoFault, GateFrame
<1> QED
  BY <1>1, <1>2, <1>3, <1>4 DEF StoreStep, Framed

\* Files, purges and discovery follow each other.
LEMMA RecoveryGoesOnStep ==
    ASSUME Typed, CustodyInv, RecoveryGoesOn
    PROVE  Typed' /\ Framed
<1> USE TypeParts, OldIsKnown, Marks
<1>1. StoreStep
  BY KeepStore DEF RecoveryGoesOn
<1>2. MemoryType'
  BY DEF RecoveryGoesOn, MemoryType, PlanInv, ActivatingSteps, LaneSteps, Idle, Call, GateFrame
<1>3. GateType' /\ FilesType' /\ UNCHANGED Packages /\ (gate' = gate \/ Quiet(gate'))
  BY DEF RecoveryGoesOn, GateType, FilesType, fileVars, Packages, KeepFiles, GateFrame, GateGoto, GateSteps, Quiet, Reconciling
<1>4. edits' \in 0 .. MaxEdits /\ faults' \in 0 .. MaxFaults
  BY LifecycleAssumption DEF RecoveryGoesOn, Fault, NoFault, GateFrame
<1> QED
  BY <1>1, <1>2, <1>3, <1>4 DEF StoreStep, Framed

\* Discovery is recorded before the plugin is judged.
LEMMA ReconcileDiscoversStep ==
    ASSUME Typed, CustodyInv, ReconcileDiscovers
    PROVE  Typed' /\ Framed
<1> USE TypeParts, OldIsKnown, Marks
<1>1. StoreStep
  <2>1. source \in Optional
    BY DEF FilesType
  <2> QED
    BY <2>1, DiscoverKeeps, KeepStore DEF ReconcileDiscovers
<1>2. MemoryType'
  BY DEF ReconcileDiscovers, MemoryType, PlanInv, ActivatingSteps, LaneSteps, Idle, Call, FilesType, Activations, Recoveries
<1>3. GateType' /\ FilesType' /\ UNCHANGED Packages /\ (gate' = gate \/ Quiet(gate'))
  BY DEF ReconcileDiscovers, GateType, FilesType, fileVars, Packages, KeepFiles, Call, GateSteps, Quiet, Reconciling
<1>4. edits' \in 0 .. MaxEdits /\ faults' \in 0 .. MaxFaults
  BY LifecycleAssumption DEF ReconcileDiscovers, Fault, NoFault
<1> QED
  BY <1>1, <1>2, <1>3, <1>4 DEF StoreStep, Framed

\* A plugin directory that cannot be read closes every route.
LEMMA DiscoveryFailsStep ==
    ASSUME Typed, CustodyInv, DiscoveryFails
    PROVE  Typed' /\ Framed
<1> USE TypeParts, OldIsKnown, Marks
<1>1. StoreStep
  BY KeepStore DEF DiscoveryFails
<1>2. MemoryType'
  BY DEF DiscoveryFails, MemoryType, PlanInv, ActivatingSteps, LaneSteps, Idle, Call
<1>3. GateType' /\ FilesType' /\ UNCHANGED Packages /\ (gate' = gate \/ Quiet(gate'))
  BY DEF DiscoveryFails, GateType, FilesType, fileVars, Packages, KeepFiles, Quiet
<1>4. edits' \in 0 .. MaxEdits /\ faults' \in 0 .. MaxFaults
  BY LifecycleAssumption DEF DiscoveryFails, Fault, NoFault
<1> QED
  BY <1>1, <1>2, <1>3, <1>4 DEF StoreStep, Framed

\* The row and the package decide whether the plugin is started again.
LEMMA JudgeStep ==
    ASSUME Typed, CustodyInv, Judge
    PROVE  Typed' /\ Framed
<1> USE TypeParts, OldIsKnown, Marks
<1>1. StoreStep
  <2>1. row.tr \in Refs
    BY DEF StoreType, Rows
  <2> QED
    BY <2>1, FailKeeps, KeepStore DEF Judge, Observed
<1>2. MemoryType'
  BY DEF Judge, MemoryType, PlanInv, ActivatingSteps, LaneSteps, Idle, Call, Activations, Recoveries, Or, StoreType, Rows
<1>3. GateType' /\ FilesType' /\ UNCHANGED Packages /\ (gate' = gate \/ Quiet(gate'))
  BY DEF Judge, GateType, FilesType, fileVars, Packages, KeepFiles
<1>4. edits' \in 0 .. MaxEdits /\ faults' \in 0 .. MaxFaults
  BY LifecycleAssumption DEF Judge, Fault, NoFault
<1> QED
  BY <1>1, <1>2, <1>3, <1>4 DEF StoreStep, Framed

\* The reactivation is a transition of its own.
LEMMA ReactivateStep ==
    ASSUME Typed, CustodyInv, Reactivate
    PROVE  Typed' /\ Framed
<1> USE TypeParts, OldIsKnown, Marks
<1>1. StoreStep
  <2>1. lane.digest \in Optional
    BY DEF MemoryType
  <2>2. CASE Request(NextId, "enable", None, lane.digest)
    BY <2>1, <2>2, RequestKeeps DEF Kinds
  <2> QED
    BY <2>2, KeepStore DEF Reactivate, Begin
<1>2. MemoryType'
  BY DEF Reactivate, MemoryType, PlanInv, ActivatingSteps, LaneSteps, Idle, Call, Begin, Request, Requestable, Ids, Refs
<1>3. GateType' /\ FilesType' /\ UNCHANGED Packages /\ (gate' = gate \/ Quiet(gate'))
  BY DEF Reactivate, GateType, FilesType, fileVars, Packages, KeepFiles
<1>4. edits' \in 0 .. MaxEdits /\ faults' \in 0 .. MaxFaults
  BY LifecycleAssumption DEF Reactivate, Fault, NoFault
<1> QED
  BY <1>1, <1>2, <1>3, <1>4 DEF StoreStep, Framed

\* A plugin that cannot be recovered is blocked on a transition.
LEMMA PersistBlockStep ==
    ASSUME Typed, CustodyInv, PersistBlock
    PROVE  Typed' /\ Framed
<1> USE TypeParts, OldIsKnown, Marks
<1>1. StoreStep
  <2>1. row.tr \in Refs /\ Or(row.accepted, row.pending) \in Optional
    BY DEF StoreType, Rows, Or
  <2>2. CASE Request(NextId, "enable", None, Or(row.accepted, row.pending))
    BY <2>1, <2>2, RequestKeeps DEF Kinds
  <2>3. CASE Fail(row.tr, "blocked", FALSE)
    BY <2>1, <2>3, FailKeeps DEF Observed
  <2> QED
    BY <2>2, <2>3, KeepStore DEF PersistBlock
<1>2. MemoryType'
  <2>1. lane' = lane \/ lane' = Idle
    BY DEF PersistBlock, BlockEnds
  <2>2. block' = NoBlock \/ (NextId \in Ids /\ block' = [state |-> "requested", i |-> NextId])
    BY DEF PersistBlock, BlockEnds, Request
  <2>3. UNCHANGED <<active, pend, asked, dead>>
    BY DEF PersistBlock, BlockFrame
  <2>4. block' \in [state : {"no", "wanted", "requested"}, i : Refs]
    BY <2>2
  <2>5. PlanInv'
    BY <2>1, <2>3 DEF MemoryType, PlanInv, ActivatingSteps, Idle, Call
  <2> QED
    BY <2>1, <2>3, <2>4, <2>5 DEF MemoryType
<1>3. GateType' /\ FilesType' /\ UNCHANGED Packages /\ (gate' = gate \/ Quiet(gate'))
  BY DEF PersistBlock, GateType, FilesType, fileVars, Packages, KeepFiles, BlockFrame
<1>4. edits' \in 0 .. MaxEdits /\ faults' \in 0 .. MaxFaults
  BY LifecycleAssumption DEF PersistBlock, Fault, NoFault, BlockFrame
<1> QED
  BY <1>1, <1>2, <1>3, <1>4 DEF StoreStep, Framed

\* The transition made for the block is failed.
LEMMA FinishBlockStep ==
    ASSUME Typed, CustodyInv, FinishBlock
    PROVE  Typed' /\ Framed
<1> USE TypeParts, OldIsKnown, Marks
<1>1. StoreStep
  BY FailKeeps DEF FinishBlock, MemoryType, Observed
<1>2. MemoryType'
  BY DEF FinishBlock, MemoryType, PlanInv, ActivatingSteps, LaneSteps, Idle, Call, BlockFrame, BlockEnds
<1>3. GateType' /\ FilesType' /\ UNCHANGED Packages /\ (gate' = gate \/ Quiet(gate'))
  BY DEF FinishBlock, GateType, FilesType, fileVars, Packages, KeepFiles, BlockFrame
<1>4. edits' \in 0 .. MaxEdits /\ faults' \in 0 .. MaxFaults
  BY LifecycleAssumption DEF FinishBlock, Fault, NoFault, BlockFrame
<1> QED
  BY <1>1, <1>2, <1>3, <1>4 DEF StoreStep, Framed

\* A block that is not recorded is given up.
LEMMA BlockFailsStep ==
    ASSUME Typed, CustodyInv, BlockFails
    PROVE  Typed' /\ Framed
<1> USE TypeParts, OldIsKnown, Marks
<1>1. StoreStep
  BY KeepStore DEF BlockFails
<1>2. MemoryType'
  BY DEF BlockFails, MemoryType, PlanInv, ActivatingSteps, LaneSteps, Idle, Call, BlockFrame, BlockEnds
<1>3. GateType' /\ FilesType' /\ UNCHANGED Packages /\ (gate' = gate \/ Quiet(gate'))
  BY DEF BlockFails, GateType, FilesType, fileVars, Packages, KeepFiles, BlockFrame
<1>4. edits' \in 0 .. MaxEdits /\ faults' \in 0 .. MaxFaults
  BY LifecycleAssumption DEF BlockFails, Fault, NoFault, BlockFrame
<1> QED
  BY <1>1, <1>2, <1>3, <1>4 DEF StoreStep, Framed

\* The route is closed under the mutex.
LEMMA HostFailsStep ==
    ASSUME Typed, CustodyInv, HostFails
    PROVE  Typed' /\ Framed
<1> USE TypeParts, OldIsKnown, Marks
<1>1. StoreStep
  BY KeepStore DEF HostFails
<1>2. MemoryType'
  BY DEF HostFails, MemoryType, PlanInv, ActivatingSteps, LaneSteps, Idle, Call
<1>3. GateType' /\ FilesType' /\ UNCHANGED Packages /\ (gate' = gate \/ Quiet(gate'))
  BY DEF HostFails, GateType, FilesType, fileVars, Packages, KeepFiles
<1>4. edits' \in 0 .. MaxEdits /\ faults' \in 0 .. MaxFaults
  BY LifecycleAssumption DEF HostFails, Fault, NoFault
<1> QED
  BY <1>1, <1>2, <1>3, <1>4 DEF StoreStep, Framed

\* The crash is recorded for exactly the host that crashed.
LEMMA CrashRecordedStep ==
    ASSUME Typed, CustodyInv, CrashRecorded
    PROVE  Typed' /\ Framed
<1> USE TypeParts, OldIsKnown, Marks
<1>1. StoreStep
  BY CrashKeeps, KeepStore DEF CrashRecorded, storeVars
<1>2. MemoryType'
  BY DEF CrashRecorded, MemoryType, PlanInv, ActivatingSteps, LaneSteps, Idle, Call
<1>3. GateType' /\ FilesType' /\ UNCHANGED Packages /\ (gate' = gate \/ Quiet(gate'))
  BY DEF CrashRecorded, GateType, FilesType, fileVars, Packages, KeepFiles
<1>4. edits' \in 0 .. MaxEdits /\ faults' \in 0 .. MaxFaults
  BY LifecycleAssumption DEF CrashRecorded, Fault, NoFault
<1> QED
  BY <1>1, <1>2, <1>3, <1>4 DEF StoreStep, Framed

\* Crashes are forgotten.
LEMMA TenMinutesStep ==
    ASSUME Typed, CustodyInv, TenMinutes
    PROVE  Typed' /\ Framed
<1> USE TypeParts, OldIsKnown, Marks
<1>1. StoreStep
  BY DEF TenMinutes, Forget, StoreStep, StoreType, Grows, KnownOld, CrashLimit
<1>2. MemoryType'
  BY DEF TenMinutes, MemoryType, PlanInv, ActivatingSteps, LaneSteps, Idle, Call, memVars
<1>3. GateType' /\ FilesType' /\ UNCHANGED Packages /\ (gate' = gate \/ Quiet(gate'))
  BY DEF TenMinutes, GateType, FilesType, fileVars, Packages, KeepFiles
<1>4. edits' \in 0 .. MaxEdits /\ faults' \in 0 .. MaxFaults
  BY LifecycleAssumption DEF TenMinutes, Fault, NoFault
<1> QED
  BY <1>1, <1>2, <1>3, <1>4 DEF StoreStep, Framed

\* The user changes the package in the project.
LEMMA EditStep ==
    ASSUME Typed, CustodyInv, NEW d \in Optional, Edit(d)
    PROVE  Typed' /\ Framed
<1> USE TypeParts, OldIsKnown, Marks
<1>1. StoreStep
  BY KeepStore DEF Edit
<1>2. MemoryType'
  BY DEF Edit, MemoryType, PlanInv, ActivatingSteps, LaneSteps, Idle, Call, memVars
<1>3. GateType' /\ FilesType' /\ UNCHANGED Packages /\ (gate' = gate \/ Quiet(gate'))
  BY DEF Edit, GateType, FilesType, fileVars, Packages, KeepFiles, Optional
<1>4. edits' \in 0 .. MaxEdits /\ faults' \in 0 .. MaxFaults
  BY LifecycleAssumption DEF Edit, Fault, NoFault
<1> QED
  BY <1>1, <1>2, <1>3, <1>4 DEF StoreStep, Framed

-----------------------------------------------------------------------------
(* Steps that move, restore, purge or record a package *)

Stutters == UNCHANGED Custody!vars
CustodyStep == Custody!Next \/ Stutters

\* What is neither moved nor recorded differently looks the same to PackageCustody.
LEMMA FramedStutters ==
    ASSUME tomb' = tomb, UNCHANGED Packages
    PROVE  Stutters
<1>1. \A i \in Ids : Place(i)' = Place(i) /\ RecordOf(i)' = RecordOf(i)
  BY DEF Packages, Place, RecordOf
<1> QED
  BY <1>1 DEF Stutters, Custody!vars

\* One package that changes its place is a step of PackageCustody.
LEMMA OneMoves ==
    ASSUME NEW p \in Ids,
           \A i \in Ids : RecordOf(i)' = RecordOf(i),
           \A i \in Ids \ {p} : Place(i)' = Place(i),
           \/ RecordOf(p) = "none" /\ Place(p) = "project" /\ Place(p)' = "trash"
           \/ RecordOf(p) \in {"kept", "expired"} /\ Place(p) = "trash" /\ Place(p)' = "returned"
           \/ RecordOf(p) = "discarding" /\ Place(p) = "trash" /\ Place(p)' = "gone"
    PROVE  CustodyStep
<1> DEFINE place == [i \in Ids |-> Place(i)]
           recorded == [i \in Ids |-> RecordOf(i)]
<1>1. recorded' = recorded /\ place' = [place EXCEPT ![p] = Place(p)']
  OBVIOUS
<1>2. place[p] = Place(p) /\ recorded[p] = RecordOf(p) /\ place'[p] = Place(p)'
  OBVIOUS
<1>3. place' # place
  BY <1>2
<1>4. Custody!Take(p) \/ Custody!Return(p) \/ Custody!Discard(p)
  BY <1>1, <1>2 DEF Custody!Take, Custody!Return, Custody!Discard, Custody!Put
<1> QED
  BY <1>1, <1>3, <1>4 DEF CustodyStep, Custody!Next

\* One record that is written after what it says is a step of PackageCustody.
LEMMA OneRecorded ==
    ASSUME NEW p \in Ids,
           \A i \in Ids : Place(i)' = Place(i),
           \A i \in Ids \ {p} : RecordOf(i)' = RecordOf(i),
           \/ Place(p) = "trash" /\ RecordOf(p) = "none" /\ RecordOf(p)' = "kept"
           \/ Place(p) = "returned" /\ RecordOf(p) = "kept" /\ RecordOf(p)' = "returned"
           \/ RecordOf(p) = "kept" /\ RecordOf(p)' = "expired"
           \/ RecordOf(p) = "expired" /\ RecordOf(p)' = "discarding"
           \/ Place(p) = "gone" /\ RecordOf(p) = "discarding" /\ RecordOf(p)' = "discarded"
    PROVE  CustodyStep
<1> DEFINE place == [i \in Ids |-> Place(i)]
           recorded == [i \in Ids |-> RecordOf(i)]
<1>1. place' = place /\ recorded' = [recorded EXCEPT ![p] = RecordOf(p)']
  OBVIOUS
<1>2. place[p] = Place(p) /\ recorded[p] = RecordOf(p) /\ recorded'[p] = RecordOf(p)'
  OBVIOUS
<1>3. recorded' # recorded
  BY <1>2
<1>4. \/ Custody!RecordTaken(p) \/ Custody!RecordReturned(p) \/ Custody!Expire(p)
      \/ Custody!Decide(p) \/ Custody!RecordDiscarded(p)
  BY <1>1, <1>2 DEF Custody!RecordTaken, Custody!RecordReturned, Custody!Expire, Custody!Decide,
     Custody!RecordDiscarded, Custody!Record
<1> QED
  BY <1>1, <1>3, <1>4 DEF CustodyStep, Custody!Next

\* The uninstall is durable before the package is moved.
LEMMA UninstallRequestsStep ==
    ASSUME Typed, CustodyInv, UninstallRequests
    PROVE  Typed' /\ CustodyInv' /\ CustodyStep
<1> USE TypeParts, OldIsKnown, Marks
<1>1. gate.digest \in Optional /\ gate.digest # None
  BY DEF UninstallRequests, GateType, CustodyInv, GateInv
<1>2. CASE Request(NextId, "uninstall", gate.digest, None)
           /\ gate' = Call("uninstall", "move", NextId, gate.digest)
  <2>1. /\ StoreStep /\ NextId \in Ids
        /\ trans'[NextId].kind = "uninstall" /\ trans[NextId].kind = "none"
    BY <1>1, <1>2, RequestKeeps DEF Kinds
  <2>2. tomb[NextId].digest = None
    BY <2>1 DEF CustodyInv, RecordsInv
  <2>3. MemoryType' /\ UNCHANGED <<Packages, source, cache, edits, faults>>
    BY DEF UninstallRequests, MemoryType, PlanInv, GateFrame, KeepFiles, fileVars, Packages, NoFault
  <2>4. GateType' /\ FilesType'
    BY <1>1, <1>2, <2>1, <2>3 DEF GateType, FilesType, Packages, Call, GateSteps
  <2>5. RecordsInv'
    BY <2>1, <2>3 DEF CustodyInv, RecordsInv, StoreStep, Grows, Packages
  <2>6. GateInv' /\ MoveInv' /\ RestoreInv' /\ PurgeInv'
    BY <1>1, <1>2, <2>1, <2>2 DEF GateInv, MoveInv, Moving, TakenOut, RestoreInv, PurgeInv, PurgeSteps,
       Call, StoreStep
  <2>7. CustodyStep
    BY <2>1, <2>3, FramedStutters DEF StoreStep, CustodyStep
  <2> QED
    BY <2>1, <2>3, <2>4, <2>5, <2>6, <2>7 DEF StoreStep, CustodyInv
<1>3. CASE gate' = Idle /\ UNCHANGED storeVars
  <2>1. Framed /\ StoreStep
    BY <1>3, KeepStore DEF UninstallRequests, Framed, StoreStep, KeepFiles, fileVars, Packages
  <2>2. MemoryType' /\ GateType' /\ FilesType' /\ UNCHANGED <<edits, faults>>
    BY <1>3 DEF UninstallRequests, MemoryType, PlanInv, GateType, FilesType, GateFrame, KeepFiles, fileVars, NoFault
  <2> QED
    BY <2>1, <2>2, CustodyFrame, FramedStutters DEF Framed, StoreStep, CustodyStep
<1> QED
  BY <1>2, <1>3 DEF UninstallRequests

\* An interrupted uninstall is taken up where its transition was left.
LEMMA RecoverUninstallStep ==
    ASSUME Typed, CustodyInv, RecoverUninstall
    PROVE  Typed' /\ CustodyInv' /\ CustodyStep
<1> USE TypeParts, OldIsKnown, Marks
<1>1. PICK i \in OpenOf({"uninstall"}) :
          IF row.desired = "uninstalled" /\ row.accepted = trans[i].old /\ row.tr = i
          THEN gate' = Call("reconcile", "move", i, trans[i].old) /\ UNCHANGED storeVars
          ELSE gate' = Call("reconcile", "purges", 0, None) /\ RequireRecovery(i)
  BY DEF RecoverUninstall
<1>2. i \in Ids /\ trans[i].kind = "uninstall" /\ trans[i].status # "completed"
  BY DEF OpenOf, OpenIds, Open
<1>3. trans[i].old \in Optional /\ trans[i].old # None /\ tomb[i].digest = None
  BY <1>2 DEF StoreType, Transitions, CustodyInv, RecordsInv
<1>4. MemoryType' /\ UNCHANGED <<Packages, source, cache, edits, faults>>
  BY DEF RecoverUninstall, MemoryType, PlanInv, GateFrame, KeepFiles, fileVars, Packages, NoFault
<1>5. StoreStep
  BY <1>1, KeepStore, RecoveryKeeps
<1>6. GateType' /\ FilesType'
  BY <1>1, <1>2, <1>3, <1>4 DEF GateType, FilesType, Packages, Call, GateSteps
<1>7. CustodyStep
  BY <1>4, <1>5, FramedStutters DEF StoreStep, CustodyStep
<1>8. RecordsInv'
  BY <1>4, <1>5 DEF CustodyInv, RecordsInv, StoreStep, Grows, Packages
<1>9. GateInv' /\ MoveInv' /\ RestoreInv' /\ PurgeInv'
  BY <1>1, <1>2, <1>3, <1>5 DEF GateInv, MoveInv, Moving, TakenOut, MovingSteps, RestoreInv, PurgeInv,
     PurgeSteps, Call, StoreStep, Grows
<1> QED
  BY <1>4, <1>5, <1>6, <1>7, <1>8, <1>9 DEF StoreStep, CustodyInv

\* One rename takes the package out of the project.
LEMMA MoveExactStep ==
    ASSUME Typed, CustodyInv, MoveExact
    PROVE  Typed' /\ CustodyInv' /\ CustodyStep
<1> USE TypeParts, OldIsKnown, Marks
<1>1. /\ gate.i \in Ids /\ gate.digest # None /\ tomb[gate.i].digest = None
      /\ trans[gate.i].kind = "uninstall"
  BY DEF MoveExact, CustodyInv, MoveInv, Moving, MovingSteps
<1>2. gate.i \notin marker /\ purging[gate.i] = "none"
  BY <1>1 DEF CustodyInv, RecordsInv
<1>3. /\ UNCHANGED <<storeVars, purging, marker>> /\ trash'[gate.i] # None
      /\ trash' \in [Ids -> Optional] /\ \A i \in Ids \ {gate.i} : trash'[i] = trash[i]
  BY <1>1 DEF MoveExact, FilesType, Movable, Moved, KeepFiles, fileVars
<1>4. MemoryType' /\ FilesType' /\ UNCHANGED <<edits, faults>>
  BY <1>3 DEF MoveExact, MemoryType, PlanInv, FilesType, GateFrame, KeepFiles, fileVars, NoFault
<1>5. /\ gate' = [gate EXCEPT !.step = gate'.step] /\ gate'.step \in {"complete", "record"}
      /\ GateType' /\ gate.op # "restore"
  BY DEF MoveExact, GateType, GateSteps, CustodyInv, GateInv
<1>6. StoreStep
  BY <1>3, KeepStore
<1>7. RecordsInv'
  BY <1>2, <1>3 DEF CustodyInv, RecordsInv, storeVars
<1>8. GateInv' /\ MoveInv' /\ RestoreInv' /\ PurgeInv'
  BY <1>1, <1>3, <1>5 DEF CustodyInv, GateInv, MoveInv, Moving, TakenOut, RestoreInv, PurgeInv,
     PurgeSteps, GateType, storeVars
<1>9. CustodyStep
  <2>0. PICK p \in Ids : p = gate.i
    BY <1>1
  <2>1. \A i \in Ids : RecordOf(i)' = RecordOf(i)
    BY <1>3 DEF RecordOf, storeVars
  <2>2. \A i \in Ids \ {p} : Place(i)' = Place(i)
    BY <1>3, <2>0 DEF Place, storeVars
  <2>3. Place(p)' = "trash" /\ RecordOf(p) = "none"
    <3>1. Place(p)' = "trash"
      BY <1>3, <2>0 DEF Place
    <3>2. RecordOf(p) = "none"
      BY <1>1, <2>0 DEF RecordOf
    <3> QED
      BY <3>1, <3>2
  <2>4. CASE trash[gate.i] = None
    <3>1. Place(p) = "project"
      BY <1>1, <1>2, <2>0, <2>4 DEF Place
    <3> QED
      BY <2>1, <2>2, <2>3, <3>1, OneMoves
  <2>5. CASE trash[gate.i] # None
    BY <1>1, <2>5, FramedStutters DEF MoveExact, Movable, KeepFiles, fileVars, Packages, storeVars, CustodyStep
  <2> QED
    BY <2>4, <2>5
<1> QED
  BY <1>4, <1>5, <1>6, <1>7, <1>8, <1>9 DEF StoreStep, CustodyInv

\* The move is journaled after it happened.
LEMMA RecordMovedStep ==
    ASSUME Typed, CustodyInv, RecordMoved
    PROVE  Typed' /\ CustodyInv' /\ CustodyStep
<1> USE TypeParts, OldIsKnown, Marks
<1>1. /\ gate.i \in Ids /\ gate.digest # None /\ tomb[gate.i].digest = None
      /\ trans[gate.i].kind = "uninstall" /\ trash[gate.i] # None /\ gate.op # "restore"
  BY DEF RecordMoved, CustodyInv, GateInv, MoveInv, Moving, TakenOut, MovingSteps
<1>2. StoreStep
  BY <1>1, AdvanceKeeps, PhaseNames DEF RecordMoved, Observed, Open, Ids, Refs
<1>3. MemoryType' /\ FilesType' /\ UNCHANGED <<Packages, edits, faults>>
  BY DEF RecordMoved, MemoryType, PlanInv, FilesType, GateFrame, KeepFiles, fileVars, Packages, NoFault
<1>4. gate' = [gate EXCEPT !.step = "complete"] /\ GateType'
  BY DEF RecordMoved, GateGoto, GateType, GateSteps
<1>5. RecordsInv'
  BY <1>2, <1>3 DEF CustodyInv, RecordsInv, StoreStep, Grows, Packages
<1>6. GateInv' /\ MoveInv' /\ RestoreInv' /\ PurgeInv'
  BY <1>1, <1>2, <1>3, <1>4 DEF CustodyInv, GateInv, MoveInv, Moving, TakenOut, RestoreInv, PurgeInv,
     PurgeSteps, GateType, StoreStep, Grows, Packages
<1>7. CustodyStep
  BY <1>2, <1>3, FramedStutters DEF StoreStep, CustodyStep
<1> QED
  BY <1>2, <1>3, <1>4, <1>5, <1>6, <1>7 DEF StoreStep, CustodyInv

\* The tombstone is written once the package is in the trash.
LEMMA FinishUninstallStep ==
    ASSUME Typed, CustodyInv, FinishUninstall
    PROVE  Typed' /\ CustodyInv' /\ CustodyStep
<1> USE TypeParts, OldIsKnown, Marks
<1>1. /\ gate.i \in Ids /\ tomb[gate.i].digest = None
      /\ trans[gate.i].kind = "uninstall" /\ trash[gate.i] # None
  BY DEF FinishUninstall, CustodyInv, MoveInv, Moving, TakenOut
<1>2. PICK p \in Ids : p = gate.i
  BY <1>1
<1>3. trans[p].old \in Optional /\ trans[p].old # None /\ trans[p] \in Transitions
  BY <1>1, <1>2 DEF CustodyInv, RecordsInv, StoreType, Transitions
<1>4. /\ tomb' = [tomb EXCEPT ![p] = [NoTombstone EXCEPT !.digest = trans[p].old,
                                                        !.retention = "recoverable"]]
      /\ trans' = [trans EXCEPT ![p].phase = "completed", ![p].status = "completed"]
      /\ row' = [row EXCEPT !.observed = "uninstalled", !.pending = None, !.host = 0]
      /\ crashes' = crashes
  BY <1>2 DEF FinishUninstall, CompleteUninstall
<1>5. /\ tomb'[p] = [digest |-> trans[p].old, retention |-> "recoverable", deleted |-> FALSE,
                     restored |-> FALSE]
      /\ \A i \in Ids \ {p} : tomb'[i] = tomb[i] /\ trans'[i] = trans[i]
      /\ trans'[p].kind = trans[p].kind /\ trans'[p].old = trans[p].old
      /\ trans'[p].status = "completed" /\ trans'[p] \in Transitions
  <2>1. /\ tomb'[p] = [digest |-> trans[p].old, retention |-> "recoverable", deleted |-> FALSE,
                       restored |-> FALSE]
        /\ \A i \in Ids \ {p} : tomb'[i] = tomb[i]
    BY <1>4 DEF StoreType, NoTombstone
  <2>2. /\ \A i \in Ids \ {p} : trans'[i] = trans[i]
        /\ trans'[p].kind = trans[p].kind /\ trans'[p].old = trans[p].old
        /\ trans'[p].status = "completed" /\ trans'[p] \in Transitions
    <3>1. trans'[p] = [trans[p] EXCEPT !.phase = "completed", !.status = "completed"]
      BY <1>3, <1>4 DEF StoreType
    <3>2. \A i \in Ids \ {p} : trans'[i] = trans[i]
      BY <1>3, <1>4 DEF StoreType
    <3>3. "completed" \in Phases /\ "completed" \in Open \cup Terminal \cup {"none"}
      BY PhaseNames DEF Terminal
    <3> QED
      BY <1>3, <3>1, <3>2, <3>3 DEF Transitions
  <2> QED
    BY <2>1, <2>2
<1>6. StoreType'
  <2>1. row' \in Rows
    BY <1>4 DEF StoreType, Rows, Observed
  <2>2. tomb'[p] \in Tombstones
    BY <1>3, <1>5 DEF Tombstones, Retention
  <2>3. tomb' \in [Ids -> Tombstones] /\ trans' \in [Ids -> Transitions]
    BY <1>4, <1>5, <2>2 DEF StoreType
  <2> QED
    BY <1>4, <2>1, <2>3 DEF StoreType
<1>7. MemoryType' /\ FilesType' /\ UNCHANGED <<Packages, edits, faults>>
  BY DEF FinishUninstall, MemoryType, PlanInv, FilesType, GateFrame, KeepFiles, fileVars, Packages, NoFault
<1>8. GateType' /\ Quiet(gate')
  BY DEF FinishUninstall, GateDone, Call, GateType, GateSteps, Quiet
<1>9. RecordsInv'
  BY <1>1, <1>2, <1>3, <1>5, <1>7 DEF CustodyInv, RecordsInv, Packages
<1>10. GateInv' /\ MoveInv' /\ RestoreInv' /\ PurgeInv'
  BY <1>8 DEF GateInv, MoveInv, Moving, TakenOut, MovingSteps, RestoreInv, PurgeInv, PurgeSteps, Quiet,
     Boundaries
<1>11. CustodyStep
  <2>1. \A i \in Ids : Place(i)' = Place(i)
    BY <1>1, <1>2, <1>5, <1>7 DEF Place, Packages
  <2>2. \A i \in Ids \ {p} : RecordOf(i)' = RecordOf(i)
    BY <1>5 DEF RecordOf
  <2>3. Place(p) = "trash" /\ RecordOf(p) = "none" /\ RecordOf(p)' = "kept"
    <3>1. Place(p) = "trash"
      BY <1>1, <1>2 DEF Place
    <3>2. RecordOf(p) = "none"
      BY <1>1, <1>2 DEF RecordOf
    <3>3. RecordOf(p)' = "kept"
      BY <1>3, <1>5 DEF RecordOf
    <3> QED
      BY <3>1, <3>2, <3>3
  <2> QED
    BY <2>1, <2>2, <2>3, OneRecorded
<1> QED
  BY <1>6, <1>7, <1>8, <1>9, <1>10, <1>11 DEF CustodyInv

\* A restore begins with a tombstone that is recoverable.
LEMMA RestoreStep ==
    ASSUME Typed, CustodyInv, NEW i \in Ids, Restore(i)
    PROVE  Typed' /\ CustodyInv' /\ CustodyStep
<1> USE TypeParts, OldIsKnown, Marks
<1>1. /\ gate' = Call("restore", "restore", i, tomb[i].digest) /\ Kept(i)
      /\ tomb[i].retention = "recoverable" /\ tomb[i].digest \in Optional
  BY DEF Restore, Restorable, StoreType, Tombstones
<1>2. UNCHANGED <<storeVars, Packages, edits, faults>> /\ MemoryType' /\ FilesType'
  BY DEF Restore, MemoryType, PlanInv, FilesType, GateFrame, KeepFiles, fileVars, Packages, NoFault
<1>3. StoreStep
  BY <1>2, KeepStore
<1>4. GateType'
  BY <1>1 DEF GateType, Call, GateSteps
<1>5. RecordsInv'
  BY <1>2 DEF CustodyInv, RecordsInv, storeVars, Packages
<1>6. GateInv' /\ MoveInv' /\ RestoreInv' /\ PurgeInv'
  BY <1>1, <1>2 DEF GateInv, MoveInv, Moving, TakenOut, MovingSteps, RestoreInv, PurgeInv, PurgeSteps,
     Call, Kept, storeVars
<1>7. CustodyStep
  BY <1>2, FramedStutters DEF storeVars, CustodyStep
<1> QED
  BY <1>2, <1>3, <1>4, <1>5, <1>6, <1>7 DEF StoreStep, CustodyInv

\* One rename brings the package back.
LEMMA RestoreExactStep ==
    ASSUME Typed, CustodyInv, RestoreExact
    PROVE  Typed' /\ CustodyInv' /\ CustodyStep
<1> USE TypeParts, OldIsKnown, Marks
<1>1. /\ gate.op = "restore" /\ gate.i \in Ids /\ gate.digest # None
      /\ tomb[gate.i].digest = gate.digest /\ Kept(gate.i)
      /\ tomb[gate.i].retention \in {"recoverable", "expired"}
  BY DEF RestoreExact, CustodyInv, GateInv, RestoreInv
<1>2. PICK p \in Ids : p = gate.i
  BY <1>1
<1>3. p \notin marker /\ purging[p] = "none"
  BY <1>1, <1>2 DEF CustodyInv, RecordsInv, Kept
<1>4. UNCHANGED <<storeVars, purging, marker, edits, faults>> /\ MemoryType'
  BY DEF RestoreExact, MemoryType, PlanInv, GateFrame, KeepFiles, fileVars, NoFault
<1>5. StoreStep
  BY <1>4, KeepStore
<1>6. CASE InTrash(p, gate.digest) /\ trash' = [trash EXCEPT ![p] = None] /\ source' = gate.digest
           /\ cache' = cache /\ GateGoto("complete")
  <2>1. FilesType' /\ GateType'
    BY <1>4, <1>6 DEF FilesType, GateType, GateGoto, GateSteps
  <2>2. trash'[p] = None /\ \A i \in Ids \ {p} : trash'[i] = trash[i]
    BY <1>6 DEF FilesType
  <2>3. RecordsInv'
    BY <1>3, <1>4, <2>2 DEF CustodyInv, RecordsInv, storeVars
  <2>4. GateInv' /\ MoveInv' /\ RestoreInv' /\ PurgeInv'
    BY <1>1, <1>2, <1>4, <1>6, <2>2 DEF GateGoto, GateType, GateInv, MoveInv, Moving, TakenOut, MovingSteps,
       RestoreInv, PurgeInv, PurgeSteps, Kept, storeVars
  <2>5. \A i \in Ids : RecordOf(i)' = RecordOf(i)
    BY <1>4 DEF RecordOf, storeVars
  <2>6. \A i \in Ids \ {p} : Place(i)' = Place(i)
    BY <1>4, <2>2 DEF Place, storeVars
  <2>7. Place(p) = "trash" /\ Place(p)' = "returned" /\ RecordOf(p) \in {"kept", "expired"}
    BY <1>1, <1>2, <1>3, <1>4, <1>6, <2>2 DEF Place, RecordOf, InTrash, Kept, storeVars
  <2>8. CustodyStep
    BY <2>5, <2>6, <2>7, OneMoves
  <2> QED
    BY <1>4, <1>5, <2>1, <2>3, <2>4, <2>8 DEF StoreStep, CustodyInv
<1>7. CASE InProject(p, gate.digest) /\ KeepFiles /\ GateGoto("complete")
  <2>1. FilesType' /\ GateType' /\ UNCHANGED Packages
    BY <1>7 DEF FilesType, GateType, GateGoto, GateSteps, KeepFiles, fileVars, Packages
  <2>2. RecordsInv'
    BY <1>4, <2>1 DEF CustodyInv, RecordsInv, storeVars, Packages
  <2>3. GateInv' /\ MoveInv' /\ RestoreInv' /\ PurgeInv'
    BY <1>1, <1>2, <1>4, <1>7, <2>1 DEF GateGoto, GateType, GateInv, MoveInv, Moving, TakenOut, MovingSteps,
       RestoreInv, PurgeInv, PurgeSteps, Kept, InProject, storeVars, Packages
  <2> QED
    BY <1>4, <1>5, <2>1, <2>2, <2>3, FramedStutters DEF StoreStep, CustodyInv, CustodyStep, storeVars
<1>8. CASE KeepFiles /\ gate' = Idle
  <2>1. FilesType' /\ GateType' /\ Framed
    BY <1>5, <1>8 DEF FilesType, GateType, KeepFiles, fileVars, Packages, Framed, StoreStep
  <2> QED
    BY <1>4, <1>5, <2>1, CustodyFrame, FramedStutters DEF StoreStep, Framed, CustodyStep
<1> QED
  BY <1>2, <1>6, <1>7, <1>8 DEF RestoreExact

\* The restore is recorded once the package is back.
LEMMA FinishRestoreStep ==
    ASSUME Typed, CustodyInv, FinishRestore
    PROVE  Typed' /\ CustodyInv' /\ CustodyStep
<1> USE TypeParts, OldIsKnown, Marks
<1>1. /\ gate.i \in Ids /\ tomb[gate.i].digest # None /\ Kept(gate.i) /\ trash[gate.i] = None
      /\ tomb[gate.i].retention \in {"recoverable", "expired"}
  BY DEF FinishRestore, CustodyInv, RestoreInv
<1>2. PICK p \in Ids : p = gate.i
  BY <1>1
<1>3. p \notin marker /\ purging[p] = "none"
  BY <1>1, <1>2 DEF CustodyInv, RecordsInv, Kept
<1>4. /\ MemoryType' /\ FilesType' /\ UNCHANGED <<Packages, edits>>
      /\ faults' \in 0 .. MaxFaults /\ gate' = Idle /\ GateType' /\ Quiet(gate')
  BY LifecycleAssumption DEF FinishRestore, MemoryType, PlanInv, FilesType, GateType, GateFrame, KeepFiles,
     fileVars, Packages, NoFault, Fault
<1>5. CASE UNCHANGED storeVars
  <2>1. StoreStep /\ Framed
    BY <1>4, <1>5, KeepStore DEF StoreStep, Framed
  <2> QED
    BY <1>4, <2>1, CustodyFrame, FramedStutters DEF StoreStep, Framed, CustodyStep
<1>6. CASE CompleteRestore(p)
  <2>1. /\ tomb' = [tomb EXCEPT ![p].restored = TRUE] /\ tomb[p].retention = "recoverable"
        /\ trans' = trans /\ crashes' = crashes /\ Kept(p)
        /\ row' = [row EXCEPT !.desired = "disabled", !.observed = "disabled", !.tr = 0,
                              !.pending = None, !.host = 0]
    BY <1>6 DEF CompleteRestore
  <2>2. /\ tomb'[p].digest = tomb[p].digest /\ tomb'[p].retention = "recoverable"
        /\ ~tomb'[p].deleted /\ tomb'[p].restored /\ tomb'[p] \in Tombstones
        /\ \A i \in Ids \ {p} : tomb'[i] = tomb[i]
    <3>1. tomb'[p] = [tomb[p] EXCEPT !.restored = TRUE] /\ tomb[p] \in Tombstones
      BY <2>1 DEF StoreType
    <3>2. tomb'[p].digest = tomb[p].digest /\ tomb'[p].retention = "recoverable" /\ tomb'[p].restored
      BY <2>1, <3>1 DEF Tombstones
    <3>3. ~tomb'[p].deleted
      BY <2>1, <3>1 DEF Tombstones, Kept
    <3>4. tomb'[p] \in Tombstones
      BY <3>1 DEF Tombstones
    <3>5. \A i \in Ids \ {p} : tomb'[i] = tomb[i]
      BY <2>1 DEF StoreType
    <3> QED
      BY <3>2, <3>3, <3>4, <3>5
  <2>3. StoreType'
    <3>1. row' \in Rows
      BY <2>1 DEF StoreType, Rows, Desired, Observed
    <3>2. tomb' \in [Ids -> Tombstones]
      BY <2>1, <2>2 DEF StoreType
    <3> QED
      BY <2>1, <3>1, <3>2 DEF StoreType
  <2>4. RecordsInv'
    BY <1>3, <1>4, <2>1, <2>2 DEF CustodyInv, RecordsInv, Packages
  <2>5. GateInv' /\ MoveInv' /\ RestoreInv' /\ PurgeInv'
    BY <1>4 DEF GateInv, MoveInv, Moving, TakenOut, MovingSteps, RestoreInv, PurgeInv, PurgeSteps, Quiet,
       Boundaries
  <2>6. \A i \in Ids : Place(i)' = Place(i)
    BY <1>4, <2>2 DEF Place, Packages
  <2>7. \A i \in Ids \ {p} : RecordOf(i)' = RecordOf(i)
    BY <2>2 DEF RecordOf
  <2>8. Place(p) = "returned" /\ RecordOf(p) = "kept" /\ RecordOf(p)' = "returned"
    <3>1. Place(p) = "returned"
      BY <1>1, <1>2, <1>3 DEF Place
    <3>2. RecordOf(p) = "kept"
      BY <2>1 DEF RecordOf, Kept
    <3>3. RecordOf(p)' = "returned"
      BY <1>1, <1>2, <2>2 DEF RecordOf
    <3> QED
      BY <3>1, <3>2, <3>3
  <2>9. CustodyStep
    BY <2>6, <2>7, <2>8, OneRecorded
  <2> QED
    BY <1>4, <2>3, <2>4, <2>5, <2>9 DEF CustodyInv
<1> QED
  BY <1>2, <1>5, <1>6 DEF FinishRestore

\* A tombstone expires, also while its package is being restored.
LEMMA ExpireTombstoneStep ==
    ASSUME Typed, CustodyInv, NEW i \in Ids, ExpireTombstone(i)
    PROVE  Typed' /\ CustodyInv' /\ CustodyStep
<1> USE TypeParts, OldIsKnown, Marks
<1>1. /\ tomb' = [tomb EXCEPT ![i].retention = "expired"] /\ Kept(i)
      /\ tomb[i].retention = "recoverable" /\ UNCHANGED <<row, trans, crashes>>
  BY DEF ExpireTombstone, Expire
<1>2. /\ tomb'[i].digest = tomb[i].digest /\ tomb'[i].retention = "expired" /\ tomb'[i] \in Tombstones
      /\ tomb'[i].deleted = tomb[i].deleted /\ tomb'[i].restored = tomb[i].restored
      /\ \A j \in Ids \ {i} : tomb'[j] = tomb[j]
  BY <1>1 DEF StoreType, Tombstones, Retention
<1>3. StoreType'
  <2>1. tomb' \in [Ids -> Tombstones]
    BY <1>1, <1>2 DEF StoreType
  <2> QED
    BY <1>1, <2>1 DEF StoreType
<1>4. MemoryType' /\ GateType' /\ FilesType' /\ UNCHANGED <<Packages, gate, edits, faults>>
  BY DEF ExpireTombstone, memVars, MemoryType, PlanInv, GateType, FilesType, fileVars, Packages, NoFault
<1>5. RecordsInv'
  BY <1>1, <1>2, <1>4 DEF CustodyInv, RecordsInv, Packages, Kept
<1>6. GateInv' /\ MoveInv'
  BY <1>1, <1>2, <1>4 DEF CustodyInv, GateInv, MoveInv, Moving, TakenOut, Packages
<1>7. RestoreInv' /\ PurgeInv'
  BY <1>1, <1>2, <1>4 DEF CustodyInv, RestoreInv, PurgeInv, Packages, Kept
<1>8. CustodyStep
  <2>1. \A j \in Ids : Place(j)' = Place(j)
    BY <1>2, <1>4 DEF Place, Packages
  <2>2. \A j \in Ids \ {i} : RecordOf(j)' = RecordOf(j)
    BY <1>2 DEF RecordOf
  <2>3. RecordOf(i) = "kept"
    BY <1>1 DEF RecordOf, Kept
  <2>4. RecordOf(i)' = "expired"
    BY <1>1, <1>2 DEF RecordOf, Kept
  <2> QED
    BY <2>1, <2>2, <2>3, <2>4, OneRecorded
<1> QED
  BY <1>3, <1>4, <1>5, <1>6, <1>7, <1>8 DEF CustodyInv

\* A purge is decided only of an expired tombstone.
LEMMA PurgeStep ==
    ASSUME Typed, CustodyInv, NEW i \in Ids, Purge(i)
    PROVE  Typed' /\ CustodyInv' /\ CustodyStep
<1> USE TypeParts, OldIsKnown, Marks
<1>1. /\ tomb' = [tomb EXCEPT ![i].retention = "purge_pending"] /\ Kept(i)
      /\ tomb[i].retention \in {"expired", "purge_pending"} /\ UNCHANGED <<row, trans, crashes>>
  BY DEF Purge, RequestPurge
<1>2. /\ tomb'[i].digest = tomb[i].digest /\ tomb'[i].retention = "purge_pending"
      /\ tomb'[i] \in Tombstones
      /\ tomb'[i].deleted = tomb[i].deleted /\ tomb'[i].restored = tomb[i].restored
      /\ \A j \in Ids \ {i} : tomb'[j] = tomb[j]
  BY <1>1 DEF StoreType, Tombstones, Retention
<1>3. StoreType'
  <2>1. tomb' \in [Ids -> Tombstones]
    BY <1>1, <1>2 DEF StoreType
  <2> QED
    BY <1>1, <2>1 DEF StoreType
<1>4. MemoryType' /\ FilesType' /\ UNCHANGED <<Packages, edits, faults>>
  BY DEF Purge, GateFrame, MemoryType, PlanInv, FilesType, KeepFiles, fileVars, Packages, NoFault
<1>5. gate'.op \in {"purge", "reconcile"} /\ gate'.step = "mark" /\ gate'.i = i /\ GateType'
  BY DEF Purge, Reconciling, Idle, Call, GateType, GateSteps
<1>6. RecordsInv'
  BY <1>1, <1>2, <1>4 DEF CustodyInv, RecordsInv, Packages, Kept
<1>7. GateInv' /\ MoveInv' /\ RestoreInv' /\ PurgeInv'
  BY <1>1, <1>2, <1>5 DEF GateInv, MoveInv, Moving, TakenOut, MovingSteps, RestoreInv, PurgeInv, Kept
<1>8. CustodyStep
  <2>1. \A j \in Ids : Place(j)' = Place(j)
    BY <1>2, <1>4 DEF Place, Packages
  <2>2. \A j \in Ids \ {i} : RecordOf(j)' = RecordOf(j)
    BY <1>2 DEF RecordOf
  <2>3. RecordOf(i)' = "discarding"
    BY <1>1, <1>2 DEF RecordOf, Kept
  <2>4. CASE tomb[i].retention = "expired"
    <3>1. RecordOf(i) = "expired"
      BY <1>1, <2>4 DEF RecordOf, Kept
    <3> QED
      BY <2>1, <2>2, <2>3, <3>1, OneRecorded
  <2>5. CASE tomb[i].retention = "purge_pending"
    <3>1. tomb' = tomb
      BY <1>1, <2>5 DEF StoreType, Tombstones
    <3> QED
      BY <1>4, <3>1, FramedStutters DEF CustodyStep
  <2> QED
    BY <1>1, <2>4, <2>5
<1> QED
  BY <1>3, <1>4, <1>5, <1>6, <1>7, <1>8 DEF CustodyInv

\* The marker is written before the directory is renamed.
LEMMA PurgeMarksStep ==
    ASSUME Typed, CustodyInv, PurgeMarks
    PROVE  Typed' /\ CustodyInv' /\ CustodyStep
<1> USE TypeParts, OldIsKnown, Marks
<1>1. gate.i \in Ids /\ Kept(gate.i) /\ tomb[gate.i].retention = "purge_pending"
  BY DEF PurgeMarks, CustodyInv, PurgeInv, PurgeSteps
<1>2. PICK p \in Ids : p = gate.i
  BY <1>1
<1>3. UNCHANGED <<storeVars, edits, faults>> /\ MemoryType' /\ StoreStep
  BY KeepStore DEF PurgeMarks, GateFrame, MemoryType, PlanInv, NoFault
<1>4. /\ UNCHANGED <<source, cache, trash, purging>>
      /\ marker' = marker \cup {p} /\ FilesType'
      /\ \/ gate' = [gate EXCEPT !.step = "rename"] /\ trash[p] # None
         \/ gate' = [gate EXCEPT !.step = "purged"] /\ trash[p] = None /\ purging[p] = "none"
         \/ gate' = [gate EXCEPT !.step = "delete"] /\ trash[p] = None
  BY <1>2 DEF PurgeMarks, GateGoto, FilesType
<1>5. GateType' /\ gate'.i = p /\ gate'.op = gate.op /\ gate'.digest = gate.digest
      /\ gate'.step \in {"rename", "purged", "delete"}
  BY <1>2, <1>4 DEF GateType, GateSteps
<1>6. gate.op # "restore" /\ tomb[p].digest # None /\ ~tomb[p].restored
  BY <1>1, <1>2 DEF PurgeMarks, CustodyInv, GateInv, Kept
<1>7. RecordsInv'
  BY <1>1, <1>2, <1>3, <1>4, <1>6 DEF CustodyInv, RecordsInv, storeVars
<1>8. GateInv' /\ MoveInv' /\ RestoreInv'
  BY <1>5, <1>6 DEF CustodyInv, GateInv, MoveInv, Moving, TakenOut, MovingSteps, RestoreInv
<1>9. PurgeInv'
  BY <1>1, <1>2, <1>3, <1>4, <1>5 DEF PurgeInv, GateType, storeVars, Kept
<1>10. CustodyStep
  <2>1. \A i \in Ids : RecordOf(i)' = RecordOf(i)
    BY <1>3 DEF RecordOf, storeVars
  <2>2. \A i \in Ids : i # p => Place(i)' = Place(i)
    BY <1>3, <1>4 DEF Place, storeVars
  <2>3. Place(p)' = Place(p)
    <3>1. CASE trash[p] # None
      BY <1>4, <3>1 DEF Place
    <3>2. CASE trash[p] = None
      <4>1. marker' = marker
        BY <1>2, <3>2 DEF PurgeMarks
      <4> QED
        BY <1>3, <1>4, <4>1 DEF Place, storeVars
    <3> QED
      BY <3>1, <3>2
  <2> QED
    BY <2>1, <2>2, <2>3 DEF CustodyStep, Stutters, Custody!vars
<1> QED
  BY <1>3, <1>4, <1>5, <1>7, <1>8, <1>9, <1>10 DEF StoreStep, CustodyInv

\* The directory is taken out of the trash whole.
LEMMA PurgeRenamesStep ==
    ASSUME Typed, CustodyInv, PurgeRenames
    PROVE  Typed' /\ CustodyInv' /\ CustodyStep
<1> USE TypeParts, OldIsKnown, Marks
<1>1. gate.i \in Ids /\ Kept(gate.i) /\ tomb[gate.i].retention = "purge_pending"
  BY DEF PurgeRenames, CustodyInv, PurgeInv, PurgeSteps
<1>2. PICK p \in Ids : p = gate.i
  BY <1>1
<1>3. UNCHANGED <<storeVars, edits, faults>> /\ MemoryType' /\ StoreStep
  BY KeepStore DEF PurgeRenames, GateFrame, MemoryType, PlanInv, NoFault
<1>4. trash[p] # None /\ p \in marker /\ gate.op # "restore"
  BY <1>2 DEF PurgeRenames, CustodyInv, PurgeInv, PurgeSteps, GateInv
<1>5. /\ UNCHANGED <<source, cache, marker>> /\ FilesType'
      /\ purging'[p] = "whole" /\ trash'[p] = None
      /\ \A i \in Ids \ {p} : purging'[i] = purging[i] /\ trash'[i] = trash[i]
  BY <1>2 DEF PurgeRenames, FilesType
<1>6. GateType' /\ gate'.i = p /\ gate'.op = gate.op /\ gate'.digest = gate.digest
      /\ gate'.step = "delete"
  BY <1>2 DEF PurgeRenames, GateGoto, GateType, GateSteps
<1>7. RecordsInv'
  BY <1>3, <1>4, <1>5 DEF CustodyInv, RecordsInv, storeVars
<1>8. GateInv' /\ MoveInv' /\ RestoreInv'
  BY <1>4, <1>6 DEF CustodyInv, GateInv, MoveInv, Moving, TakenOut, MovingSteps, RestoreInv
<1>9. PurgeInv'
  BY <1>1, <1>2, <1>3, <1>4, <1>5, <1>6 DEF PurgeInv, storeVars, Kept
<1>10. CustodyStep
  <2>1. \A i \in Ids : RecordOf(i)' = RecordOf(i)
    BY <1>3 DEF RecordOf, storeVars
  <2>2. \A i \in Ids : i # p => Place(i)' = Place(i)
    BY <1>3, <1>5 DEF Place, storeVars
  <2>3. Place(p)' = Place(p)
    BY <1>4, <1>5 DEF Place
  <2> QED
    BY <2>1, <2>2, <2>3 DEF CustodyStep, Stutters, Custody!vars
<1> QED
  BY <1>3, <1>5, <1>6, <1>7, <1>8, <1>9, <1>10 DEF StoreStep, CustodyInv

\* The package is gone once its first file is.
LEMMA PurgeDeletesStep ==
    ASSUME Typed, CustodyInv, PurgeDeletes
    PROVE  Typed' /\ CustodyInv' /\ CustodyStep
<1> USE TypeParts, OldIsKnown, Marks
<1>1. gate.i \in Ids /\ Kept(gate.i) /\ tomb[gate.i].retention = "purge_pending"
  BY DEF PurgeDeletes, CustodyInv, PurgeInv, PurgeSteps
<1>2. PICK p \in Ids : p = gate.i
  BY <1>1
<1>3. UNCHANGED <<storeVars, edits, faults>> /\ MemoryType' /\ StoreStep
  BY KeepStore DEF PurgeDeletes, GateFrame, MemoryType, PlanInv, NoFault
<1>4. trash[p] = None /\ p \in marker /\ gate.op # "restore"
  BY <1>2 DEF PurgeDeletes, CustodyInv, PurgeInv, PurgeSteps, GateInv
<1>5. /\ UNCHANGED <<source, cache, trash, marker>> /\ FilesType'
      /\ \A i \in Ids \ {p} : purging'[i] = purging[i]
  BY <1>2 DEF PurgeDeletes, FilesType
<1>6. \/ purging[p] = "whole" /\ purging'[p] = "partial" /\ gate' = gate
      \/ purging[p] = "partial" /\ purging'[p] = "none" /\ gate' = [gate EXCEPT !.step = "purged"]
  BY <1>2 DEF PurgeDeletes, FilesType, GateGoto
<1>7. GateType' /\ gate'.i = p /\ gate'.op = gate.op /\ gate'.digest = gate.digest
      /\ (gate'.step = "delete" \/ (gate'.step = "purged" /\ purging'[p] = "none"))
  BY <1>2, <1>6 DEF PurgeDeletes, GateType, GateSteps
<1>8. RecordsInv'
  BY <1>3, <1>4, <1>5 DEF CustodyInv, RecordsInv, storeVars
<1>9. GateInv' /\ MoveInv' /\ RestoreInv'
  BY <1>4, <1>7 DEF CustodyInv, GateInv, MoveInv, Moving, TakenOut, MovingSteps, RestoreInv
<1>10. PurgeInv'
  BY <1>1, <1>2, <1>3, <1>4, <1>5, <1>7 DEF PurgeInv, storeVars, Kept
<1>11. CustodyStep
  <2>1. \A i \in Ids : RecordOf(i)' = RecordOf(i)
    BY <1>3 DEF RecordOf, storeVars
  <2>2. \A i \in Ids \ {p} : Place(i)' = Place(i)
    BY <1>3, <1>5 DEF Place, storeVars
  <2>3. Place(p)' = "gone"
    BY <1>4, <1>5, <1>6 DEF Place
  <2>4. CASE purging[p] = "whole"
    <3>1. Place(p) = "trash"
      BY <2>4 DEF Place
    <3>2. RecordOf(p) = "discarding"
      BY <1>1, <1>2 DEF RecordOf, Kept
    <3> QED
      BY <2>1, <2>2, <2>3, <3>1, <3>2, OneMoves
  <2>5. CASE purging[p] = "partial"
    <3>1. Place(p) = "gone"
      BY <1>4, <2>5 DEF Place
    <3> QED
      BY <2>1, <2>2, <2>3, <3>1 DEF CustodyStep, Stutters, Custody!vars
  <2> QED
    BY <1>6, <2>4, <2>5
<1> QED
  BY <1>3, <1>5, <1>7, <1>8, <1>9, <1>10, <1>11 DEF StoreStep, CustodyInv

\* The end of a package is recorded after it is gone.
LEMMA FinishPurgeStep ==
    ASSUME Typed, CustodyInv, FinishPurge
    PROVE  Typed' /\ CustodyInv' /\ CustodyStep
<1> USE TypeParts, OldIsKnown, Marks
<1>1. /\ gate.i \in Ids /\ Kept(gate.i) /\ tomb[gate.i].retention = "purge_pending"
      /\ trash[gate.i] = None /\ gate.i \in marker /\ purging[gate.i] = "none"
  BY DEF FinishPurge, CustodyInv, PurgeInv, PurgeSteps
<1>2. PICK p \in Ids : p = gate.i
  BY <1>1
<1>3. /\ tomb' = [tomb EXCEPT ![p].retention = "expired", ![p].deleted = TRUE]
      /\ UNCHANGED <<row, trans, crashes>>
  BY <1>2 DEF FinishPurge, CompletePurge
<1>4. /\ tomb'[p].digest = tomb[p].digest /\ tomb'[p].deleted /\ tomb'[p] \in Tombstones
      /\ tomb'[p].restored = tomb[p].restored
      /\ \A j \in Ids \ {p} : tomb'[j] = tomb[j]
  <2>1. tomb[p] \in Tombstones /\ tomb \in [Ids -> Tombstones]
    BY DEF StoreType
  <2>2. tomb'[p] = [tomb[p] EXCEPT !.retention = "expired", !.deleted = TRUE]
    BY <1>3, <2>1
  <2>3. /\ tomb'[p].digest = tomb[p].digest /\ tomb'[p].deleted
        /\ tomb'[p].restored = tomb[p].restored
    BY <2>1, <2>2 DEF Tombstones
  <2>4. tomb'[p] \in Tombstones
    BY <2>1, <2>2 DEF Tombstones, Retention
  <2>5. \A j \in Ids \ {p} : tomb'[j] = tomb[j]
    BY <1>3, <2>1
  <2> QED
    BY <2>3, <2>4, <2>5
<1>5. StoreType'
  <2>1. tomb' \in [Ids -> Tombstones]
    BY <1>3, <1>4 DEF StoreType
  <2> QED
    BY <1>3, <2>1 DEF StoreType
<1>6. MemoryType' /\ FilesType' /\ UNCHANGED <<Packages, edits, faults>>
  BY DEF FinishPurge, GateFrame, MemoryType, PlanInv, FilesType, KeepFiles, fileVars, Packages, NoFault
<1>7. GateType' /\ Quiet(gate')
  <2>1. gate' = Call("reconcile", "purges", 0, None) \/ gate' = Idle
    BY DEF FinishPurge, GateDone
  <2> QED
    BY <2>1 DEF Call, GateType, GateSteps, Quiet
<1>8. RecordsInv'
  <2> SUFFICES ASSUME NEW j \in Ids
               PROVE  /\ tomb'[j].digest # None => trans[j].kind = "uninstall" /\ trans[j].status = "completed"
                      /\ trans[j].kind = "uninstall" => trans[j].old # None
                      /\ j \in marker => /\ tomb'[j].digest # None /\ ~tomb'[j].restored
                                         /\ tomb'[j].retention = "purge_pending" \/ tomb'[j].deleted
                      /\ purging[j] # "none" => j \in marker /\ trash[j] = None
    BY <1>3, <1>6 DEF RecordsInv, Packages
  <2>1. CASE j = p
    BY <1>1, <1>2, <1>4, <2>1 DEF CustodyInv, RecordsInv, Kept
  <2>2. CASE j # p
    BY <1>4, <2>2 DEF CustodyInv, RecordsInv
  <2> QED
    BY <2>1, <2>2
<1>9. GateInv' /\ MoveInv' /\ RestoreInv' /\ PurgeInv'
  BY <1>7 DEF GateInv, MoveInv, Moving, TakenOut, MovingSteps, RestoreInv, PurgeInv, PurgeSteps, Quiet,
     Boundaries
<1>10. CustodyStep
  <2>1. \A j \in Ids : Place(j)' = Place(j)
    BY <1>4, <1>6 DEF Place, Packages
  <2>2. \A j \in Ids \ {p} : RecordOf(j)' = RecordOf(j)
    BY <1>4 DEF RecordOf
  <2>3. Place(p) = "gone"
    BY <1>1, <1>2 DEF Place
  <2>4. RecordOf(p) = "discarding"
    BY <1>1, <1>2 DEF RecordOf, Kept
  <2>5. RecordOf(p)' = "discarded"
    BY <1>1, <1>2, <1>4 DEF RecordOf, Kept
  <2> QED
    BY <2>1, <2>2, <2>3, <2>4, <2>5, OneRecorded
<1> QED
  BY <1>5, <1>6, <1>7, <1>8, <1>9, <1>10 DEF CustodyInv

-----------------------------------------------------------------------------
(* All steps together *)

\* A step that only frames the packages stutters and keeps what is known of them.
LEMMA FramedKeeps ==
    ASSUME CustodyInv, Framed
    PROVE  CustodyInv' /\ CustodyStep
BY CustodyFrame, FramedStutters DEF Framed, CustodyStep

\* Nothing is moved, recorded or started yet.
LEMMA InitInv ==
    ASSUME Init
    PROVE  Typed /\ CustodyInv /\ StoppedInv /\ Custody!Init
<1> USE Marks
<1>1. StoreType
  <2>1. NoRow \in Rows /\ NoTransition \in Transitions /\ NoTombstone \in Tombstones
    BY PhaseNames DEF NoRow, Rows, Desired, Observed, NoTransition, Transitions, NoTombstone, Tombstones,
       Retention
  <2> QED
    BY <2>1 DEF Init, StoreInit, StoreType, CrashLimit
<1>2. MemoryType /\ GateType /\ FilesType
  <2>1. lane.op \notin Activations
    BY DEF Init, Idle, Call, Activations, Recoveries, Replacements
  <2>2. MemoryType
    BY <2>1 DEF Init, MemoryType, PlanInv
  <2>3. GateType /\ FilesType
    BY DEF Init, GateType, FilesType, Optional
  <2> QED
    BY <2>2, <2>3
<1>3. edits \in 0 .. MaxEdits /\ faults \in 0 .. MaxFaults
  BY LifecycleAssumption DEF Init
<1>4. Typed
  BY <1>1, <1>2, <1>3, TypeParts
<1>5. RecordsInv
  BY DEF Init, StoreInit, RecordsInv, NoTransition, NoTombstone
<1>6. GateInv /\ MoveInv /\ RestoreInv /\ PurgeInv
  BY DEF Init, GateInv, MoveInv, Moving, TakenOut, MovingSteps, RestoreInv, PurgeInv, PurgeSteps, Idle, Call,
     Boundaries
<1>7. StoppedInv
  <2>1. /\ lane.op \notin Activations /\ lane.op # "retry" /\ pend.op # "retry"
        /\ active = NoHost /\ dead = NoHost /\ pend = NoPending
        /\ active.host = 0 /\ dead.host = 0 /\ row.gen = 0 /\ row.observed # "crashed"
    BY DEF Init, StoreInit, NoRow, Idle, Call, Activations, Recoveries, Replacements, NoHost, Host, NoPending,
       Pending
  <2> QED
    BY <2>1 DEF StoppedInv, DisabledInv, Stopped, Activating, HostsInv, Allocated, CrashedInv
<1>8. Custody!Init
  <2>1. \A i \in Ids : Place(i) = "project" /\ RecordOf(i) = "none"
    BY DEF Init, StoreInit, Place, RecordOf, NoTombstone
  <2> QED
    BY <2>1 DEF Custody!Init
<1> QED
  BY <1>4, <1>5, <1>6, <1>7, <1>8 DEF CustodyInv

\* Every step keeps the types and what is known of the packages, and is a step of
\* PackageCustody or leaves it alone.
LEMMA CustodyNext ==
    ASSUME Typed, CustodyInv, [Next]_vars
    PROVE  Typed' /\ CustodyInv' /\ CustodyStep
<1>1. CASE LaneStep
  <2>1. ASSUME \/ Preflight
        \/ Prepare
        \/ Ask
        \/ Planned
        \/ AllocateGeneration
        \/ GrantsReady
        \/ CandidateActivated
        \/ SwapPointer
        \/ Commit
        \/ CloseOpen
        \/ RequestTeardown
        \/ TeardownPhase
        \/ TeardownCompletes
        \/ RecordUncertain
        \/ Judge
        \/ Reactivate
        \/ PersistBlock
        \/ FinishBlock
        PROVE  Typed' /\ Framed
    BY <2>1, PreflightStep, PrepareStep, AskStep, PlannedStep, AllocateGenerationStep,
       GrantsReadyStep, CandidateActivatedStep, SwapPointerStep, CommitStep, CloseOpenStep,
       RequestTeardownStep, TeardownPhaseStep, TeardownCompletesStep, RecordUncertainStep,
       JudgeStep, ReactivateStep, PersistBlockStep, FinishBlockStep
  <2> QED
    BY <1>1, <2>1, FramedKeeps DEF LaneStep
<1>2. CASE GateStep
  <2>1. ASSUME \/ UninstallDisables
        \/ UninstallRechecks
        \/ UninstallFails
        \/ PurgeFails
        \/ BoundaryTearsDown
        \/ RecoverReplacement
        \/ RecoveryGoesOn
        \/ ReconcileDiscovers
        PROVE  Typed' /\ Framed
    BY <2>1, UninstallDisablesStep, UninstallRechecksStep, UninstallFailsStep, PurgeFailsStep,
       BoundaryTearsDownStep, RecoverReplacementStep, RecoveryGoesOnStep, ReconcileDiscoversStep
  <2>2. ASSUME \/ UninstallRequests
        \/ MoveExact
        \/ RecordMoved
        \/ FinishUninstall
        \/ RestoreExact
        \/ FinishRestore
        \/ PurgeMarks
        \/ PurgeRenames
        \/ PurgeDeletes
        \/ FinishPurge
        \/ RecoverUninstall
        PROVE  Typed' /\ CustodyInv' /\ CustodyStep
    BY <2>2, UninstallRequestsStep, MoveExactStep, RecordMovedStep, FinishUninstallStep,
       RestoreExactStep, FinishRestoreStep, PurgeMarksStep, PurgeRenamesStep, PurgeDeletesStep,
       FinishPurgeStep, RecoverUninstallStep
  <2> QED
    BY <1>2, <2>1, <2>2, FramedKeeps DEF GateStep
<1>3. CASE Calls
  <2>1. ASSUME \/ EnableDiscovers
        \/ Enable
        \/ Retry
        \/ Update
        \/ Rollback
        \/ Disable
        \/ Uninstall
        \/ (\E d \in {"granted", "denied"} : Answer(d))
        \/ ActivatePending
        \/ (\E kind \in Boundaries : Boundary(kind))
        \/ (\E d \in Optional : Edit(d))
        PROVE  Typed' /\ Framed
    BY <2>1, EnableDiscoversStep, EnableStep, RetryStep, UpdateStep, RollbackStep, DisableStep,
       UninstallStep, AnswerStep, ActivatePendingStep, BoundaryStep, EditStep
  <2>2. ASSUME \/ (\E i \in Ids : Restore(i))
        \/ (\E i \in Ids : ExpireTombstone(i))
        \/ (\E i \in Ids : Purge(i))
        PROVE  Typed' /\ CustodyInv' /\ CustodyStep
    BY <2>2, RestoreStep, ExpireTombstoneStep, PurgeStep
  <2> QED
    BY <1>3, <2>1, <2>2, FramedKeeps DEF Calls
<1>4. CASE Failures
  <2>1. ASSUME \/ ActivationFails
        \/ PublishFails
        \/ TeardownUncertain
        \/ TeardownRefused
        \/ DiscoveryFails
        \/ BlockFails
        \/ Die
        \/ HostFails
        \/ CrashRecorded
        \/ TenMinutes
        PROVE  Typed' /\ Framed
    BY <2>1, ActivationFailsStep, PublishFailsStep, TeardownUncertainStep, TeardownRefusedStep,
       DiscoveryFailsStep, BlockFailsStep, DieStep, HostFailsStep, CrashRecordedStep, TenMinutesStep
  <2> QED
    BY <1>4, <2>1, FramedKeeps DEF Failures
<1>5. CASE UNCHANGED vars
  <2>1. UNCHANGED <<storeVars, memVars, gate, fileVars, edits, faults>>
    BY <1>5 DEF vars
  <2>2. Typed'
    BY <2>1 DEF Typed, TypeOK, PlanInv, storeVars, memVars, fileVars
  <2>3. Framed
    BY <2>1, OldIsKnown DEF Framed, Grows, KnownOld, Packages, storeVars, fileVars
  <2> QED
    BY <2>2, <2>3, FramedKeeps
<1> QED
  BY <1>1, <1>2, <1>3, <1>4, <1>5 DEF Next

\* The store, the registry, the files and the calls in flight keep their types.
THEOREM TypeCorrect == Spec => []TypeOK
<1>1. Init => Typed /\ CustodyInv
  BY InitInv
<1>2. Typed /\ CustodyInv /\ [Next]_vars => Typed' /\ CustodyInv'
  BY CustodyNext
<1>3. Typed => TypeOK
  BY DEF Typed
<1> QED
  BY <1>1, <1>2, <1>3, PTL DEF Spec

\* Uninstall, restore and purge keep the promises of PackageCustody over the steps they
\* really take, however many packages there are and whatever fails or dies between two steps.
THEOREM CustodyImplemented == Spec => CustodySpec
<1>1. Init => Typed /\ CustodyInv /\ Custody!Init
  BY InitInv
<1>2. Typed /\ CustodyInv /\ [Next]_vars => Typed' /\ CustodyInv' /\ [Custody!Next]_(Custody!vars)
  BY CustodyNext DEF CustodyStep, Stutters
<1> QED
  BY <1>1, <1>2, PTL DEF Spec, CustodySpec, Custody!Spec

-----------------------------------------------------------------------------
(* What starts, stops or waits *)

\* The row still says what it said of the hosts.
RowStill ==
    /\ row'.gen = row.gen /\ row'.host \in {row.host, 0}
    /\ row'.desired \in {row.desired, "enabled"}
    /\ row'.observed = "crashed" => row.observed = "crashed"

\* Nothing is started, and who may start something is who could before.
CallsStill ==
    /\ active' \in {active, NoHost} /\ dead' \in {dead, NoHost}
    /\ pend' = NoPending \/ (pend # NoPending /\ pend'.op = pend.op)
    /\ gate'.op = "restore" => gate.op = "restore"
    /\ Activating' => Activating
    /\ Allocated' => Allocated
    /\ lane'.op = "retry" /\ lane'.step # "commit" => lane.op = "retry" /\ lane.step # "commit"
    /\ \/ pend' = NoPending \/ lane' = lane
       \/ ~(lane.op \in Activations /\ lane.step = "commit")

\* The hosts, the marks and the row are of their types.
LEMMA HostTypes ==
    ASSUME Typed
    PROVE  /\ row \in Rows /\ row.gen \in Nat /\ row.host \in Nat
           /\ active.host \in Nat /\ dead.host \in Nat
           /\ NoHost.host = 0 /\ NoPending.op = "none" /\ Idle.op = "none" /\ Idle.step = "none"
           /\ "retry" \in Activations /\ "none" \notin Activations
           /\ \A op \in Teardowns : op \notin Activations
BY DEF Typed, TypeOK, Rows, NoHost, Host, NoPending, Idle, Call, Activations, Recoveries, Replacements,
   Teardowns, Boundaries

\* A step that starts nothing and keeps the row keeps what is stopped so.
LEMMA StoppedFrame ==
    ASSUME Typed, StoppedInv, RowStill, CallsStill
    PROVE  StoppedInv'
<1> USE HostTypes
<1>1. DisabledInv'
  BY DEF StoppedInv, DisabledInv, Stopped, RowStill, CallsStill
<1>2. HostsInv'
  BY DEF StoppedInv, HostsInv, RowStill, CallsStill
<1>3. CrashedInv'
  BY DEF StoppedInv, CrashedInv, RowStill, CallsStill
<1> QED
  BY <1>1, <1>2, <1>3 DEF StoppedInv

\* A refused write keeps the row.
LEMMA RowKept ==
    ASSUME UNCHANGED storeVars
    PROVE  RowStill
BY DEF storeVars, RowStill

\* A transition that moves on without a new host keeps what the row says of hosts.
LEMMA RowAdvanced ==
    ASSUME Typed, NEW i, NEW from, NEW to, NEW status, NEW observed, observed # "crashed",
           Advance(i, from, to, status, observed, 0)
    PROVE  RowStill
BY HostTypes DEF Advance, Rows, RowStill

\* A failed transition shows no crash of its own.
LEMMA RowFailed ==
    ASSUME Typed, NEW i, NEW observed, observed # "crashed", NEW rec, Fail(i, observed, rec)
    PROVE  RowStill
BY HostTypes, RowKept DEF Fail, Rows, RowStill

\* A discovered package changes what is pending and no host.
LEMMA RowDiscovered ==
    ASSUME Typed, NEW d, Discover(d)
    PROVE  RowStill
BY HostTypes DEF Discover, Rows, RowStill

\* A request other than a disable or an uninstall wants the plugin enabled, or keeps what was wanted.
LEMMA RowRequested ==
    ASSUME Typed, NEW i, NEW kind \in Kinds \ {"disable", "uninstall"}, NEW old, NEW cand,
           Request(i, kind, old, cand)
    PROVE  RowStill
<1>1. DesiredFor(kind, row.desired) \in {row.desired, "enabled"}
  BY DEF DesiredFor, Kinds, Boundaries, Replacements
<1>2. row' = [row EXCEPT !.desired = DesiredFor(kind, row.desired), !.tr = i,
                         !.pending = Or(cand, row.pending)]
  BY HostTypes DEF Request, Rows
<1> QED
  BY <1>1, <1>2, HostTypes DEF Rows, RowStill

\* A required recovery blocks the row.
LEMMA RowBlocked ==
    ASSUME Typed, NEW i, RequireRecovery(i)
    PROVE  RowStill
BY HostTypes DEF RequireRecovery, Rows, RowStill

\* Preflight starts nothing.
LEMMA PreflightStops ==
    ASSUME Typed, StoppedInv, Preflight
    PROVE  StoppedInv'
<1>1. RowStill
  BY RowAdvanced DEF Preflight, Step, Preparing
<1>2. CallsStill
  BY HostTypes DEF Preflight, Step, Goto, KeepRest, CallsStill, Activating, Allocated,
     ActivatingSteps
<1> QED
  BY <1>1, <1>2, StoppedFrame

\* Prepare starts nothing.
LEMMA PrepareStops ==
    ASSUME Typed, StoppedInv, Prepare
    PROVE  StoppedInv'
<1>1. RowStill
  BY RowAdvanced DEF Prepare, Step, Preparing
<1>2. CallsStill
  BY HostTypes DEF Prepare, Step, Goto, KeepRest, CallsStill, Activating, Allocated, ActivatingSteps
<1> QED
  BY <1>1, <1>2, StoppedFrame

\* Planned starts nothing.
LEMMA PlannedStops ==
    ASSUME Typed, StoppedInv, Planned
    PROVE  StoppedInv'
<1>1. RowStill
  BY RowKept DEF Planned, Step
<1>2. CallsStill
  BY HostTypes DEF Planned, Step, Goto, KeepRest, CallsStill, Activating, Allocated, ActivatingSteps
<1> QED
  BY <1>1, <1>2, StoppedFrame

\* GrantsReady starts nothing.
LEMMA GrantsReadyStops ==
    ASSUME Typed, StoppedInv, GrantsReady
    PROVE  StoppedInv'
<1>1. RowStill
  BY RowAdvanced DEF GrantsReady, Step
<1>2. CallsStill
  BY HostTypes DEF GrantsReady, Step, Goto, KeepRest, CallsStill, Activating, Allocated,
     ActivatingSteps
<1> QED
  BY <1>1, <1>2, StoppedFrame

\* CloseOpen starts nothing.
LEMMA CloseOpenStops ==
    ASSUME Typed, StoppedInv, CloseOpen
    PROVE  StoppedInv'
<1>1. RowStill
  BY RowFailed DEF CloseOpen
<1>2. CallsStill
  BY HostTypes DEF CloseOpen, Goto, TeardownFrame, CallsStill, Activating, Allocated,
     ActivatingSteps
<1> QED
  BY <1>1, <1>2, StoppedFrame

\* TeardownPhase starts nothing.
LEMMA TeardownPhaseStops ==
    ASSUME Typed, StoppedInv, TeardownPhase
    PROVE  StoppedInv'
<1>1. RowStill
  <2>1. Teardown[lane.step].shows # "crashed"
    BY DEF TeardownPhase, Teardown
  <2> QED
    BY <2>1, RowAdvanced DEF TeardownPhase
<1>2. CallsStill
  BY HostTypes DEF TeardownPhase, Goto, TeardownFrame, CallsStill, Activating, Allocated,
     ActivatingSteps
<1> QED
  BY <1>1, <1>2, StoppedFrame

\* TeardownCompletes starts nothing.
LEMMA TeardownCompletesStops ==
    ASSUME Typed, StoppedInv, TeardownCompletes
    PROVE  StoppedInv'
<1>1. RowStill
  BY RowAdvanced DEF TeardownCompletes
<1>2. CallsStill
  BY HostTypes DEF TeardownCompletes, TeardownEnds, GateResumes, Call, TeardownFrame, CallsStill,
     Activating, Allocated, ActivatingSteps, Typed, TypeOK
<1> QED
  BY <1>1, <1>2, StoppedFrame

\* TeardownUncertain starts nothing.
LEMMA TeardownUncertainStops ==
    ASSUME Typed, StoppedInv, TeardownUncertain
    PROVE  StoppedInv'
<1>1. RowStill
  BY RowKept DEF TeardownUncertain
<1>2. CallsStill
  BY HostTypes DEF TeardownUncertain, Goto, TeardownFrame, CallsStill, Activating, Allocated,
     ActivatingSteps
<1> QED
  BY <1>1, <1>2, StoppedFrame

\* RecordUncertain starts nothing.
LEMMA RecordUncertainStops ==
    ASSUME Typed, StoppedInv, RecordUncertain
    PROVE  StoppedInv'
<1>1. RowStill
  BY RowKept, RowAdvanced DEF RecordUncertain
<1>2. CallsStill
  BY HostTypes DEF RecordUncertain, TeardownEnds, GateResumes, Call, TeardownFrame, CallsStill,
     Activating, Allocated, ActivatingSteps, Typed, TypeOK
<1> QED
  BY <1>1, <1>2, StoppedFrame

\* TeardownRefused starts nothing.
LEMMA TeardownRefusedStops ==
    ASSUME Typed, StoppedInv, TeardownRefused
    PROVE  StoppedInv'
<1>1. RowStill
  BY RowKept DEF TeardownRefused
<1>2. CallsStill
  BY HostTypes DEF TeardownRefused, GateResumes, Call, TeardownFrame, CallsStill, Activating,
     Allocated, ActivatingSteps, Typed, TypeOK
<1> QED
  BY <1>1, <1>2, StoppedFrame

\* Disable starts nothing.
LEMMA DisableStops ==
    ASSUME Typed, StoppedInv, Disable
    PROVE  StoppedInv'
<1>1. RowStill
  BY RowKept DEF Disable
<1>2. CallsStill
  BY HostTypes DEF Disable, BeginTeardown, Call, Locks, TeardownFrame, CallsStill, Activating,
     Allocated, ActivatingSteps
<1> QED
  BY <1>1, <1>2, StoppedFrame

\* EnableDiscovers starts nothing.
LEMMA EnableDiscoversStops ==
    ASSUME Typed, StoppedInv, EnableDiscovers
    PROVE  StoppedInv'
<1>1. RowStill
  BY RowDiscovered DEF EnableDiscovers
<1>2. CallsStill
  BY HostTypes DEF EnableDiscovers, KeepOthers, CallsStill, Activating, Allocated, ActivatingSteps
<1> QED
  BY <1>1, <1>2, StoppedFrame

\* Uninstall starts nothing.
LEMMA UninstallStops ==
    ASSUME Typed, StoppedInv, Uninstall
    PROVE  StoppedInv'
<1>1. RowStill
  BY RowKept DEF Uninstall
<1>2. CallsStill
  BY HostTypes DEF Uninstall, Call, GateFrame, CallsStill, Activating, Allocated, ActivatingSteps
<1> QED
  BY <1>1, <1>2, StoppedFrame

\* UninstallDisables starts nothing.
LEMMA UninstallDisablesStops ==
    ASSUME Typed, StoppedInv, UninstallDisables
    PROVE  StoppedInv'
<1>1. RowStill
  BY RowKept DEF UninstallDisables
<1>2. CallsStill
  BY HostTypes DEF UninstallDisables, BeginTeardown, GateGoto, Call, Locks, GateFrame, CallsStill,
     Activating, Allocated, ActivatingSteps, Typed, TypeOK
<1> QED
  BY <1>1, <1>2, StoppedFrame

\* UninstallRechecks starts nothing.
LEMMA UninstallRechecksStops ==
    ASSUME Typed, StoppedInv, UninstallRechecks
    PROVE  StoppedInv'
<1>1. RowStill
  BY RowKept DEF UninstallRechecks
<1>2. CallsStill
  BY HostTypes DEF UninstallRechecks, GateFrame, CallsStill, Activating, Allocated, ActivatingSteps,
     Typed, TypeOK
<1> QED
  BY <1>1, <1>2, StoppedFrame

\* MoveExact starts nothing.
LEMMA MoveExactStops ==
    ASSUME Typed, StoppedInv, MoveExact
    PROVE  StoppedInv'
<1>1. RowStill
  BY RowKept DEF MoveExact
<1>2. CallsStill
  BY HostTypes DEF MoveExact, GateFrame, CallsStill, Activating, Allocated, ActivatingSteps, Typed,
     TypeOK
<1> QED
  BY <1>1, <1>2, StoppedFrame

\* RecordMoved starts nothing.
LEMMA RecordMovedStops ==
    ASSUME Typed, StoppedInv, RecordMoved
    PROVE  StoppedInv'
<1>1. RowStill
  BY RowAdvanced DEF RecordMoved
<1>2. CallsStill
  BY HostTypes DEF RecordMoved, GateGoto, GateFrame, CallsStill, Activating, Allocated,
     ActivatingSteps, Typed, TypeOK
<1> QED
  BY <1>1, <1>2, StoppedFrame

\* FinishUninstall starts nothing.
LEMMA FinishUninstallStops ==
    ASSUME Typed, StoppedInv, FinishUninstall
    PROVE  StoppedInv'
<1>1. RowStill
  BY HostTypes DEF FinishUninstall, CompleteUninstall, Rows, RowStill
<1>2. CallsStill
  BY HostTypes DEF FinishUninstall, GateDone, Call, GateFrame, CallsStill, Activating, Allocated,
     ActivatingSteps
<1> QED
  BY <1>1, <1>2, StoppedFrame

\* UninstallFails starts nothing.
LEMMA UninstallFailsStops ==
    ASSUME Typed, StoppedInv, UninstallFails
    PROVE  StoppedInv'
<1>1. RowStill
  BY RowKept, RowBlocked DEF UninstallFails
<1>2. CallsStill
  BY HostTypes DEF UninstallFails, Call, GateFrame, CallsStill, Activating, Allocated,
     ActivatingSteps
<1> QED
  BY <1>1, <1>2, StoppedFrame

\* RestoreExact starts nothing.
LEMMA RestoreExactStops ==
    ASSUME Typed, StoppedInv, RestoreExact
    PROVE  StoppedInv'
<1>1. RowStill
  BY RowKept DEF RestoreExact
<1>2. CallsStill
  BY HostTypes DEF RestoreExact, GateGoto, GateFrame, CallsStill, Activating, Allocated,
     ActivatingSteps, Typed, TypeOK
<1> QED
  BY <1>1, <1>2, StoppedFrame

\* ExpireTombstone starts nothing.
LEMMA ExpireTombstoneStops ==
    ASSUME Typed, StoppedInv, NEW i \in Ids, ExpireTombstone(i)
    PROVE  StoppedInv'
<1>1. RowStill
  BY DEF ExpireTombstone, Expire, RowStill
<1>2. CallsStill
  BY HostTypes DEF ExpireTombstone, memVars, CallsStill, Activating, Allocated, ActivatingSteps
<1> QED
  BY <1>1, <1>2, StoppedFrame

\* Purge starts nothing.
LEMMA PurgeStops ==
    ASSUME Typed, StoppedInv, NEW i \in Ids, Purge(i)
    PROVE  StoppedInv'
<1>1. RowStill
  BY DEF Purge, RequestPurge, RowStill
<1>2. CallsStill
  BY HostTypes DEF Purge, GateFrame, CallsStill, Activating, Allocated, ActivatingSteps, Typed,
     TypeOK
<1> QED
  BY <1>1, <1>2, StoppedFrame

\* PurgeMarks starts nothing.
LEMMA PurgeMarksStops ==
    ASSUME Typed, StoppedInv, PurgeMarks
    PROVE  StoppedInv'
<1>1. RowStill
  BY RowKept DEF PurgeMarks
<1>2. CallsStill
  BY HostTypes DEF PurgeMarks, GateGoto, GateFrame, CallsStill, Activating, Allocated,
     ActivatingSteps, Typed, TypeOK
<1> QED
  BY <1>1, <1>2, StoppedFrame

\* PurgeRenames starts nothing.
LEMMA PurgeRenamesStops ==
    ASSUME Typed, StoppedInv, PurgeRenames
    PROVE  StoppedInv'
<1>1. RowStill
  BY RowKept DEF PurgeRenames
<1>2. CallsStill
  BY HostTypes DEF PurgeRenames, GateGoto, GateFrame, CallsStill, Activating, Allocated,
     ActivatingSteps, Typed, TypeOK
<1> QED
  BY <1>1, <1>2, StoppedFrame

\* PurgeDeletes starts nothing.
LEMMA PurgeDeletesStops ==
    ASSUME Typed, StoppedInv, PurgeDeletes
    PROVE  StoppedInv'
<1>1. RowStill
  BY RowKept DEF PurgeDeletes
<1>2. CallsStill
  BY HostTypes DEF PurgeDeletes, GateGoto, GateFrame, CallsStill, Activating, Allocated,
     ActivatingSteps, Typed, TypeOK
<1> QED
  BY <1>1, <1>2, StoppedFrame

\* FinishPurge starts nothing.
LEMMA FinishPurgeStops ==
    ASSUME Typed, StoppedInv, FinishPurge
    PROVE  StoppedInv'
<1>1. RowStill
  BY DEF FinishPurge, CompletePurge, RowStill
<1>2. CallsStill
  BY HostTypes DEF FinishPurge, GateDone, Call, GateFrame, CallsStill, Activating, Allocated,
     ActivatingSteps
<1> QED
  BY <1>1, <1>2, StoppedFrame

\* PurgeFails starts nothing.
LEMMA PurgeFailsStops ==
    ASSUME Typed, StoppedInv, PurgeFails
    PROVE  StoppedInv'
<1>1. RowStill
  BY RowKept DEF PurgeFails
<1>2. CallsStill
  BY HostTypes DEF PurgeFails, GateDone, Call, GateFrame, CallsStill, Activating, Allocated,
     ActivatingSteps
<1> QED
  BY <1>1, <1>2, StoppedFrame

\* Boundary starts nothing.
LEMMA BoundaryStops ==
    ASSUME Typed, StoppedInv, NEW kind \in Boundaries, Boundary(kind)
    PROVE  StoppedInv'
<1>1. RowStill
  BY RowKept DEF Boundary
<1>2. CallsStill
  BY HostTypes DEF Boundary, Call, GateFrame, Boundaries, CallsStill, Activating, Allocated,
     ActivatingSteps
<1> QED
  BY <1>1, <1>2, StoppedFrame

\* BoundaryTearsDown starts nothing.
LEMMA BoundaryTearsDownStops ==
    ASSUME Typed, StoppedInv, BoundaryTearsDown
    PROVE  StoppedInv'
<1>1. RowStill
  BY RowKept DEF BoundaryTearsDown
<1>2. CallsStill
  BY HostTypes DEF BoundaryTearsDown, BeginTeardown, GateGoto, Call, Locks, GateFrame, CallsStill,
     Activating, Allocated, ActivatingSteps, Typed, TypeOK, Boundaries
<1> QED
  BY <1>1, <1>2, StoppedFrame

\* RecoverUninstall starts nothing.
LEMMA RecoverUninstallStops ==
    ASSUME Typed, StoppedInv, RecoverUninstall
    PROVE  StoppedInv'
<1>1. RowStill
  BY RowKept, RowBlocked DEF RecoverUninstall
<1>2. CallsStill
  BY HostTypes DEF RecoverUninstall, Call, GateFrame, CallsStill, Activating, Allocated,
     ActivatingSteps
<1> QED
  BY <1>1, <1>2, StoppedFrame

\* RecoverReplacement starts nothing.
LEMMA RecoverReplacementStops ==
    ASSUME Typed, StoppedInv, RecoverReplacement
    PROVE  StoppedInv'
<1>1. RowStill
  BY RowFailed DEF RecoverReplacement
<1>2. CallsStill
  BY HostTypes DEF RecoverReplacement, GateFrame, CallsStill, Activating, Allocated, ActivatingSteps
<1> QED
  BY <1>1, <1>2, StoppedFrame

\* RecoveryGoesOn starts nothing.
LEMMA RecoveryGoesOnStops ==
    ASSUME Typed, StoppedInv, RecoveryGoesOn
    PROVE  StoppedInv'
<1>1. RowStill
  BY RowKept DEF RecoveryGoesOn
<1>2. CallsStill
  BY HostTypes DEF RecoveryGoesOn, GateGoto, GateFrame, CallsStill, Activating, Allocated,
     ActivatingSteps, Typed, TypeOK
<1> QED
  BY <1>1, <1>2, StoppedFrame

\* ReconcileDiscovers starts nothing.
LEMMA ReconcileDiscoversStops ==
    ASSUME Typed, StoppedInv, ReconcileDiscovers
    PROVE  StoppedInv'
<1>1. RowStill
  BY RowKept, RowDiscovered DEF ReconcileDiscovers
<1>2. CallsStill
  BY HostTypes DEF ReconcileDiscovers, Locks, Call, CallsStill, Activating, Allocated,
     ActivatingSteps
<1> QED
  BY <1>1, <1>2, StoppedFrame

\* DiscoveryFails starts nothing.
LEMMA DiscoveryFailsStops ==
    ASSUME Typed, StoppedInv, DiscoveryFails
    PROVE  StoppedInv'
<1>1. RowStill
  BY RowKept DEF DiscoveryFails
<1>2. CallsStill
  BY HostTypes DEF DiscoveryFails, CallsStill, Activating, Allocated, ActivatingSteps
<1> QED
  BY <1>1, <1>2, StoppedFrame

\* Judge starts nothing.
LEMMA JudgeStops ==
    ASSUME Typed, StoppedInv, Judge
    PROVE  StoppedInv'
<1>1. RowStill
  BY RowKept, RowFailed DEF Judge
<1>2. CallsStill
  BY HostTypes DEF Judge, Call, CallsStill, Activating, Allocated, ActivatingSteps
<1> QED
  BY <1>1, <1>2, StoppedFrame

\* PersistBlock starts nothing.
LEMMA PersistBlockStops ==
    ASSUME Typed, StoppedInv, PersistBlock
    PROVE  StoppedInv'
<1>1. RowStill
  <2>1. "enable" \in Kinds \ {"disable", "uninstall"}
    BY DEF Kinds
  <2> QED
    BY <2>1, RowKept, RowFailed, RowRequested DEF PersistBlock
<1>2. CallsStill
  BY HostTypes DEF PersistBlock, BlockEnds, BlockFrame, CallsStill, Activating, Allocated,
     ActivatingSteps
<1> QED
  BY <1>1, <1>2, StoppedFrame

\* FinishBlock starts nothing.
LEMMA FinishBlockStops ==
    ASSUME Typed, StoppedInv, FinishBlock
    PROVE  StoppedInv'
<1>1. RowStill
  BY RowFailed DEF FinishBlock
<1>2. CallsStill
  BY HostTypes DEF FinishBlock, BlockEnds, BlockFrame, CallsStill, Activating, Allocated,
     ActivatingSteps
<1> QED
  BY <1>1, <1>2, StoppedFrame

\* BlockFails starts nothing.
LEMMA BlockFailsStops ==
    ASSUME Typed, StoppedInv, BlockFails
    PROVE  StoppedInv'
<1>1. RowStill
  BY RowKept DEF BlockFails
<1>2. CallsStill
  BY HostTypes DEF BlockFails, BlockEnds, BlockFrame, CallsStill, Activating, Allocated,
     ActivatingSteps
<1> QED
  BY <1>1, <1>2, StoppedFrame

\* TenMinutes starts nothing.
LEMMA TenMinutesStops ==
    ASSUME Typed, StoppedInv, TenMinutes
    PROVE  StoppedInv'
<1>1. RowStill
  BY DEF TenMinutes, Forget, RowStill
<1>2. CallsStill
  BY HostTypes DEF TenMinutes, memVars, CallsStill, Activating, Allocated, ActivatingSteps
<1> QED
  BY <1>1, <1>2, StoppedFrame

\* Edit starts nothing.
LEMMA EditStops ==
    ASSUME Typed, StoppedInv, NEW d \in Optional, Edit(d)
    PROVE  StoppedInv'
<1>1. RowStill
  BY RowKept DEF Edit
<1>2. CallsStill
  BY HostTypes DEF Edit, memVars, CallsStill, Activating, Allocated, ActivatingSteps
<1> QED
  BY <1>1, <1>2, StoppedFrame

\* Answer starts nothing.
LEMMA AnswerStops ==
    ASSUME Typed, StoppedInv, NEW decision, Answer(decision)
    PROVE  StoppedInv'
<1>1. RowStill
  BY RowKept DEF Answer
<1>2. CallsStill
  BY HostTypes DEF Answer, KeepOthers, CallsStill, Activating, Allocated, ActivatingSteps, Typed,
     TypeOK
<1> QED
  BY <1>1, <1>2, StoppedFrame

\* Die starts nothing.
LEMMA DieStops ==
    ASSUME Typed, StoppedInv, Die
    PROVE  StoppedInv'
<1>1. RowStill
  BY RowKept DEF Die
<1>2. CallsStill
  BY HostTypes DEF Die, Call, CallsStill, Activating, Allocated, ActivatingSteps
<1> QED
  BY <1>1, <1>2, StoppedFrame

\* A request that starts an activation, of which the plugin is wanted enabled.
LEMMA BeginStops ==
    ASSUME Typed, StoppedInv, lane = Idle \/ lane.step = "reactivate",
           NEW op \in Activations, NEW kind \in Kinds \ ({"disable", "uninstall"} \cup Boundaries),
           NEW old, NEW d, Begin(op, kind, old, d),
           active' \in {active, NoHost}, dead' = dead, pend' \in {pend, NoPending},
           op = "retry" => active = NoHost
    PROVE  StoppedInv'
<1> USE HostTypes
<1>1. /\ row'.gen = row.gen /\ row'.host = row.host /\ row'.observed = row.observed
      /\ row'.desired = "enabled"
  <2>1. DesiredFor(kind, row.desired) = "enabled"
    <3>1. kind \notin Boundaries /\ kind # "disable" /\ kind # "uninstall"
      OBVIOUS
    <3> QED
      BY <3>1 DEF DesiredFor
  <2>2. row' = [row EXCEPT !.desired = DesiredFor(kind, row.desired), !.tr = NextId,
                           !.pending = Or(d, row.pending)]
    BY DEF Begin, Request, Rows
  <2> QED
    BY <2>1, <2>2 DEF Rows
<1>2. lane'.op = op /\ lane'.step = "preflight"
  BY DEF Begin, Call
<1>3. DisabledInv'
  BY <1>1 DEF DisabledInv
<1>4. HostsInv'
  BY <1>1, <1>2 DEF StoppedInv, HostsInv, Allocated
<1>5. CrashedInv'
  BY <1>1, <1>2 DEF StoppedInv, CrashedInv
<1> QED
  BY <1>3, <1>4, <1>5 DEF StoppedInv

\* request_enable stops what runs before it starts.
LEMMA EnableStops ==
    ASSUME Typed, StoppedInv, Enable
    PROVE  StoppedInv'
<1>1. CASE Begin("enable", "enable", None, asked)
  <2>1. "enable" \in Activations /\ "enable" \in Kinds \ ({"disable", "uninstall"} \cup Boundaries)
    BY DEF Activations, Kinds, Boundaries
  <2>2. active' \in {active, NoHost} /\ dead' = dead /\ pend' \in {pend, NoPending} /\ lane = Idle
    BY DEF Enable, Refused, KeepOthers, Locks
  <2> QED
    BY <1>1, <2>1, <2>2, BeginStops
<1>2. CASE Refused
  <2>1. RowStill
    BY <1>2, RowKept DEF Refused
  <2>2. CallsStill
    BY <1>2, HostTypes DEF Enable, Refused, KeepOthers, Locks, CallsStill, Activating, Allocated
  <2> QED
    BY <2>1, <2>2, StoppedFrame
<1> QED
  BY <1>1, <1>2 DEF Enable

\* retry starts only what does not run.
LEMMA RetryStops ==
    ASSUME Typed, StoppedInv, Retry
    PROVE  StoppedInv'
<1>1. "retry" \in Activations /\ "retry" \in Kinds \ ({"disable", "uninstall"} \cup Boundaries)
  BY DEF Activations, Kinds, Boundaries
<1>2. active' = active /\ dead' = dead /\ pend' = pend /\ lane = Idle /\ active = NoHost
  BY DEF Retry, KeepOthers, Locks
<1> QED
  BY <1>1, <1>2, BeginStops DEF Retry

\* request_update
LEMMA UpdateStops ==
    ASSUME Typed, StoppedInv, Update
    PROVE  StoppedInv'
<1>1. "upgrade" \in Activations /\ "upgrade" \in Kinds \ ({"disable", "uninstall"} \cup Boundaries)
  BY DEF Activations, Kinds, Boundaries, Replacements
<1>2. active' = active /\ dead' = dead /\ pend' = pend /\ lane = Idle
  BY DEF Update, KeepOthers, Locks
<1> QED
  BY <1>1, <1>2, BeginStops DEF Update

\* request_rollback
LEMMA RollbackStops ==
    ASSUME Typed, StoppedInv, Rollback
    PROVE  StoppedInv'
<1>1. "rollback" \in Activations /\ "rollback" \in Kinds \ ({"disable", "uninstall"} \cup Boundaries)
  BY DEF Activations, Kinds, Boundaries, Replacements
<1>2. active' = active /\ dead' = dead /\ pend' = pend /\ lane = Idle
  BY DEF Rollback, KeepOthers, Locks
<1> QED
  BY <1>1, <1>2, BeginStops DEF Rollback

\* A recovery reactivates what was enabled.
LEMMA ReactivateStops ==
    ASSUME Typed, StoppedInv, Reactivate
    PROVE  StoppedInv'
<1>1. CASE Begin(lane.op, "enable", None, lane.digest)
  <2>1. /\ lane.op \in Activations /\ lane.op # "retry"
        /\ "enable" \in Kinds \ ({"disable", "uninstall"} \cup Boundaries)
    BY DEF Reactivate, Recoveries, Activations, Kinds, Boundaries
  <2>2. active' = active /\ dead' = dead /\ pend' = pend /\ lane.step = "reactivate"
    BY DEF Reactivate
  <2> QED
    BY <1>1, <2>1, <2>2, BeginStops
<1>2. CASE lane' = Idle /\ UNCHANGED storeVars
  <2>1. CallsStill
    BY <1>2, HostTypes DEF Reactivate, CallsStill, Activating, Allocated
  <2> QED
    BY <1>2, <2>1, RowKept, StoppedFrame
<1> QED
  BY <1>1, <1>2 DEF Reactivate

\* The activation that waits may start what it was asked for.
LEMMA AskStops ==
    ASSUME Typed, StoppedInv, Ask
    PROVE  StoppedInv'
<1> USE HostTypes
<1>1. /\ UNCHANGED <<row, active, dead, gate>> /\ lane' = Idle /\ Activating
      /\ pend'.op = "retry" => lane.op = "retry"
  BY DEF Ask, storeVars, KeepRest, Activating, ActivatingSteps, Pending
<1>2. ~Stopped
  BY <1>1 DEF Stopped
<1>3. DisabledInv'
  BY <1>1, <1>2 DEF StoppedInv, DisabledInv
<1>4. HostsInv'
  BY <1>1 DEF StoppedInv, HostsInv, Allocated
<1>5. CrashedInv'
  BY <1>1 DEF Ask, StoppedInv, CrashedInv
<1> QED
  BY <1>3, <1>4, <1>5 DEF StoppedInv

\* The new generation is younger than every host there was.
LEMMA AllocateGenerationStops ==
    ASSUME Typed, StoppedInv, AllocateGeneration
    PROVE  StoppedInv'
<1> USE HostTypes
<1>1. /\ row' = [row EXCEPT !.gen = row.gen + 1] /\ UNCHANGED <<active, pend, dead, gate>>
      /\ Activating /\ lane'.op = lane.op /\ lane'.step = "grants" /\ lane.step = "allocate"
  BY DEF AllocateGeneration, Step, Allocate, Rows, KeepRest, Goto, Activating, ActivatingSteps, Typed, TypeOK
<1>2. /\ row'.gen = row.gen + 1 /\ row'.host = row.host /\ row'.observed = row.observed
      /\ row'.desired = row.desired
  BY <1>1 DEF Rows
<1>3. DisabledInv'
  BY <1>1, <1>2 DEF StoppedInv, DisabledInv, Stopped
<1>4. HostsInv'
  BY <1>1, <1>2 DEF StoppedInv, HostsInv
<1>5. CrashedInv'
  BY <1>1, <1>2 DEF StoppedInv, CrashedInv
<1> QED
  BY <1>3, <1>4, <1>5 DEF StoppedInv

\* The row names the new host, which is no crashed one.
LEMMA CandidateActivatedStops ==
    ASSUME Typed, StoppedInv, CandidateActivated
    PROVE  StoppedInv'
<1> USE HostTypes
<1>1. /\ row' = [row EXCEPT !.observed = "activating", !.host = IF row.gen = 0 THEN row.host ELSE row.gen]
      /\ UNCHANGED <<active, pend, dead, gate>>
      /\ Activating /\ Allocated /\ lane'.op = lane.op /\ lane'.step = "swap" /\ lane.step = "candidate"
  BY DEF CandidateActivated, Step, Advance, Rows, KeepRest, Goto, Activating, ActivatingSteps, Allocated,
     Typed, TypeOK
<1>2. dead.host < row.gen
  BY <1>1 DEF StoppedInv, HostsInv
<1>3. /\ row'.gen = row.gen /\ row'.host = row.gen /\ row'.observed = "activating"
      /\ row'.desired = row.desired
  BY <1>1, <1>2 DEF Rows
<1>4. DisabledInv'
  BY <1>1, <1>3 DEF StoppedInv, DisabledInv, Stopped
<1>5. HostsInv'
  BY <1>1, <1>2, <1>3 DEF StoppedInv, HostsInv
<1>6. CrashedInv'
  BY <1>1, <1>3 DEF StoppedInv, CrashedInv
<1> QED
  BY <1>4, <1>5, <1>6 DEF StoppedInv

\* The only step that lets a host run.
LEMMA SwapPointerStops ==
    ASSUME Typed, StoppedInv, SwapPointer
    PROVE  StoppedInv'
<1> USE HostTypes
<1>1. /\ row' = [row EXCEPT !.observed = "activating", !.host = IF row.gen = 0 THEN row.host ELSE row.gen]
      /\ UNCHANGED <<pend, dead, gate>> /\ active' = Host(lane.digest, row.gen)
      /\ Activating /\ Allocated /\ lane'.op = lane.op /\ lane'.step = "commit" /\ lane.op \in Activations
  BY DEF SwapPointer, Step, Advance, Rows, KeepRest, Goto, Activating, ActivatingSteps, Allocated,
     Typed, TypeOK
<1>2. dead.host < row.gen /\ ~Stopped
  BY <1>1 DEF StoppedInv, HostsInv, Stopped
<1>3. /\ row'.gen = row.gen /\ row'.host = row.gen /\ row'.observed = "activating"
      /\ row'.desired = row.desired /\ active'.host = row.gen
  BY <1>1, <1>2 DEF Rows, Host
<1>4. DisabledInv'
  BY <1>1, <1>2, <1>3 DEF StoppedInv, DisabledInv
<1>5. HostsInv'
  BY <1>1, <1>2, <1>3 DEF StoppedInv, HostsInv
<1>6. CrashedInv'
  BY <1>1, <1>3 DEF CrashedInv
<1> QED
  BY <1>4, <1>5, <1>6 DEF StoppedInv

\* The terminal write names the host that runs.
LEMMA CommitStops ==
    ASSUME Typed, StoppedInv, Commit
    PROVE  StoppedInv'
<1> USE HostTypes
<1>1. /\ UNCHANGED <<active, dead, gate>> /\ pend' = NoPending /\ lane' = Idle /\ Activating /\ Allocated
  BY DEF Commit, KeepRest, Activating, ActivatingSteps, Allocated
<1>2. /\ row'.gen = row.gen /\ row'.desired = row.desired
      /\ \/ row'.host = row.gen /\ row'.observed = "active"
         \/ row'.host = row.host /\ row'.observed = row.observed
  BY DEF Commit, CompleteReplacement, Accept, storeVars, Rows
<1>3. dead.host < row.gen /\ ~Stopped
  BY <1>1 DEF StoppedInv, HostsInv, Stopped
<1>4. DisabledInv'
  BY <1>1, <1>2, <1>3 DEF StoppedInv, DisabledInv
<1>5. HostsInv'
  BY <1>1, <1>2, <1>3 DEF StoppedInv, HostsInv, Allocated
<1>6. CrashedInv'
  BY <1>1, <1>2 DEF StoppedInv, CrashedInv
<1> QED
  BY <1>4, <1>5, <1>6 DEF StoppedInv

\* An early end that is shown as crashed has no host.
LEMMA EndStops ==
    ASSUME Typed, StoppedInv, active' \in {active, NoHost}, dead' = dead, pend' = NoPending,
           gate' = gate, lane' = Idle,
           NEW i, NEW observed, NEW rec,
           UNCHANGED storeVars \/ Fail(i, observed, rec),
           observed = "crashed" => active = NoHost
    PROVE  StoppedInv'
<1> USE HostTypes
<1>1. /\ row'.gen = row.gen /\ row'.desired = row.desired /\ row'.host = row.host
      /\ row'.observed = row.observed \/ row'.observed = observed
  BY DEF Fail, storeVars, Rows
<1>2. DisabledInv'
  BY <1>1 DEF StoppedInv, DisabledInv, Stopped, Activating
<1>3. HostsInv'
  BY <1>1 DEF StoppedInv, HostsInv, Allocated
<1>4. CrashedInv'
  BY <1>1 DEF StoppedInv, CrashedInv
<1> QED
  BY <1>2, <1>3, <1>4 DEF StoppedInv

\* A failed activation leaves no host it could have started.
LEMMA ActivationFailsStops ==
    ASSUME Typed, StoppedInv, ActivationFails
    PROVE  StoppedInv'
<1>1. /\ active' \in {active, NoHost} /\ dead' = dead /\ pend' = NoPending /\ gate' = gate /\ lane' = Idle
      /\ UNCHANGED storeVars \/ Fail(lane.i, Recorded(lane.op, lane.step), FALSE)
      /\ UNCHANGED storeVars \/ Recorded(lane.op, lane.step) # "open"
      /\ lane.op \in Activations
  BY DEF ActivationFails, KeepRest
<1>2. CASE UNCHANGED storeVars
  BY <1>1, <1>2, EndStops
<1>3. CASE Recorded(lane.op, lane.step) # "open"
  <2>1. Recorded(lane.op, lane.step) = "crashed" => lane.op = "retry" /\ lane.step # "commit"
    BY <1>1 DEF Recorded, FailureState, Activations, Recoveries, Replacements
  <2>2. Recorded(lane.op, lane.step) = "crashed" => active = NoHost
    BY <2>1 DEF StoppedInv, CrashedInv
  <2> QED
    BY <1>1, <2>2, EndStops
<1> QED
  BY <1>1, <1>2, <1>3

\* Contributions that are refused leave what ran before.
LEMMA PublishFailsStops ==
    ASSUME Typed, StoppedInv, PublishFails
    PROVE  StoppedInv'
<1> DEFINE shown == IF lane.op \in Replacements THEN "update_pending" ELSE FailureState(lane.op)
<1>1. /\ active' = active /\ dead' = dead /\ pend' = NoPending /\ gate' = gate /\ lane' = Idle
      /\ UNCHANGED storeVars \/ Fail(lane.i, shown, FALSE)
  BY DEF PublishFails, KeepRest
<1>2. shown = "crashed" => lane.op = "retry" /\ lane.step # "commit"
  BY DEF PublishFails, FailureState
<1>3. shown = "crashed" => active = NoHost
  BY <1>2 DEF StoppedInv, CrashedInv
<1> HIDE DEF shown
<1> QED
  BY <1>1, <1>3, EndStops

\* What waited starts, or ends as its failure shows.
LEMMA ActivatePendingStops ==
    ASSUME Typed, StoppedInv, ActivatePending
    PROVE  StoppedInv'
<1> USE HostTypes
<1>1. /\ active' = active /\ dead' = dead /\ pend' = NoPending /\ gate' = gate /\ lane = Idle
      /\ pend.answer # "open" /\ pend # NoPending /\ ~Stopped
  BY DEF ActivatePending, KeepOthers, Locks, NoPending, Stopped
<1>2. pend.op = "retry" => active = NoHost
  BY <1>1 DEF StoppedInv, CrashedInv
<1>3. CASE lane' = Idle /\ Fail(pend.i, FailureState(pend.op), FALSE)
  <2>1. FailureState(pend.op) = "crashed" => active = NoHost
    BY <1>2 DEF FailureState
  <2> QED
    BY <1>1, <1>3, <2>1, EndStops
<1>4. CASE lane' = Idle /\ Fail(pend.i, IF pend.op = "rollback" THEN "rollback_pending" ELSE "update_pending",
                                FALSE)
  <2> DEFINE shown == IF pend.op = "rollback" THEN "rollback_pending" ELSE "update_pending"
  <2>1. shown # "crashed" /\ Fail(pend.i, shown, FALSE)
    BY <1>4
  <2> HIDE DEF shown
  <2> QED
    BY <1>1, <1>4, <2>1, EndStops
<1>5. CASE lane' = Idle /\ UNCHANGED storeVars
  BY <1>1, <1>5, EndStops
<1>6. CASE lane' = Call(pend.op, "allocate", pend.i, pend.digest) /\ UNCHANGED storeVars
  <2>1. row' = row /\ lane'.op = pend.op /\ lane'.step = "allocate"
    BY <1>6 DEF Call, storeVars
  <2>2. DisabledInv'
    BY <1>1, <2>1 DEF StoppedInv, DisabledInv
  <2>3. HostsInv'
    BY <1>1, <2>1 DEF StoppedInv, HostsInv, Allocated
  <2>4. CrashedInv'
    BY <1>1, <1>2, <2>1 DEF StoppedInv, CrashedInv
  <2> QED
    BY <2>2, <2>3, <2>4 DEF StoppedInv
<1>7. \/ lane' = Idle /\ Fail(pend.i, FailureState(pend.op), FALSE)
      \/ lane' = Idle /\ Fail(pend.i, IF pend.op = "rollback" THEN "rollback_pending" ELSE "update_pending",
                              FALSE)
      \/ lane' = Idle /\ UNCHANGED storeVars
      \/ lane' = Call(pend.op, "allocate", pend.i, pend.digest) /\ UNCHANGED storeVars
  BY DEF ActivatePending
<1> QED
  BY <1>3, <1>4, <1>5, <1>6, <1>7

\* The registry forgets the plugin with the request to stop it.
LEMMA RequestTeardownStops ==
    ASSUME Typed, StoppedInv, RequestTeardown
    PROVE  StoppedInv'
<1> USE HostTypes
<1>1. /\ active' = NoHost /\ pend' = NoPending /\ dead' = dead /\ gate' = gate
      /\ lane'.op \notin Activations
  BY DEF RequestTeardown, Call, TeardownFrame
<1>2. row'.gen = row.gen /\ row'.host = row.host /\ row'.observed = row.observed
  BY DEF RequestTeardown, Request, Rows
<1>3. DisabledInv'
  BY <1>1 DEF DisabledInv, Stopped, Activating
<1>4. HostsInv'
  BY <1>1, <1>2 DEF StoppedInv, HostsInv, Allocated
<1>5. CrashedInv'
  BY <1>1 DEF CrashedInv
<1> QED
  BY <1>3, <1>4, <1>5 DEF StoppedInv

\* The row says uninstalled, and no restore is under way.
LEMMA UninstallRequestsStops ==
    ASSUME Typed, StoppedInv, UninstallRequests
    PROVE  StoppedInv'
<1> USE HostTypes
<1>1. /\ UNCHANGED <<active, pend, dead, lane>> /\ gate'.op # "restore"
      /\ row'.gen = row.gen /\ row'.host = row.host /\ row'.observed = row.observed
      /\ row'.desired \in {row.desired, "uninstalled"}
  <2>1. UNCHANGED <<active, pend, dead, lane>> /\ gate'.op # "restore"
    BY DEF UninstallRequests, GateFrame, Call
  <2>2. CASE UNCHANGED storeVars
    BY <2>1, <2>2 DEF storeVars
  <2>3. CASE Request(NextId, "uninstall", gate.digest, None)
    <3>1. DesiredFor("uninstall", row.desired) = "uninstalled"
      BY DEF DesiredFor, Boundaries
    <3>2. row' = [row EXCEPT !.desired = DesiredFor("uninstall", row.desired), !.tr = NextId,
                             !.pending = Or(None, row.pending)]
      BY <2>3 DEF Request, Rows
    <3> QED
      BY <2>1, <3>1, <3>2 DEF Rows
  <2> QED
    BY <2>2, <2>3 DEF UninstallRequests
<1>2. DisabledInv'
  BY <1>1 DEF StoppedInv, DisabledInv, Stopped, Activating
<1>3. HostsInv'
  BY <1>1 DEF StoppedInv, HostsInv, Allocated
<1>4. CrashedInv'
  BY <1>1 DEF StoppedInv, CrashedInv
<1> QED
  BY <1>2, <1>3, <1>4 DEF StoppedInv

\* A restore looks at the registry first.
LEMMA RestoreStops ==
    ASSUME Typed, StoppedInv, NEW i \in Ids, Restore(i)
    PROVE  StoppedInv'
<1> USE HostTypes
<1>1. /\ UNCHANGED <<row, active, pend, dead, lane>> /\ Stopped /\ Stopped'
  BY DEF Restore, storeVars, GateFrame, Locks, Stopped, Activating
<1>2. DisabledInv'
  BY <1>1 DEF DisabledInv
<1>3. HostsInv'
  BY <1>1 DEF StoppedInv, HostsInv, Allocated
<1>4. CrashedInv'
  BY <1>1 DEF StoppedInv, CrashedInv
<1> QED
  BY <1>2, <1>3, <1>4 DEF StoppedInv

\* A restored plugin is disabled: nothing started since the registry was looked at, or the
\* row would not say uninstalled.
LEMMA FinishRestoreStops ==
    ASSUME Typed, StoppedInv, FinishRestore
    PROVE  StoppedInv'
<1> USE HostTypes
<1>1. UNCHANGED <<active, pend, dead, lane>> /\ gate'.op # "restore" /\ gate.op = "restore"
  BY DEF FinishRestore, GateFrame
<1>2. CASE UNCHANGED storeVars
  <2>1. CallsStill
    BY <1>1 DEF CallsStill, Activating, Allocated
  <2> QED
    BY <1>2, <2>1, RowKept, StoppedFrame
<1>3. CASE CompleteRestore(gate.i)
  <2>1. /\ row.desired = "uninstalled" /\ row'.gen = row.gen /\ row'.host = 0
        /\ row'.observed = "disabled"
    BY <1>3 DEF CompleteRestore, Uninstalled, Rows
  <2>2. Stopped'
    BY <1>1, <2>1 DEF StoppedInv, DisabledInv, Stopped, Activating
  <2>3. DisabledInv'
    BY <2>2 DEF DisabledInv
  <2>4. HostsInv'
    BY <1>1, <2>1 DEF StoppedInv, HostsInv, Allocated
  <2>5. CrashedInv'
    BY <1>1, <2>1 DEF StoppedInv, CrashedInv
  <2> QED
    BY <2>3, <2>4, <2>5 DEF StoppedInv
<1> QED
  BY <1>2, <1>3 DEF FinishRestore

\* A host that failed is remembered until its crash is recorded.
LEMMA HostFailsStops ==
    ASSUME Typed, StoppedInv, HostFails
    PROVE  StoppedInv'
<1> USE HostTypes
<1>1. /\ UNCHANGED <<row, pend, lane, gate>> /\ lane = Idle /\ active' = NoHost /\ dead' = active
  BY DEF HostFails, storeVars, Locks
<1>2. DisabledInv'
  BY <1>1 DEF StoppedInv, DisabledInv, Stopped, Activating
<1>3. HostsInv'
  BY <1>1 DEF StoppedInv, HostsInv, Allocated
<1>4. CrashedInv'
  BY <1>1 DEF CrashedInv
<1> QED
  BY <1>2, <1>3, <1>4 DEF StoppedInv

\* The crash is recorded only of the host the row still names: none has replaced it.
LEMMA CrashRecordedStops ==
    ASSUME Typed, StoppedInv, CrashRecorded
    PROVE  StoppedInv'
<1> USE HostTypes
<1>1. UNCHANGED <<active, pend, lane, gate>> /\ dead' = NoHost /\ dead # NoHost
  BY DEF CrashRecorded
<1>2. CASE UNCHANGED storeVars
  <2>1. CallsStill
    BY <1>1 DEF CallsStill, Activating, Allocated
  <2> QED
    BY <1>2, <2>1, RowKept, StoppedFrame
<1>3. CASE RecordCrash(dead.digest, dead.host)
  <2>1. /\ row.host = dead.host /\ row'.gen = row.gen /\ row'.host = row.host
        /\ row'.desired = row.desired
    BY <1>3 DEF RecordCrash, Rows
  <2>2. active = NoHost
    BY <1>1, <2>1 DEF StoppedInv, HostsInv
  <2>3. DisabledInv'
    BY <1>1, <2>1 DEF StoppedInv, DisabledInv, Stopped, Activating
  <2>4. HostsInv'
    BY <1>1, <2>1 DEF StoppedInv, HostsInv, Allocated
  <2>5. CrashedInv'
    BY <1>1, <2>2 DEF CrashedInv
  <2> QED
    BY <2>3, <2>4, <2>5 DEF StoppedInv
<1> QED
  BY <1>2, <1>3 DEF CrashRecorded

\* Every step keeps what is disabled, or shown as crashed, stopped.
LEMMA StoppedNext ==
    ASSUME Typed, StoppedInv, [Next]_vars
    PROVE  StoppedInv'
<1>1. CASE LaneStep
  BY <1>1, PreflightStops, PrepareStops, AskStops, PlannedStops, AllocateGenerationStops,
     GrantsReadyStops, CandidateActivatedStops, SwapPointerStops, CommitStops, CloseOpenStops,
     RequestTeardownStops, TeardownPhaseStops, TeardownCompletesStops, RecordUncertainStops,
     JudgeStops, ReactivateStops, PersistBlockStops, FinishBlockStops DEF LaneStep
<1>2. CASE GateStep
  BY <1>2, UninstallDisablesStops, UninstallRechecksStops, UninstallRequestsStops, MoveExactStops,
     RecordMovedStops, FinishUninstallStops, UninstallFailsStops, RestoreExactStops,
     FinishRestoreStops, PurgeMarksStops, PurgeRenamesStops, PurgeDeletesStops, FinishPurgeStops,
     PurgeFailsStops, BoundaryTearsDownStops, RecoverUninstallStops, RecoverReplacementStops,
     RecoveryGoesOnStops, ReconcileDiscoversStops DEF GateStep
<1>3. CASE Calls
  BY <1>3, EnableDiscoversStops, EnableStops, RetryStops, UpdateStops, RollbackStops, DisableStops,
     UninstallStops, AnswerStops, ActivatePendingStops, RestoreStops, ExpireTombstoneStops,
     PurgeStops, BoundaryStops, EditStops DEF Calls
<1>4. CASE Failures
  BY <1>4, ActivationFailsStops, PublishFailsStops, TeardownUncertainStops, TeardownRefusedStops,
     DiscoveryFailsStops, BlockFailsStops, DieStops, HostFailsStops, CrashRecordedStops,
     TenMinutesStops DEF Failures
<1>5. CASE UNCHANGED vars
  <2>1. UNCHANGED <<storeVars, memVars, gate, fileVars, edits, faults>>
    BY <1>5 DEF vars
  <2>2. CallsStill
    BY <2>1 DEF CallsStill, memVars, Activating, Allocated
  <2> QED
    BY <2>1, <2>2, RowKept, StoppedFrame
<1> QED
  BY <1>1, <1>2, <1>3, <1>4, <1>5 DEF Next

\* No host runs of a plugin that is disabled, was restored or is shown as crashed, whichever
\* calls, recoveries and recorded crashes came in between and whatever of them failed.
THEOREM StoppedStays == Spec => []StoppedMeansStopped
<1>1. Init => Typed /\ CustodyInv /\ StoppedInv
  BY InitInv
<1>2. Typed /\ CustodyInv /\ StoppedInv /\ [Next]_vars => Typed' /\ CustodyInv' /\ StoppedInv'
  BY CustodyNext, StoppedNext
<1>3. StoppedInv => StoppedMeansStopped
  <2> SUFFICES ASSUME StoppedInv PROVE StoppedMeansStopped
    OBVIOUS
  <2>1. DisabledMeansStopped
    BY DEF StoppedInv, DisabledInv, Stopped, DisabledMeansStopped
  <2>2. CrashedMeansStopped
    <3> SUFFICES ASSUME NEW denied \in BOOLEAN, list(denied) = "crashed" PROVE active = NoHost
      BY DEF CrashedMeansStopped
    <3>1. row.observed = "crashed"
      BY DEF list, plugin_view, missing_workspace_plugin_view
    <3> QED
      BY <3>1 DEF StoppedInv, CrashedInv
  <2> QED
    BY <2>1, <2>2 DEF StoppedMeansStopped
<1> QED
  BY <1>1, <1>2, <1>3, PTL DEF Spec

=============================================================================
