---------------------------- MODULE FileMutations ----------------------------
(***************************************************************************)
(* Accepting and undoing an Agent's file proposals, and the durable        *)
(* mutation ledger that makes both crash-safe                              *)
(* (desktop/src-tauri/src/main.rs, desktop/src-tauri/src/project.rs).      *)
(*                                                                         *)
(* The ledger is a log of file_edit.* events.  Its reader folds it from    *)
(* left to right, so the model keeps the folded state of each proposal and *)
(* advances it with every event that is appended.                          *)
(***************************************************************************)
EXTENDS Naturals, FiniteSets

CONSTANTS
    Commands,       \* concurrent apply and undo commands
    Proposals,      \* propose_file_edit events
    Paths,
    PathOf,         \* the file a proposal is about
    Creates,        \* the proposals with operation "create"
    Texts,          \* file contents (and their digests)
    Absent,         \* no file
    EditOf,         \* what a proposal makes of the editor's text; Absent: it does not fit
    Mutations,      \* mutation ids (uuids), each used once
    None,           \* no mutation, no lane holder
    EagerUndo,      \* undo may be called for what was never applied
    LiveStart,      \* start_workspace may run while a command is under way
    StoreMayFail    \* an append after the write may fail

Contents == Texts \cup {Absent}

ASSUME FileAssumption ==
    /\ PathOf \in [Proposals -> Paths]
    /\ EditOf \in [Proposals -> [Texts -> Contents]]
    /\ Creates \subseteq Proposals
    /\ Absent \notin Texts
    /\ None \notin Mutations \cup Commands \cup Proposals
    /\ EagerUndo \in BOOLEAN /\ LiveStart \in BOOLEAN /\ StoreMayFail \in BOOLEAN

VARIABLES
    disk,       \* content of each project file
    author,     \* who changed the file last
    active,     \* the proposal's turn is queued, running or waiting
    st,         \* AgentFileProposalMutationState
    applied,    \* the ledger of the last successful apply
    ledger,     \* file_edit.mutation_started records
    ends,       \* terminal events of each mutation
    cmd,        \* the commands and their claims
    lane,       \* holder of a file's lane
    ready,      \* a Workspace context exists
    start,      \* where start_workspace or restart_workspace is
    todo        \* incomplete mutations a recovery has still to reconcile

logVars == <<st, applied, ledger, ends>>
startVars == <<ready, start, todo>>
vars == <<disk, author, active, logVars, cmd, lane, startVars>>

Actions == {"apply", "undo"}
States == {"available", "mutating", "applied", "undone", "stale", "uncertain"}
Labels == {"idle", "queued", "inspect", "begin", "write", "record", "finish"}
Phases == {"off", "retire", "boot", "bootscan", "sync", "syncscan"}

User == <<None, "user">>

IdleCommand == [pc |-> "idle", action |-> "apply", proposal |-> None, editor |-> Absent,
                expected |-> Absent, mutation |-> None, cancelled |-> FALSE]
NoLedger == [proposal |-> None, action |-> "apply", before |-> Absent,
             after |-> Absent, restore |-> Absent]

Init ==
    /\ disk \in [Paths -> Contents]
    /\ author = [f \in Paths |-> User]
    /\ active = [p \in Proposals |-> TRUE]
    /\ st = [p \in Proposals |-> "available"]
    /\ applied = [p \in Proposals |-> None]
    /\ ledger = [m \in Mutations |-> NoLedger]
    /\ ends = [m \in Mutations |-> 0]
    /\ cmd = [k \in Commands |-> IdleCommand]
    /\ lane = [f \in Paths |-> None]
    /\ ready = TRUE
    /\ start = "off"
    /\ todo = {}

-----------------------------------------------------------------------------
(* Reading and appending to the ledger *)

Path(k) == PathOf[cmd[k].proposal]
Started(m) == ledger[m].proposal # None
Open(m) == Started(m) /\ ends[m] = 0
At(k, label) == cmd' = [cmd EXCEPT ![k].pc = label]

\* What mutation_not_applied, mutation_failed and cancelled fold to
Reopened(p) == IF applied[p] = None THEN "available" ELSE "applied"

\* An event that leaves the last successful apply as it is
Append(p, s) ==
    /\ st' = [st EXCEPT ![p] = s]
    /\ UNCHANGED applied

\* applied, undone or recovered
AppendSuccess(m) ==
    LET p == ledger[m].proposal IN
    IF ledger[m].action = "apply"
      THEN /\ st' = [st EXCEPT ![p] = "applied"]
           /\ applied' = [applied EXCEPT ![p] = m]
      ELSE Append(p, "undone")

Closes(m) == ends' = [ends EXCEPT ![m] = @ + 1]

\* The command returns: its lane guard and its claim are dropped
Return(k) ==
    /\ cmd' = [cmd EXCEPT ![k] = IdleCommand]
    /\ lane' = [f \in Paths |-> IF lane[f] = k THEN None ELSE lane[f]]

-----------------------------------------------------------------------------
(* apply_agent_file_edit and undo_agent_file_edit *)

\* Fault variant: an apply does not look at the proposal's turn.
TurnAllows_Any(a, p) == TRUE

\* ensure_agent_file_proposal_turn_terminal, which only apply calls
TurnAllows(a, p) == a = "apply" => ~active[p]

\* Under the transition gate a claim is registered; Absent is no digest, which
\* only an apply may send
Register(k, a, p, text, expected) ==
    /\ start = "off"
    /\ cmd[k].pc = "idle"
    /\ a = "undo" => expected # Absent /\ (EagerUndo \/ applied[p] # None)
    /\ TurnAllows(a, p)
    /\ cmd' = [cmd EXCEPT ![k] = [IdleCommand EXCEPT !.pc = "queued", !.action = a, !.proposal = p,
                                                     !.editor = text, !.expected = expected]]
    /\ UNCHANGED <<disk, author, active, logVars, lane, startVars>>

\* ensure_agent_file_apply_available and durable_agent_file_undo_ledger; an undo
\* must also name the digests of the apply it undoes
Available(k) ==
    LET p == cmd[k].proposal IN
    IF cmd[k].action = "apply"
      THEN st[p] = "available"
      ELSE /\ st[p] = "applied"
           /\ cmd[k].expected = ledger[applied[p]].after
           /\ cmd[k].editor = ledger[applied[p]].restore

\* Fault variant: the lane is not waited for.
LaneFree_Always(k) == TRUE

LaneFree(k) == lane[Path(k)] = None

\* The lane is acquired, begin_running, and the durable state is checked
Admit(k) ==
    /\ cmd[k].pc = "queued"
    /\ LaneFree(k)
    /\ \/ /\ cmd[k].cancelled
          /\ Append(cmd[k].proposal, Reopened(cmd[k].proposal))
          /\ Return(k)
       \/ /\ ~cmd[k].cancelled /\ Available(k)
          /\ At(k, "inspect")
          /\ lane' = [lane EXCEPT ![Path(k)] = k]
          /\ UNCHANGED <<st, applied>>
       \/ /\ ~cmd[k].cancelled /\ ~Available(k)
          /\ Return(k)
          /\ UNCHANGED <<st, applied>>
    /\ UNCHANGED <<disk, author, active, ledger, ends, startVars>>

Create(k) == cmd[k].action = "apply" /\ cmd[k].proposal \in Creates

\* A create expects no file; an edit or an undo the very content it names
DiskMatches(k) == disk[Path(k)] = IF Create(k) THEN Absent ELSE cmd[k].expected

\* Fault variant: an edit whose selection or anchors are gone goes on.
EditFits_Always(k) == TRUE

\* calculate_persisted_agent_file_edit still finds its selection or anchors
EditFits(k) == cmd[k].action = "apply" => EditOf[cmd[k].proposal][cmd[k].editor] # Absent

\* A digest is sent exactly for a file that should exist
ExpectationSent(k) == Create(k) <=> cmd[k].expected = Absent

Inspect(k) ==
    /\ cmd[k].pc = "inspect"
    /\ ExpectationSent(k) /\ DiskMatches(k) /\ EditFits(k)
    /\ At(k, "begin")
    /\ UNCHANGED <<disk, author, active, logVars, lane, startVars>>

\* The proposal or its undo is resource_stale
InspectStale(k) ==
    /\ cmd[k].pc = "inspect"
    /\ \/ ExpectationSent(k) /\ ~(DiskMatches(k) /\ EditFits(k))
       \/ ~Create(k) /\ disk[Path(k)] = Absent
    /\ Append(cmd[k].proposal, "stale")
    /\ Return(k)
    /\ UNCHANGED <<disk, author, active, ledger, ends, startVars>>

\* An early return without an event: the expectation is missing, or the file
\* cannot be read as text
Refuse(k) ==
    /\ cmd[k].pc = "inspect"
    /\ Return(k)
    /\ UNCHANGED <<disk, author, active, logVars, startVars>>

\* file_edit.mutation_started is persisted
Begin(k, m) ==
    /\ cmd[k].pc = "begin"
    /\ ~Started(m)
    /\ LET p == cmd[k].proposal
           created == p \in Creates
       IN  ledger' = [ledger EXCEPT ![m] =
                        IF cmd[k].action = "apply"
                          THEN [proposal |-> p, action |-> "apply",
                                before |-> IF created THEN Absent ELSE cmd[k].expected,
                                after |-> EditOf[p][cmd[k].editor], restore |-> cmd[k].editor]
                          ELSE [proposal |-> p, action |-> "undo", before |-> cmd[k].expected,
                                after |-> IF created THEN Absent ELSE cmd[k].editor,
                                restore |-> Absent]]
    /\ Append(cmd[k].proposal, "mutating")
    /\ cmd' = [cmd EXCEPT ![k].pc = "write", ![k].mutation = m]
    /\ UNCHANGED <<disk, author, active, ends, lane, startVars>>

\* atomic_write, atomic_write_new (which does not overwrite) or
\* safe_delete_project_file (which needs a file)
Writable(k) ==
    LET new == cmd[k].proposal \in Creates IN
    new => (disk[Path(k)] = Absent <=> cmd[k].action = "apply")

Write(k) ==
    /\ cmd[k].pc = "write"
    /\ Writable(k)
    /\ disk' = [disk EXCEPT ![Path(k)] = ledger[cmd[k].mutation].after]
    /\ author' = [author EXCEPT ![Path(k)] = <<cmd[k].proposal, cmd[k].action>>]
    /\ At(k, "record")
    /\ UNCHANGED <<active, logVars, lane, startVars>>

\* The command's last event, which the code logs if it can: a failed append is
\* not retried
Conclude(k, s) ==
    /\ \/ Append(cmd[k].proposal, s) /\ Closes(cmd[k].mutation)
       \/ StoreMayFail /\ UNCHANGED <<st, applied, ends>>
    /\ Return(k)
    /\ UNCHANGED <<disk, author, active, ledger, startVars>>

\* agent_file_write_failure: the outcome is what the disk shows
WriteFails(k) ==
    /\ cmd[k].pc = "write"
    /\ Conclude(k, IF disk[Path(k)] = ledger[cmd[k].mutation].before
                     THEN Reopened(cmd[k].proposal) ELSE "uncertain")

\* record_agent_file_project_change locks the context and raises the project revision
RecordChange(k) ==
    /\ cmd[k].pc = "record"
    /\ ready /\ start \notin {"sync", "syncscan"}
    /\ At(k, "finish")
    /\ UNCHANGED <<disk, author, active, logVars, lane, startVars>>

\* file_edit.applied or file_edit.undone
Finish(k) ==
    /\ cmd[k].pc = "finish"
    /\ AppendSuccess(cmd[k].mutation)
    /\ Closes(cmd[k].mutation)
    /\ Return(k)
    /\ UNCHANGED <<disk, author, active, ledger, startVars>>

\* There is no Workspace, or the store refuses the identity or the last event:
\* agent_file_postwrite_failure
PostwriteFails(k) ==
    /\ \/ cmd[k].pc = "record" /\ (~ready \/ StoreMayFail)
       \/ cmd[k].pc = "finish" /\ StoreMayFail
    /\ Conclude(k, "uncertain")

-----------------------------------------------------------------------------
(* The user, turns, crash and recovery *)

\* project_write_file, project_create_file, project_delete_file, another program
UserWrites(f, text) ==
    /\ disk' = [disk EXCEPT ![f] = text]
    /\ author' = [author EXCEPT ![f] = User]
    /\ UNCHANGED <<active, logVars, cmd, lane, startVars>>

FinishTurn(p) ==
    /\ active[p]
    /\ active' = [active EXCEPT ![p] = FALSE]
    /\ UNCHANGED <<disk, author, logVars, cmd, lane, startVars>>

\* cancel_agent_turn_state: the turn's queued claims are cancelled
CancelTurn(p) ==
    /\ start = "off"
    /\ active[p]
    /\ active' = [active EXCEPT ![p] = FALSE]
    /\ cmd' = [k \in Commands |-> IF cmd[k].proposal = p /\ cmd[k].pc = "queued"
                                    THEN [cmd[k] EXCEPT !.cancelled = TRUE] ELSE cmd[k]]
    /\ UNCHANGED <<disk, author, logVars, lane, startVars>>

\* The process dies: commands, claims and lanes are gone
Crash ==
    /\ cmd' = [k \in Commands |-> IdleCommand]
    /\ lane' = [f \in Paths |-> None]
    /\ ready' = FALSE
    /\ start' = "off"
    /\ todo' = {}
    /\ active' = [p \in Proposals |-> FALSE]
    /\ UNCHANGED <<disk, author, logVars>>

\* workspace_start or restart_workspace takes the gate; a restart takes the
\* context away first
BeginStart ==
    /\ start = "off"
    /\ LiveStart \/ \A k \in Commands : cmd[k].pc = "idle"
    /\ start' = IF ready THEN "retire" ELSE "boot"
    /\ ready' = FALSE
    /\ UNCHANGED <<disk, author, active, logVars, cmd, lane, todo>>

\* The old Workspace is shut down, or its users do not let go within 15 seconds
\* and it is put back
Retire ==
    /\ start = "retire"
    /\ \/ start' = "boot" /\ UNCHANGED ready
       \/ start' = "off" /\ ready' = TRUE
    /\ UNCHANGED <<disk, author, active, logVars, cmd, lane, todo>>

\* An error on the way: without a context before the first recovery is over,
\* with it afterwards
StartFails ==
    /\ start \notin {"off", "retire"}
    /\ start' = "off"
    /\ todo' = {}
    /\ UNCHANGED <<disk, author, active, logVars, cmd, lane, ready>>

\* Fault variant: a terminal event does not take its start off the list.
Incomplete_Started == {m \in Mutations : Started(m)}

\* recover_incomplete_agent_file_mutations reads the events ...
Incomplete == {m \in Mutations : Open(m)}

Scan ==
    /\ start \in {"boot", "sync"}
    /\ todo' = Incomplete
    /\ start' = IF start = "boot" THEN "bootscan" ELSE "syncscan"
    /\ UNCHANGED <<disk, author, active, logVars, cmd, lane, ready>>

\* Fault variant: the expected-before content is looked for first and is taken
\* to mean that the mutation is done.
Reconcile_Swapped(m, seen) ==
    IF seen = ledger[m].before
      THEN AppendSuccess(m)
      ELSE Append(ledger[m].proposal, IF seen = ledger[m].after THEN Reopened(ledger[m].proposal) ELSE "uncertain")

\* ... and compares each file with its record: recovered, mutation_not_applied
\* or outcome_uncertain
Reconcile(m, seen) ==
    IF seen = ledger[m].after
      THEN AppendSuccess(m)
      ELSE Append(ledger[m].proposal,
                  IF seen = ledger[m].before THEN Reopened(ledger[m].proposal) ELSE "uncertain")

RecoverOne(m) ==
    /\ m \in todo
    /\ \/ Reconcile(m, disk[PathOf[ledger[m].proposal]])
       \/ Append(ledger[m].proposal, "uncertain")       \* the file cannot be read
    /\ Closes(m)
    /\ todo' = todo \ {m}
    /\ UNCHANGED <<disk, author, active, ledger, cmd, lane, ready, start>>

\* A restart synchronises the project root afterwards and recovers once more
EndScan(next) ==
    /\ start \in {"bootscan", "syncscan"}
    /\ todo = {}
    /\ next = "off" \/ start = "bootscan"
    /\ ready' = TRUE
    /\ start' = next
    /\ UNCHANGED <<disk, author, active, logVars, cmd, lane, todo>>

-----------------------------------------------------------------------------

CommandStep(k) ==
    \/ Admit(k) \/ Inspect(k) \/ InspectStale(k) \/ Refuse(k)
    \/ \E m \in Mutations : Begin(k, m)
    \/ Write(k) \/ WriteFails(k) \/ RecordChange(k) \/ Finish(k) \/ PostwriteFails(k)

StartStep ==
    \/ Retire \/ StartFails \/ Scan
    \/ \E m \in Mutations : RecoverOne(m)
    \/ \E next \in {"off", "sync"} : EndScan(next)

UserStep ==
    \/ \E k \in Commands, a \in Actions, p \in Proposals, text \in Texts, e \in Contents :
         Register(k, a, p, text, e)
    \/ \E f \in Paths, text \in Contents : UserWrites(f, text)
    \/ \E p \in Proposals : FinishTurn(p) \/ CancelTurn(p)

Next == (\E k \in Commands : CommandStep(k)) \/ UserStep \/ BeginStart \/ StartStep \/ Crash

Spec == Init /\ [][Next]_vars

-----------------------------------------------------------------------------
(* Properties *)

\* An apply leaves a file; only the undo of a create leaves none.
Ledgers ==
    [proposal : Proposals, action : {"apply"}, before : Contents, after : Texts, restore : Texts]
      \cup [proposal : Proposals, action : {"undo"}, before : Texts, after : Contents, restore : {Absent}]

ClaimRecords ==
    [pc : Labels, action : Actions, proposal : Proposals \cup {None}, editor : Contents,
     expected : Contents, mutation : Mutations \cup {None}, cancelled : BOOLEAN]

\* The type of the state: what register, the ledger and its fold can hold.
TypeOK ==
    /\ disk \in [Paths -> Contents]
    /\ author \in [Paths -> {User} \cup (Proposals \X Actions)]
    /\ active \in [Proposals -> BOOLEAN]
    /\ st \in [Proposals -> States]
    /\ applied \in [Proposals -> Mutations \cup {None}]
    /\ ledger \in [Mutations -> {NoLedger} \cup Ledgers]
    /\ ends \in [Mutations -> Nat]
    /\ cmd \in [Commands -> ClaimRecords]
    /\ lane \in [Paths -> Commands \cup {None}]
    /\ ready \in BOOLEAN
    /\ start \in Phases
    /\ todo \subseteq Mutations

\* A file that is written is as it was compared, or the user saved it since.
WritesWhatItCompared ==
    \A k \in Commands :
        cmd[k].pc = "write" /\ cmd'[k].pc = "record" =>
            disk[Path(k)] = ledger[cmd[k].mutation].before \/ author[Path(k)] = User

\* A proposal's command never overwrites what another proposal's command wrote
\* after the digest was compared: only a save of the user or of another program
\* can get in between (the path lane of AgentFileMutationRegistry).
NoSilentOverwrite == [][WritesWhatItCompared]_vars

\* m has its terminal event and no command is at work on it.
Settled(m) == ends[m] > 0 /\ \A k \in Commands : cmd[k].mutation # m

\* Once the commands and the recoveries are done, what a proposal left on disk is
\* accounted for, whatever failed or crashed in between: an apply reads as applied
\* or uncertain (or as undone, when the text it left is the one an undo restores)
\* and an undo as undone or uncertain.
DiskIsAccountedFor ==
    \A p \in Proposals :
        LET f == PathOf[p] IN
        (\A m \in Mutations : ledger[m].proposal = p => Settled(m)) =>
            /\ author[f] = <<p, "apply">> =>
                 \/ st[p] \in {"applied", "uncertain"}
                 \/ st[p] = "undone" /\ disk[f] = ledger[applied[p]].restore
            /\ author[f] = <<p, "undo">> => st[p] \in {"undone", "uncertain"}

\* A mutation gets one terminal event: recovery closes what a crash left open
\* and never what a command has closed or will close itself.
OneTerminalEvent == \A m \in Mutations : ends[m] <= 1

KeepsUncertain == \A p \in Proposals : st[p] = "uncertain" => st'[p] = "uncertain"

\* When the outcome is uncertain the controls stay withheld.
UncertainStays == [][KeepsUncertain]_vars

=============================================================================
