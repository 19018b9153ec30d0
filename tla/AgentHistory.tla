---------------------------- MODULE AgentHistory ----------------------------
(***************************************************************************)
(* Agent Conversations, their turns and what a turn is told of the earlier *)
(* ones (crates/rho-store lib.rs), with the desktop commands that start,   *)
(* retry, delete and clear them while tasks and file operations of the     *)
(* same Conversations are under way (desktop main.rs).  How a turn asks,   *)
(* waits and executes is AgentWorkspace.                                   *)
(***************************************************************************)
EXTENDS Integers, FiniteSets, Sequences

CONSTANTS
    HistProjects,  \* project roots
    MaxTurns,      \* bound: turn rows ever inserted
    MaxConvs,      \* bound: Conversations ever inserted
    HISTORY_LIMIT, \* the turns a prompt tells of at most (4)
    MaxFileOps,    \* bound: Agent file operations under way at once
    MaxHistFaults  \* bound: store errors and deaths of the desktop

ASSUME HistAssumption ==
    MaxTurns \in Nat /\ MaxConvs \in Nat \ {0} /\ MaxHistFaults \in Nat /\ HISTORY_LIMIT \in Nat \ {0}

VARIABLES
    hroot,      \* the active project
    conv,       \* Conversation -> its row, or NoRow
    turn,       \* turn -> its row and its link, or NoRow
    started,    \* the turns in the order of started_at
    convs,      \* Conversations ever inserted
    task,       \* AppState.agent_tasks: turn -> "loading", "running", "exiting" or "none"
    told,       \* turn -> the earlier turns the prompt of its task was built from
    writing,    \* turns with an Agent file operation under way
    retrying,   \* the retry_agent_turn between its read and its start, or NoRow
    hfaults

histvars == <<hroot, conv, turn, started, convs, task, told, writing, retrying, hfaults>>

TurnIds == 1 .. MaxTurns
ConvIds == 1 .. MaxConvs
NoRow == [row |-> FALSE]
NoTurn == 0
MAX_CONCURRENT_AGENT_TURNS == 2
Nonterminal == {"running", "waiting"}

\* Project p may have one legacy Conversation, left by the migration.
HistInit ==
    /\ hroot \in HistProjects
    /\ \E legacy \in BOOLEAN :
          conv = [c \in ConvIds |-> IF legacy /\ c = 1
                                    THEN [row |-> TRUE, project |-> hroot, legacy |-> TRUE]
                                    ELSE NoRow]
    /\ convs = IF conv[1].row THEN 1 ELSE 0
    /\ turn = [t \in TurnIds |-> NoRow]
    /\ started = << >>
    /\ task = [t \in TurnIds |-> "none"]
    /\ told = [t \in TurnIds |-> << >>]
    /\ writing = {}
    /\ retrying = NoRow
    /\ hfaults = 0

(***************************************************************************)
(* Queries                                                                 *)
(***************************************************************************)

TurnRows == {t \in TurnIds : turn[t].row}
InConversation(c) == {t \in TurnRows : turn[t].conv = c}
Active == {t \in TurnIds : task[t] # "none"}

\* The turn, its link and its Conversation, all of project p.
get_agent_turn_detail(p, t) ==
    /\ turn[t].row /\ turn[t].project = p
    /\ conv[turn[t].conv].row /\ conv[turn[t].conv].project = p

\* The newest of a set of turns, as many as a prompt tells of, oldest first; the
\* numbers of turns are in the order of started_at.
Nth(turns, i) == CHOOSE t \in turns : Cardinality({u \in turns : u < t}) = i - 1
Newest(turns) == {t \in turns : Cardinality({u \in turns : u > t}) < HISTORY_LIMIT}
Recent(turns) == [i \in 1 .. Cardinality(Newest(turns)) |-> Nth(Newest(turns), i)]

recent_agent_conversation_AnyConversation(p, c, current) ==
    Recent({t \in TurnRows : t # current /\ turn[t].status \in {"completed", "failed"}})

\* The ended turns of the Conversation.
recent_agent_conversation(p, c, current) ==
    Recent({t \in TurnRows :
              /\ t # current
              /\ get_agent_turn_detail(p, t)
              /\ turn[t].conv = c
              /\ turn[t].status \in {"completed", "failed"}})

\* The turn of a Conversation that started last.
LatestTurn(c) == CHOOSE t \in InConversation(c) : \A u \in InConversation(c) : u <= t

\* The summaries of a project's Conversations tell the status of that turn.
list_agent_conversations(p) ==
    {[id |-> c, turn_count |-> Cardinality(InConversation(c)),
      status |-> IF InConversation(c) = {} THEN "empty" ELSE turn[LatestTurn(c)].status] :
        c \in {d \in ConvIds : conv[d].row /\ conv[d].project = p}}

\* A running turn of the Conversation, or two running turns.
agent_turn_admission_error(c) ==
    \/ \E t \in Active : turn[t].row /\ turn[t].conv = c
    \/ Cardinality(Active) >= MAX_CONCURRENT_AGENT_TURNS

\* What a Conversation must be for a new turn, and a retry source for a retry.
AcceptsTurn(p, c, source) ==
    /\ conv[c].row
    /\ conv[c].project = p
    /\ ~conv[c].legacy
    /\ \A t \in InConversation(c) : turn[t].status \notin Nonterminal
    /\ source # NoTurn => source \in InConversation(c)

(***************************************************************************)
(* Commands                                                                *)
(***************************************************************************)

create_agent_conversation ==
    /\ convs < MaxConvs
    /\ convs' = convs + 1
    /\ conv' = [conv EXCEPT ![convs'] = [row |-> TRUE, project |-> hroot, legacy |-> FALSE]]
    /\ UNCHANGED <<hroot, turn, started, task, told, writing, retrying, hfaults>>

\* The turn row and its link, then the user prompt event; a turn whose first
\* event was not stored is finished as failed, if that can be stored.
InsertTurn(c, source, prompt, outcome) ==
    LET t == Len(started) + 1
        status == IF outcome = "event_refused" THEN "failed" ELSE "running"
    IN  /\ t <= MaxTurns
        /\ started' = Append(started, t)
        /\ turn' = [turn EXCEPT ![t] =
              [row |-> TRUE, project |-> hroot, conv |-> c, source |-> source,
               prompt |-> IF prompt = NoTurn THEN t ELSE prompt,
               event |-> outcome = "started", status |-> status]]
        /\ task' = [task EXCEPT ![t] = IF outcome = "started" THEN "loading" ELSE "none"]
        /\ hfaults' = hfaults + (IF outcome = "started" THEN 0 ELSE 1)
        /\ hfaults' <= MaxHistFaults

StartOutcomes == {"started", "event_refused", "event_and_finish_refused"}

create_agent_turn_with_conversation(outcome) ==
    /\ Cardinality(Active) < MAX_CONCURRENT_AGENT_TURNS
    /\ convs < MaxConvs
    /\ convs' = convs + 1
    /\ conv' = [conv EXCEPT ![convs'] = [row |-> TRUE, project |-> hroot, legacy |-> FALSE]]
    /\ InsertTurn(convs', NoTurn, NoTurn, outcome)
    /\ UNCHANGED <<hroot, told, writing, retrying>>

create_agent_turn_in_conversation(c, outcome) ==
    /\ ~agent_turn_admission_error(c)
    /\ AcceptsTurn(hroot, c, NoTurn)
    /\ InsertTurn(c, NoTurn, NoTurn, outcome)
    /\ UNCHANGED <<hroot, conv, convs, told, writing, retrying>>

\* retry_agent_turn reads the ended turn, its Conversation and its immutable
\* prompt without holding the gate ...
agent_retry_source(t) ==
    /\ retrying = NoRow
    /\ get_agent_turn_detail(hroot, t)
    /\ turn[t].status \notin Nonterminal
    /\ ~conv[turn[t].conv].legacy
    /\ turn[t].event
    /\ retrying' = [row |-> TRUE, source |-> t, conv |-> turn[t].conv, prompt |-> turn[t].prompt]
    /\ UNCHANGED <<hroot, conv, turn, started, convs, task, told, writing, hfaults>>

\* ... and starts a turn in the project that is active by then.
retry_agent_turn(outcome) ==
    /\ retrying # NoRow
    /\ retrying' = NoRow
    /\ IF \/ agent_turn_admission_error(retrying.conv)
          \/ ~AcceptsTurn(hroot, retrying.conv, retrying.source)
       THEN UNCHANGED <<turn, started, task, hfaults>>
       ELSE InsertTurn(retrying.conv, retrying.source, retrying.prompt, outcome)
    /\ UNCHANGED <<hroot, conv, convs, told, writing>>

\* run_agent_turn builds the prompt from the history as it is by then.
LoadHistory(t) ==
    /\ task[t] = "loading"
    /\ told' = [told EXCEPT ![t] = recent_agent_conversation(hroot, turn[t].conv, t)]
    /\ task' = [task EXCEPT ![t] = "running"]
    /\ UNCHANGED <<hroot, conv, turn, started, convs, writing, retrying, hfaults>>

\* One row each of the turn, the link and the Conversation, or a rollback; the
\* task is removed in a step of its own.
finish_agent_turn(t, status) ==
    /\ task[t] \in {"loading", "running"}
    /\ turn' = IF turn[t].row THEN [turn EXCEPT ![t].status = status] ELSE turn
    /\ task' = [task EXCEPT ![t] = "exiting"]
    /\ told' = [told EXCEPT ![t] = << >>]
    /\ UNCHANGED <<hroot, conv, started, convs, writing, retrying, hfaults>>

TaskRemoved(t) ==
    /\ task[t] = "exiting"
    /\ task' = [task EXCEPT ![t] = "none"]
    /\ UNCHANGED <<hroot, conv, turn, started, convs, told, writing, retrying, hfaults>>

\* cancel_agent_turn: the row is interrupted and the task aborted.
cancel_agent_turn(t) ==
    /\ task[t] \in {"loading", "running"}
    /\ turn' = [turn EXCEPT ![t].status = "interrupted"]
    /\ task' = [task EXCEPT ![t] = "none"]
    /\ told' = [told EXCEPT ![t] = << >>]
    /\ UNCHANGED <<hroot, conv, started, convs, writing, retrying, hfaults>>

\* A file operation registers its turn and then looks the turn up.
BeginFileOperation(t) ==
    /\ t \notin writing /\ Cardinality(writing) < MaxFileOps
    /\ get_agent_turn_detail(hroot, t)
    /\ turn[t].status \notin Nonterminal
    /\ writing' = writing \cup {t}
    /\ UNCHANGED <<hroot, conv, turn, started, convs, task, told, retrying, hfaults>>

EndFileOperation(t) ==
    /\ t \in writing
    /\ writing' = writing \ {t}
    /\ UNCHANGED <<hroot, conv, turn, started, convs, task, told, retrying, hfaults>>

\* The rows of a set of turns go with their links, events and approvals, and
\* the retry links that named them become NULL.
Deleted(gone) ==
    [t \in TurnIds |->
        IF ~turn[t].row \/ t \in gone THEN NoRow
        ELSE [turn[t] EXCEPT !.source = IF @ \in gone THEN NoTurn ELSE @]]

\* A deletion that asks the rows and no longer the tasks and file operations.
delete_agent_conversation_RowsOnly(c) ==
    /\ \A t \in InConversation(c) : turn[t].status \notin Nonterminal
    /\ conv[c].row /\ conv[c].project = hroot
    /\ turn' = Deleted(InConversation(c))
    /\ conv' = [conv EXCEPT ![c] = NoRow]
    /\ UNCHANGED <<hroot, started, convs, task, told, writing, retrying, hfaults>>

delete_agent_conversation(c) ==
    /\ \A t \in Active : ~turn[t].row \/ turn[t].conv # c
    /\ InConversation(c) \cap writing = {}
    /\ \A t \in InConversation(c) : turn[t].status \notin Nonterminal
    /\ conv[c].row /\ conv[c].project = hroot
    /\ turn' = Deleted(InConversation(c))
    /\ conv' = [conv EXCEPT ![c] = NoRow]
    /\ UNCHANGED <<hroot, started, convs, task, told, writing, retrying, hfaults>>

\* No task at all, no file operation of the project; every status is deleted.
clear_agent_history ==
    /\ Active = {}
    /\ \A t \in writing : turn[t].project # hroot
    /\ turn' = Deleted({t \in TurnRows : turn[t].project = hroot})
    /\ conv' = [c \in ConvIds |-> IF conv[c].row /\ conv[c].project = hroot THEN NoRow ELSE conv[c]]
    /\ UNCHANGED <<hroot, started, convs, task, told, writing, retrying, hfaults>>

\* A switch needs the tasks stopped and no file operation in the project left.
LeaveProject(p) ==
    /\ p # hroot
    /\ Active = {} /\ writing = {}
    /\ hroot' = p
    /\ UNCHANGED <<conv, turn, started, convs, task, told, writing, retrying, hfaults>>

\* The desktop dies; the next start interrupts what was left running.
recover_incomplete_agent_turns ==
    /\ hfaults < MaxHistFaults
    /\ hfaults' = hfaults + 1
    /\ turn' = [t \in TurnIds |->
                  IF turn[t].row /\ turn[t].status \in Nonterminal
                  THEN [turn[t] EXCEPT !.status = "interrupted"] ELSE turn[t]]
    /\ task' = [t \in TurnIds |-> "none"]
    /\ writing' = {}
    /\ retrying' = NoRow
    /\ told' = [t \in TurnIds |-> << >>]
    /\ UNCHANGED <<hroot, conv, started, convs>>

HistNext ==
    \/ create_agent_conversation
    \/ \E o \in StartOutcomes :
          \/ create_agent_turn_with_conversation(o)
          \/ \E c \in ConvIds : create_agent_turn_in_conversation(c, o)
          \/ retry_agent_turn(o)
    \/ \E t \in TurnIds :
          \/ agent_retry_source(t)
          \/ LoadHistory(t)
          \/ \E s \in {"completed", "failed"} : finish_agent_turn(t, s)
          \/ TaskRemoved(t)
          \/ cancel_agent_turn(t)
          \/ BeginFileOperation(t)
          \/ EndFileOperation(t)
    \/ \E c \in ConvIds : delete_agent_conversation(c)
    \/ clear_agent_history
    \/ \E p \in HistProjects : LeaveProject(p)
    \/ recover_incomplete_agent_turns

HistSpec == HistInit /\ [][HistNext]_histvars

(***************************************************************************)
(* Properties                                                              *)
(***************************************************************************)

\* Deleting and clearing history never takes the rows from under a task or a
\* file operation, a Conversation never has two turns under way and its
\* summary tells whether it has one, and a retry stays in the Conversation of
\* its source and repeats its prompt.
ConversationsStayWhole ==
    /\ \A t \in Active \cup writing :
          turn[t].row /\ conv[turn[t].conv].row /\ conv[turn[t].conv].project = turn[t].project
    /\ \A c \in ConvIds : Cardinality({t \in InConversation(c) : turn[t].status \in Nonterminal}) <= 1
    /\ \A p \in HistProjects : \A s \in list_agent_conversations(p) :
          s.status \in Nonterminal <=> \E t \in InConversation(s.id) : turn[t].status \in Nonterminal
    /\ \A t \in TurnRows : turn[t].source # NoTurn =>
          /\ turn[turn[t].source].conv = turn[t].conv
          /\ turn[turn[t].source].prompt = turn[t].prompt

\* The turns that ended before a turn in its Conversation and project.
Earlier(t) ==
    {e \in TurnRows : /\ e < t
                      /\ turn[e].conv = turn[t].conv /\ turn[e].project = turn[t].project
                      /\ turn[e].status \in {"completed", "failed"}}

TellsOwnHistory(t) ==
    /\ task[t] = "loading" /\ task'[t] = "running" =>
          /\ \A i \in 1 .. Len(told'[t]) : told'[t][i] \in Earlier(t)
          /\ \A i, j \in 1 .. Len(told'[t]) : i < j => told'[t][i] < told'[t][j]
          /\ Len(told'[t]) <= HISTORY_LIMIT
          /\ \A e \in Earlier(t) :
                \/ \E i \in 1 .. Len(told'[t]) : told'[t][i] = e
                \/ Len(told'[t]) = HISTORY_LIMIT /\ \A i \in 1 .. Len(told'[t]) : e < told'[t][i]
    /\ told'[t] # told[t] /\ told'[t] # << >> => task[t] = "loading" /\ task'[t] = "running"

\* What a prompt tells of earlier turns: at the moment it is built, the newest of
\* the turns that were started before it in its own Conversation and project and
\* have ended, in their order, all of them up to the limit; and a prompt that was
\* built is not rebuilt.
PromptsTellOwnHistory == [][\A t \in TurnIds : TellsOwnHistory(t)]_histvars
=============================================================================
