------------------------- MODULE FileMutationsProofs -------------------------
(***************************************************************************)
(* What FileMutations guarantees for any number of commands, proposals,    *)
(* files and mutations: its types, the path lane's promise that no command *)
(* silently overwrites what another one wrote, and, when no start runs     *)
(* beside a command, one terminal event for each mutation and uncertain    *)
(* outcomes that stay.                                                     *)
(***************************************************************************)
EXTENDS FileMutations, TLAPS

Inside == {"inspect", "begin", "write", "record", "finish"}
Recorded == {"write", "record", "finish"}

\* What a command expects to find on disk
Before(k) == IF Create(k) THEN Absent ELSE cmd[k].expected

\* A claim names a proposal and a text, and the claim of an undo a digest; one that
\* is about to be recorded fits the text.
Claims ==
    \A k \in Commands :
        /\ cmd[k].pc # "idle" => /\ cmd[k].proposal \in Proposals
                                 /\ cmd[k].editor \in Texts
                                 /\ cmd[k].action = "undo" => cmd[k].expected \in Texts
        /\ cmd[k].pc = "begin" => EditFits(k)

\* A command past its admission holds the lane of its file; a recorded one works
\* on the mutation it started.
LaneDiscipline ==
    \A k \in Commands :
        /\ cmd[k].pc \in Inside => lane[Path(k)] = k
        /\ cmd[k].pc \in Recorded => cmd[k].mutation \in Mutations /\ Started(cmd[k].mutation)
        /\ cmd[k].pc \notin Recorded => cmd[k].mutation = None

\* Between the comparison and the write the file is as it was compared, or the
\* user has saved it since.
WriteDiscipline ==
    \A k \in Commands :
        /\ cmd[k].pc = "begin" => disk[Path(k)] = Before(k) \/ author[Path(k)] = User
        /\ cmd[k].pc = "write" => \/ disk[Path(k)] = ledger[cmd[k].mutation].before
                                  \/ author[Path(k)] = User

Inv == TypeOK /\ Claims /\ LaneDiscipline /\ WriteDiscipline

\* When no start runs beside a command: a command's mutation is open and its own,
\* and so is what a recovery has on its list.
Closing ==
    /\ \A k \in Commands : cmd[k].mutation # None => Open(cmd[k].mutation)
    /\ \A j, k \in Commands : cmd[j].mutation # None /\ cmd[j].mutation = cmd[k].mutation => j = k
    /\ \A m \in todo : Open(m)
    /\ todo # {} => start \in {"bootscan", "syncscan"}
    /\ start # "off" => \A k \in Commands : cmd[k].pc = "idle"
    /\ OneTerminalEvent

\* When, besides, undo is only called for what was applied, turns with claims or
\* mutations are over and no claim is ever cancelled; ...
Uncancelled ==
    /\ \A k \in Commands : cmd[k].pc # "idle" => ~active[cmd[k].proposal]
    /\ \A k \in Commands : ~cmd[k].cancelled
    /\ \A p \in Proposals : applied[p] # None => ~active[p]
    /\ \A m \in Mutations : Started(m) => ~active[ledger[m].proposal]

\* ... so the holder of a lane is the only one to move its proposal, and a proposal
\* with an open mutation, of which there is one, is mutating.
OneMover ==
    /\ \A k \in Commands : cmd[k].pc \in {"inspect", "begin"} =>
         st[cmd[k].proposal] \in {"available", "applied"}
    /\ \A k \in Commands : cmd[k].pc \in Recorded =>
         ledger[cmd[k].mutation].proposal = cmd[k].proposal
    /\ \A m \in Mutations : Open(m) => st[ledger[m].proposal] = "mutating"
    /\ \A m, o \in Mutations :
         Open(m) /\ Open(o) /\ ledger[m].proposal = ledger[o].proposal => m = o

Folding == Uncancelled /\ OneMover

\* The last successful apply of a proposal is one of its started applies, and a
\* proposal that reads as applied or undone has one.
AppliedOK(p) ==
    /\ applied[p] # None => /\ Started(applied[p])
                            /\ ledger[applied[p]].proposal = p
                            /\ ledger[applied[p]].action = "apply"
    /\ st[p] \in {"applied", "undone"} => applied[p] # None

\* Only what was started ends, and what a started undo was recorded with is what
\* the apply it undoes left and found.
MutationOK(m) ==
    /\ ~Started(m) => ends[m] = 0
    /\ Open(m) /\ ledger[m].action = "undo" =>
         LET p == ledger[m].proposal IN
         /\ applied[p] # None
         /\ ledger[m].after = IF p \in Creates THEN Absent ELSE ledger[applied[p]].restore

\* An admitted command finds the proposal as it was when it was admitted, and a
\* recorded one is about the mutation it recorded.
CommandOK(k) ==
    /\ cmd[k].pc \in {"inspect", "begin"} =>
         LET p == cmd[k].proposal IN
         IF cmd[k].action = "apply"
           THEN st[p] = "available"
           ELSE /\ st[p] = "applied"
                /\ cmd[k].expected = ledger[applied[p]].after
                /\ cmd[k].editor = ledger[applied[p]].restore
    /\ cmd[k].pc \in Recorded => ledger[cmd[k].mutation].action = cmd[k].action

\* m is open, and no command is about to write for it
Written(m) == Open(m) /\ \A k \in Commands : cmd[k].mutation = m => cmd[k].pc # "write"

\* m is open, and no command has written for it
Unwritten(m) == Open(m) /\ \A k \in Commands : cmd[k].mutation = m => cmd[k].pc = "write"

\* What p's apply left is what the ledger says, or is being undone
AfterApply(p) ==
    LET f == PathOf[p] IN
    \/ st[p] = "uncertain"
    \/ st[p] = "applied" /\ disk[f] = ledger[applied[p]].after
    \/ st[p] = "undone" /\ disk[f] = ledger[applied[p]].restore
    \/ \E m \in Mutations :
         /\ ledger[m].proposal = p
         /\ \/ Written(m) /\ ledger[m].action = "apply" /\ disk[f] = ledger[m].after
            \/ Unwritten(m) /\ ledger[m].action = "undo" /\ disk[f] = ledger[applied[p]].after

AfterUndo(p) ==
    \/ st[p] \in {"undone", "uncertain"}
    \/ \E m \in Mutations : /\ ledger[m].proposal = p /\ Written(m) /\ ledger[m].action = "undo"
                            /\ disk[PathOf[p]] = ledger[m].after

Accounted(p) ==
    /\ author[PathOf[p]] = <<p, "apply">> => AfterApply(p)
    /\ author[PathOf[p]] = <<p, "undo">> => AfterUndo(p)

Accounting ==
    /\ \A p \in Proposals : AppliedOK(p) /\ Accounted(p)
    /\ \A m \in Mutations : MutationOK(m)
    /\ \A k \in Commands : CommandOK(k)

-----------------------------------------------------------------------------
(* Types *)

\* What a failed or cancelled mutation folds to is a state.
LEMMA ReopenedType ==
  ASSUME NEW p
  PROVE  Reopened(p) \in States
BY DEF Reopened, States

\* An appended event changes a folded state to another.
LEMMA AppendType ==
  ASSUME TypeOK, NEW p, NEW s \in States, Append(p, s)
  PROVE  (st' \in [Proposals -> States]) /\ (applied' \in [Proposals -> Mutations \cup {None}])
BY DEF TypeOK, Append

\* applied, undone and recovered fold to a state and to a successful apply.
LEMMA AppendSuccessType ==
  ASSUME TypeOK, NEW m \in Mutations, AppendSuccess(m)
  PROVE  (st' \in [Proposals -> States]) /\ (applied' \in [Proposals -> Mutations \cup {None}])
<1>1. CASE ledger[m].action = "apply"
  BY <1>1 DEF TypeOK, AppendSuccess, States
<1>2. CASE ledger[m].action # "apply"
  BY <1>2, AppendType DEF AppendSuccess, States
<1>. QED BY <1>1, <1>2

\* A terminal event is counted.
LEMMA ClosesType ==
  ASSUME TypeOK, NEW m \in Mutations, Closes(m)
  PROVE  ends' \in [Mutations -> Nat]
BY DEF TypeOK, Closes

\* A command goes on to one of its labels.
LEMMA AtType ==
  ASSUME TypeOK, NEW k \in Commands, NEW label \in Labels, At(k, label)
  PROVE  cmd' \in [Commands -> ClaimRecords]
BY DEF TypeOK, At, ClaimRecords

\* A claim that is cancelled is a claim, and so is one that is given its mutation.
LEMMA ClaimCancelled ==
  ASSUME NEW c \in ClaimRecords
  PROVE  [c EXCEPT !.cancelled = TRUE] \in ClaimRecords
BY DEF ClaimRecords

\* A claim whose mutation was recorded is a claim.
LEMMA ClaimRecorded ==
  ASSUME NEW c \in ClaimRecords, NEW m \in Mutations
  PROVE  [c EXCEPT !.pc = "write", !.mutation = m] \in ClaimRecords
BY DEF ClaimRecords, Labels

\* A command that returns leaves no claim and no lane.
LEMMA ReturnType ==
  ASSUME TypeOK, NEW k \in Commands, Return(k)
  PROVE  /\ cmd' \in [Commands -> ClaimRecords]
         /\ lane' \in [Paths -> Commands \cup {None}]
BY DEF TypeOK, Return, ClaimRecords, IdleCommand, Labels, Actions, Contents

\* A command that ends with its last event, appended or lost, keeps the types.
LEMMA ConcludeType ==
  ASSUME Inv, NEW k \in Commands, cmd[k].pc \in Recorded, NEW s \in States, Conclude(k, s)
  PROVE  TypeOK'
<1>1. cmd[k].mutation \in Mutations
  BY DEF Inv, LaneDiscipline
<1>2. TypeOK
  BY DEF Inv
<1>3. /\ st' \in [Proposals -> States]
      /\ applied' \in [Proposals -> Mutations \cup {None}]
      /\ ends' \in [Mutations -> Nat]
  <2>1. CASE Append(cmd[k].proposal, s) /\ Closes(cmd[k].mutation)
    BY <1>1, <1>2, <2>1, AppendType, ClosesType
  <2>2. CASE UNCHANGED <<st, applied, ends>>
    BY <1>2, <2>2 DEF TypeOK
  <2>. QED BY <2>1, <2>2 DEF Conclude
<1>. QED BY <1>2, <1>3, ReturnType DEF Conclude, TypeOK, startVars

\* Every action keeps every variable in its type: register and the fold of the
\* ledger only ever store what the claims carry.
LEMMA TypeStep ==
  ASSUME Inv, Next
  PROVE  TypeOK'
<1>. USE FileAssumption DEF Inv, TypeOK, ClaimRecords, Contents, Actions, States, Labels, Phases, User, IdleCommand, Reopened
<1>1. ASSUME NEW k \in Commands, NEW a \in Actions, NEW p \in Proposals, NEW text \in Texts,
               NEW e \in Contents, Register(k, a, p, text, e) PROVE TypeOK'
  BY <1>1 DEF Register, logVars, startVars
<1>2. ASSUME NEW k \in Commands, Admit(k) PROVE TypeOK'
  BY <1>2, ReopenedType, AppendType, AtType, ReturnType
     DEF Admit, logVars, startVars, Labels
<1>3. ASSUME NEW k \in Commands, Inspect(k) PROVE TypeOK'
  BY <1>3, AtType DEF Inspect, logVars, startVars, Labels
<1>4. ASSUME NEW k \in Commands, InspectStale(k) PROVE TypeOK'
  BY <1>4, AppendType, ReturnType DEF InspectStale, startVars, States
<1>5. ASSUME NEW k \in Commands, Refuse(k) PROVE TypeOK'
  BY <1>5, ReturnType DEF Refuse, logVars, startVars
<1>6. ASSUME NEW k \in Commands, NEW m \in Mutations, Begin(k, m) PROVE TypeOK'
  <2>. DEFINE entry == IF cmd[k].action = "apply"
                         THEN [proposal |-> cmd[k].proposal, action |-> "apply",
                               before |-> IF cmd[k].proposal \in Creates THEN Absent ELSE cmd[k].expected,
                               after |-> EditOf[cmd[k].proposal][cmd[k].editor], restore |-> cmd[k].editor]
                         ELSE [proposal |-> cmd[k].proposal, action |-> "undo", before |-> cmd[k].expected,
                               after |-> IF cmd[k].proposal \in Creates THEN Absent ELSE cmd[k].editor,
                               restore |-> Absent]
  <2>1. entry \in Ledgers
    BY <1>6 DEF Begin, Claims, EditFits, Ledgers
  <2>2. ledger' \in [Mutations -> {NoLedger} \cup Ledgers]
    BY <1>6, <2>1 DEF Begin
  <2>3. cmd' \in [Commands -> ClaimRecords]
    <3>. HIDE DEF ClaimRecords
    <3>1. cmd' = [cmd EXCEPT ![k] = [cmd[k] EXCEPT !.pc = "write", !.mutation = m]]
      BY <1>6 DEF Begin
    <3>. QED BY <3>1, ClaimRecorded
  <2>. QED BY <1>6, <2>2, <2>3, AppendType DEF Begin, startVars
<1>7. ASSUME NEW k \in Commands, Write(k) PROVE TypeOK'
  <2>1. ledger[cmd[k].mutation].after \in Contents
    BY <1>7 DEF Write, LaneDiscipline, Recorded, NoLedger, Ledgers
  <2>2. cmd[k].proposal \in Proposals
    BY <1>7 DEF Write, Claims
  <2>. QED BY <1>7, <2>1, <2>2, AtType DEF Write, logVars, startVars, Labels
<1>8. ASSUME NEW k \in Commands, WriteFails(k) PROVE TypeOK'
  <2>1. PICK s \in States : Conclude(k, s)
    BY <1>8, ReopenedType DEF WriteFails, States
  <2>. QED BY <1>8, <2>1, ConcludeType DEF WriteFails, Recorded
<1>9. ASSUME NEW k \in Commands, RecordChange(k) PROVE TypeOK'
  BY <1>9, AtType DEF RecordChange, logVars, startVars, Labels
<1>10. ASSUME NEW k \in Commands, Finish(k) PROVE TypeOK'
  <2>1. cmd[k].mutation \in Mutations
    BY <1>10 DEF Finish, LaneDiscipline, Recorded
  <2>. QED BY <2>1, <1>10, AppendSuccessType, ClosesType, ReturnType DEF Finish, startVars
<1>11. ASSUME NEW k \in Commands, PostwriteFails(k) PROVE TypeOK'
  BY <1>11, ConcludeType DEF PostwriteFails, Recorded, States
<1>12. ASSUME NEW f \in Paths, NEW text \in Contents, UserWrites(f, text) PROVE TypeOK'
  BY <1>12 DEF UserWrites, logVars, startVars
<1>13. ASSUME NEW p \in Proposals, FinishTurn(p) PROVE TypeOK'
  BY <1>13 DEF FinishTurn, logVars, startVars
<1>14. ASSUME NEW p \in Proposals, CancelTurn(p) PROVE TypeOK'
  <2>1. \A k \in Commands : [cmd[k] EXCEPT !.cancelled = TRUE] \in ClaimRecords
    BY ClaimCancelled
  <2>2. cmd' \in [Commands -> ClaimRecords]
    BY <1>14, <2>1 DEF CancelTurn
  <2>. QED BY <1>14, <2>2 DEF CancelTurn, logVars, startVars
<1>15. ASSUME Crash PROVE TypeOK'
  BY <1>15 DEF Crash, logVars, startVars
<1>16. ASSUME BeginStart PROVE TypeOK'
  BY <1>16 DEF BeginStart, logVars, startVars
<1>17. ASSUME Retire PROVE TypeOK'
  BY <1>17 DEF Retire, logVars, startVars
<1>18. ASSUME StartFails PROVE TypeOK'
  BY <1>18 DEF StartFails, logVars, startVars
<1>19. ASSUME Scan PROVE TypeOK'
  BY <1>19 DEF Scan, Incomplete, logVars, startVars
<1>20. ASSUME NEW m \in Mutations, RecoverOne(m) PROVE TypeOK'
  <2>1. (st' \in [Proposals -> States]) /\ (applied' \in [Proposals -> Mutations \cup {None}])
    BY <1>20, ReopenedType, AppendType, AppendSuccessType DEF RecoverOne, Reconcile, States
  <2>. QED BY <1>20, <2>1, ClosesType DEF RecoverOne
<1>21. ASSUME NEW next \in {"off", "sync"}, EndScan(next) PROVE TypeOK'
  BY <1>21 DEF EndScan, logVars, startVars
<1>. QED
  BY <1>1, <1>2, <1>3, <1>4, <1>5, <1>6, <1>7, <1>8, <1>9, <1>10, <1>11, <1>12, <1>13, <1>14, <1>15, <1>16, <1>17, <1>18, <1>19, <1>20, <1>21
     DEF Next, CommandStep, StartStep, UserStep

-----------------------------------------------------------------------------
(* Claims and lanes *)

\* What Claims speaks of.
LEMMA ClaimsFrame ==
  ASSUME Claims, UNCHANGED cmd
  PROVE  Claims'
BY DEF Claims, EditFits, Create

\* No action loses or mixes up what a claim carries.
LEMMA ClaimsStep ==
  ASSUME Inv, Next
  PROVE  Claims'
<1>. USE FileAssumption DEF Inv, TypeOK, ClaimRecords, IdleCommand, Claims, EditFits, Actions, Contents
<1>1. ASSUME NEW k \in Commands, NEW a \in Actions, NEW p \in Proposals, NEW text \in Texts,
               NEW e \in Contents, Register(k, a, p, text, e) PROVE Claims'
  BY <1>1 DEF Register
<1>2. ASSUME NEW k \in Commands, Admit(k) PROVE Claims'
  <2>1. UNCHANGED <<disk, author, ledger>>
    BY <1>2 DEF Admit
  <2>2. CASE Return(k)
    BY <2>1, <2>2 DEF Return
  <2>3. CASE At(k, "inspect") /\ cmd[k].pc = "queued" /\ LaneFree(k) /\ lane' = [lane EXCEPT ![Path(k)] = k]
    BY <2>1, <2>3 DEF At, LaneFree
  <2>. QED BY <1>2, <2>2, <2>3 DEF Admit
<1>3. ASSUME NEW k \in Commands, Inspect(k) PROVE Claims'
  BY <1>3 DEF Inspect, At
<1>4. ASSUME NEW k \in Commands, InspectStale(k) PROVE Claims'
  BY <1>4 DEF InspectStale, Return
<1>5. ASSUME NEW k \in Commands, Refuse(k) PROVE Claims'
  BY <1>5 DEF Refuse, Return
<1>6. ASSUME NEW k \in Commands, NEW m \in Mutations, Begin(k, m) PROVE Claims'
  BY <1>6 DEF Begin
<1>7. ASSUME NEW k \in Commands, Write(k) PROVE Claims'
  BY <1>7 DEF Write, At
<1>8. ASSUME NEW k \in Commands, WriteFails(k) PROVE Claims'
  BY <1>8 DEF WriteFails, Conclude, Return
<1>9. ASSUME NEW k \in Commands, RecordChange(k) PROVE Claims'
  BY <1>9 DEF RecordChange, At
<1>10. ASSUME NEW k \in Commands, Finish(k) PROVE Claims'
  BY <1>10 DEF Finish, Return
<1>11. ASSUME NEW k \in Commands, PostwriteFails(k) PROVE Claims'
  BY <1>11 DEF PostwriteFails, Conclude, Return
<1>14. ASSUME NEW p \in Proposals, CancelTurn(p) PROVE Claims'
  BY <1>14 DEF CancelTurn
<1>15. ASSUME Crash PROVE Claims'
  BY <1>15 DEF Crash
<1>. HIDE FileAssumption DEF Inv, TypeOK, ClaimRecords, IdleCommand, Claims, EditFits, Actions, Contents
<1>22. Claims
  BY DEF Inv
<1>13. ASSUME NEW p \in Proposals, FinishTurn(p) PROVE Claims'
  BY <1>13, <1>22, ClaimsFrame DEF FinishTurn, logVars
<1>16. ASSUME BeginStart PROVE Claims'
  BY <1>16, <1>22, ClaimsFrame DEF BeginStart, logVars
<1>17. ASSUME Retire PROVE Claims'
  BY <1>17, <1>22, ClaimsFrame DEF Retire, logVars
<1>18. ASSUME StartFails PROVE Claims'
  BY <1>18, <1>22, ClaimsFrame DEF StartFails, logVars
<1>19. ASSUME Scan PROVE Claims'
  BY <1>19, <1>22, ClaimsFrame DEF Scan, logVars
<1>20. ASSUME NEW m \in Mutations, RecoverOne(m) PROVE Claims'
  BY <1>20, <1>22, ClaimsFrame DEF RecoverOne, logVars
<1>21. ASSUME NEW next \in {"off", "sync"}, EndScan(next) PROVE Claims'
  BY <1>21, <1>22, ClaimsFrame DEF EndScan, logVars
<1>12. ASSUME NEW f \in Paths, NEW text \in Contents, UserWrites(f, text) PROVE Claims'
  BY <1>12, <1>22, ClaimsFrame DEF UserWrites, logVars
<1>. QED
  BY <1>1, <1>2, <1>3, <1>4, <1>5, <1>6, <1>7, <1>8, <1>9, <1>10, <1>11, <1>12, <1>13, <1>14, <1>15, <1>16, <1>17, <1>18, <1>19, <1>20, <1>21
     DEF Next, CommandStep, StartStep, UserStep

\* Lanes, claims and started mutations are all that LaneDiscipline speaks of.
LEMMA LaneDisciplineFrame ==
  ASSUME LaneDiscipline, UNCHANGED <<cmd, lane, ledger>>
  PROVE  LaneDiscipline'
BY DEF LaneDiscipline, Path, Started

\* A lane is given to one command at a time and goes back only when that returns.
LEMMA LaneDisciplineStep ==
  ASSUME Inv, Next
  PROVE  LaneDiscipline'
<1>. USE FileAssumption DEF Inv, TypeOK, ClaimRecords, IdleCommand, Claims, LaneDiscipline, Inside, Recorded, Path, Started, logVars
<1>1. ASSUME NEW k \in Commands, NEW a \in Actions, NEW p \in Proposals, NEW text \in Texts,
               NEW e \in Contents, Register(k, a, p, text, e) PROVE LaneDiscipline'
  BY <1>1 DEF Register
<1>2. ASSUME NEW k \in Commands, Admit(k) PROVE LaneDiscipline'
  <2>1. UNCHANGED <<disk, author, ledger>>
    BY <1>2 DEF Admit
  <2>2. CASE Return(k)
    BY <2>1, <2>2 DEF Return
  <2>3. CASE At(k, "inspect") /\ cmd[k].pc = "queued" /\ LaneFree(k) /\ lane' = [lane EXCEPT ![Path(k)] = k]
    BY <2>1, <2>3 DEF At, LaneFree
  <2>. QED BY <1>2, <2>2, <2>3 DEF Admit
<1>3. ASSUME NEW k \in Commands, Inspect(k) PROVE LaneDiscipline'
  BY <1>3 DEF Inspect, At
<1>4. ASSUME NEW k \in Commands, InspectStale(k) PROVE LaneDiscipline'
  BY <1>4 DEF InspectStale, Return
<1>5. ASSUME NEW k \in Commands, Refuse(k) PROVE LaneDiscipline'
  BY <1>5 DEF Refuse, Return
<1>6. ASSUME NEW k \in Commands, NEW m \in Mutations, Begin(k, m) PROVE LaneDiscipline'
  BY <1>6 DEF Begin
<1>7. ASSUME NEW k \in Commands, Write(k) PROVE LaneDiscipline'
  BY <1>7 DEF Write, At
<1>8. ASSUME NEW k \in Commands, WriteFails(k) PROVE LaneDiscipline'
  BY <1>8 DEF WriteFails, Conclude, Return
<1>9. ASSUME NEW k \in Commands, RecordChange(k) PROVE LaneDiscipline'
  BY <1>9 DEF RecordChange, At
<1>10. ASSUME NEW k \in Commands, Finish(k) PROVE LaneDiscipline'
  BY <1>10 DEF Finish, Return
<1>11. ASSUME NEW k \in Commands, PostwriteFails(k) PROVE LaneDiscipline'
  BY <1>11 DEF PostwriteFails, Conclude, Return
<1>14. ASSUME NEW p \in Proposals, CancelTurn(p) PROVE LaneDiscipline'
  BY <1>14 DEF CancelTurn
<1>15. ASSUME Crash PROVE LaneDiscipline'
  BY <1>15 DEF Crash
<1>. HIDE FileAssumption DEF Inv, TypeOK, ClaimRecords, IdleCommand, Claims, LaneDiscipline, Inside, Recorded, Path, Started, logVars
<1>22. LaneDiscipline
  BY DEF Inv
<1>13. ASSUME NEW p \in Proposals, FinishTurn(p) PROVE LaneDiscipline'
  BY <1>13, <1>22, LaneDisciplineFrame DEF FinishTurn, logVars
<1>16. ASSUME BeginStart PROVE LaneDiscipline'
  BY <1>16, <1>22, LaneDisciplineFrame DEF BeginStart, logVars
<1>17. ASSUME Retire PROVE LaneDiscipline'
  BY <1>17, <1>22, LaneDisciplineFrame DEF Retire, logVars
<1>18. ASSUME StartFails PROVE LaneDiscipline'
  BY <1>18, <1>22, LaneDisciplineFrame DEF StartFails, logVars
<1>19. ASSUME Scan PROVE LaneDiscipline'
  BY <1>19, <1>22, LaneDisciplineFrame DEF Scan, logVars
<1>20. ASSUME NEW m \in Mutations, RecoverOne(m) PROVE LaneDiscipline'
  BY <1>20, <1>22, LaneDisciplineFrame DEF RecoverOne, logVars
<1>21. ASSUME NEW next \in {"off", "sync"}, EndScan(next) PROVE LaneDiscipline'
  BY <1>21, <1>22, LaneDisciplineFrame DEF EndScan, logVars
<1>12. ASSUME NEW f \in Paths, NEW text \in Contents, UserWrites(f, text) PROVE LaneDiscipline'
  BY <1>12, <1>22, LaneDisciplineFrame DEF UserWrites, logVars
<1>. QED
  BY <1>1, <1>2, <1>3, <1>4, <1>5, <1>6, <1>7, <1>8, <1>9, <1>10, <1>11, <1>12, <1>13, <1>14, <1>15, <1>16, <1>17, <1>18, <1>19, <1>20, <1>21
     DEF Next, CommandStep, StartStep, UserStep

\* What WriteDiscipline speaks of.
LEMMA WriteDisciplineFrame ==
  ASSUME WriteDiscipline, UNCHANGED <<cmd, disk, author, ledger>>
  PROVE  WriteDiscipline'
BY DEF WriteDiscipline, Path, Before, Create

\* Whoever writes the file holds its lane, or is the user.
LEMMA WriteDisciplineStep ==
  ASSUME Inv, Next
  PROVE  WriteDiscipline'
<1>. USE FileAssumption DEF Inv, TypeOK, ClaimRecords, IdleCommand, Claims, LaneDiscipline, WriteDiscipline, Before, Create, Inside, Recorded, Path, Started, logVars, User
<1>1. ASSUME NEW k \in Commands, NEW a \in Actions, NEW p \in Proposals, NEW text \in Texts,
               NEW e \in Contents, Register(k, a, p, text, e) PROVE WriteDiscipline'
  BY <1>1 DEF Register
<1>2. ASSUME NEW k \in Commands, Admit(k) PROVE WriteDiscipline'
  <2>1. UNCHANGED <<disk, author, ledger>>
    BY <1>2 DEF Admit
  <2>2. CASE Return(k)
    BY <2>1, <2>2 DEF Return
  <2>3. CASE At(k, "inspect") /\ cmd[k].pc = "queued" /\ LaneFree(k) /\ lane' = [lane EXCEPT ![Path(k)] = k]
    BY <2>1, <2>3 DEF At, LaneFree
  <2>. QED BY <1>2, <2>2, <2>3 DEF Admit
<1>3. ASSUME NEW k \in Commands, Inspect(k) PROVE WriteDiscipline'
  BY <1>3 DEF Inspect, At, DiskMatches
<1>4. ASSUME NEW k \in Commands, InspectStale(k) PROVE WriteDiscipline'
  BY <1>4 DEF InspectStale, Return
<1>5. ASSUME NEW k \in Commands, Refuse(k) PROVE WriteDiscipline'
  BY <1>5 DEF Refuse, Return
<1>6. ASSUME NEW k \in Commands, NEW m \in Mutations, Begin(k, m) PROVE WriteDiscipline'
  BY <1>6 DEF Begin
<1>7. ASSUME NEW k \in Commands, Write(k) PROVE WriteDiscipline'
  BY <1>7 DEF Write, At
<1>8. ASSUME NEW k \in Commands, WriteFails(k) PROVE WriteDiscipline'
  BY <1>8 DEF WriteFails, Conclude, Return
<1>9. ASSUME NEW k \in Commands, RecordChange(k) PROVE WriteDiscipline'
  BY <1>9 DEF RecordChange, At
<1>10. ASSUME NEW k \in Commands, Finish(k) PROVE WriteDiscipline'
  BY <1>10 DEF Finish, Return
<1>11. ASSUME NEW k \in Commands, PostwriteFails(k) PROVE WriteDiscipline'
  BY <1>11 DEF PostwriteFails, Conclude, Return
<1>12. ASSUME NEW f \in Paths, NEW text \in Contents, UserWrites(f, text) PROVE WriteDiscipline'
  BY <1>12 DEF UserWrites
<1>14. ASSUME NEW p \in Proposals, CancelTurn(p) PROVE WriteDiscipline'
  BY <1>14 DEF CancelTurn
<1>15. ASSUME Crash PROVE WriteDiscipline'
  BY <1>15 DEF Crash
<1>. HIDE FileAssumption DEF Inv, TypeOK, ClaimRecords, IdleCommand, Claims, LaneDiscipline, WriteDiscipline, Before, Create, Inside, Recorded, Path, Started, logVars, User
<1>22. WriteDiscipline
  BY DEF Inv
<1>13. ASSUME NEW p \in Proposals, FinishTurn(p) PROVE WriteDiscipline'
  BY <1>13, <1>22, WriteDisciplineFrame DEF FinishTurn, logVars
<1>16. ASSUME BeginStart PROVE WriteDiscipline'
  BY <1>16, <1>22, WriteDisciplineFrame DEF BeginStart, logVars
<1>17. ASSUME Retire PROVE WriteDiscipline'
  BY <1>17, <1>22, WriteDisciplineFrame DEF Retire, logVars
<1>18. ASSUME StartFails PROVE WriteDiscipline'
  BY <1>18, <1>22, WriteDisciplineFrame DEF StartFails, logVars
<1>19. ASSUME Scan PROVE WriteDiscipline'
  BY <1>19, <1>22, WriteDisciplineFrame DEF Scan, logVars
<1>20. ASSUME NEW m \in Mutations, RecoverOne(m) PROVE WriteDiscipline'
  BY <1>20, <1>22, WriteDisciplineFrame DEF RecoverOne, logVars
<1>21. ASSUME NEW next \in {"off", "sync"}, EndScan(next) PROVE WriteDiscipline'
  BY <1>21, <1>22, WriteDisciplineFrame DEF EndScan, logVars
<1>. QED
  BY <1>1, <1>2, <1>3, <1>4, <1>5, <1>6, <1>7, <1>8, <1>9, <1>10, <1>11, <1>12, <1>13, <1>14, <1>15, <1>16, <1>17, <1>18, <1>19, <1>20, <1>21
     DEF Next, CommandStep, StartStep, UserStep

-----------------------------------------------------------------------------
(* Closing mutations *)

\* A command that ends closes at most its own mutation.
LEMMA ClosingConclude ==
  ASSUME Inv, Closing, NEW k \in Commands, cmd[k].pc \in Recorded, NEW s, Conclude(k, s)
  PROVE  Closing'
<1>. USE FileAssumption DEF Inv, TypeOK, ClaimRecords, IdleCommand, LaneDiscipline, Closing, OneTerminalEvent,
         Open, Started, Recorded
<1>1. Return(k) /\ UNCHANGED <<ledger, start, todo>>
  BY DEF Conclude, startVars
<1>2. CASE Closes(cmd[k].mutation)
  BY <1>1, <1>2 DEF Return, Closes
<1>3. CASE UNCHANGED ends
  BY <1>1, <1>3 DEF Return
<1>. QED BY <1>2, <1>3 DEF Conclude

\* When no start runs beside a command, only a mutation's command closes it, or,
\* after the command has died, the recovery that has it on its list.
LEMMA ClosingStep ==
  ASSUME LiveStart = FALSE, Inv, Closing, Next
  PROVE  Closing'
<1>. USE FileAssumption DEF Inv, TypeOK, ClaimRecords, IdleCommand, LaneDiscipline, Closing, OneTerminalEvent, Open, Started, Recorded, Inside, NoLedger, logVars, startVars
<1>1. ASSUME NEW k \in Commands, NEW a \in Actions, NEW p \in Proposals, NEW text \in Texts,
               NEW e \in Contents, Register(k, a, p, text, e) PROVE Closing'
  BY <1>1 DEF Register
<1>2. ASSUME NEW k \in Commands, Admit(k) PROVE Closing'
  <2>1. UNCHANGED <<ledger, ends, start, todo>> /\ start = "off"
    BY <1>2 DEF Admit
  <2>2. CASE Return(k)
    BY <2>1, <2>2 DEF Return
  <2>3. CASE At(k, "inspect") /\ cmd[k].pc = "queued" /\ LaneFree(k) /\ lane' = [lane EXCEPT ![Path(k)] = k]
    BY <2>1, <2>3 DEF At, LaneFree
  <2>. QED BY <1>2, <2>2, <2>3 DEF Admit
<1>3. ASSUME NEW k \in Commands, Inspect(k) PROVE Closing'
  BY <1>3 DEF Inspect, At
<1>4. ASSUME NEW k \in Commands, InspectStale(k) PROVE Closing'
  BY <1>4 DEF InspectStale, Return
<1>5. ASSUME NEW k \in Commands, Refuse(k) PROVE Closing'
  BY <1>5 DEF Refuse, Return
<1>6. ASSUME NEW k \in Commands, NEW m \in Mutations, Begin(k, m) PROVE Closing'
  BY <1>6 DEF Begin
<1>7. ASSUME NEW k \in Commands, Write(k) PROVE Closing'
  BY <1>7 DEF Write, At
<1>8. ASSUME NEW k \in Commands, WriteFails(k) PROVE Closing'
  BY <1>8, ClosingConclude DEF WriteFails
<1>9. ASSUME NEW k \in Commands, RecordChange(k) PROVE Closing'
  BY <1>9 DEF RecordChange, At
<1>10. ASSUME NEW k \in Commands, Finish(k) PROVE Closing'
  BY <1>10 DEF Finish, Return, Closes
<1>11. ASSUME NEW k \in Commands, PostwriteFails(k) PROVE Closing'
  BY <1>11, ClosingConclude DEF PostwriteFails
<1>12. ASSUME NEW f \in Paths, NEW text \in Contents, UserWrites(f, text) PROVE Closing'
  BY <1>12 DEF UserWrites
<1>13. ASSUME NEW p \in Proposals, FinishTurn(p) PROVE Closing'
  BY <1>13 DEF FinishTurn
<1>14. ASSUME NEW p \in Proposals, CancelTurn(p) PROVE Closing'
  BY <1>14 DEF CancelTurn
<1>15. ASSUME Crash PROVE Closing'
  BY <1>15 DEF Crash
<1>16. ASSUME BeginStart PROVE Closing'
  BY <1>16 DEF BeginStart
<1>17. ASSUME Retire PROVE Closing'
  BY <1>17 DEF Retire
<1>18. ASSUME StartFails PROVE Closing'
  BY <1>18 DEF StartFails
<1>19. ASSUME Scan PROVE Closing'
  BY <1>19 DEF Scan, Incomplete
<1>20. ASSUME NEW m \in Mutations, RecoverOne(m) PROVE Closing'
  BY <1>20 DEF RecoverOne, Closes
<1>21. ASSUME NEW next \in {"off", "sync"}, EndScan(next) PROVE Closing'
  BY <1>21 DEF EndScan
<1>. QED
  BY <1>1, <1>2, <1>3, <1>4, <1>5, <1>6, <1>7, <1>8, <1>9, <1>10, <1>11, <1>12, <1>13, <1>14, <1>15, <1>16, <1>17, <1>18, <1>19, <1>20, <1>21
     DEF Next, CommandStep, StartStep, UserStep

-----------------------------------------------------------------------------
(* Folding the ledger *)

\* Only the turn of a proposal nobody has accepted can still be cancelled.
LEMMA UncancelledStep ==
  ASSUME EagerUndo = FALSE, Inv, Folding, Next
  PROVE  Uncancelled'
<1>. USE FileAssumption DEF Inv, TypeOK, ClaimRecords, Ledgers, IdleCommand, NoLedger, Claims, LaneDiscipline,
         Folding, Uncancelled, OneMover, Started, Recorded, Actions, logVars, startVars
<1>1. ASSUME NEW k \in Commands, NEW a \in Actions, NEW p \in Proposals, NEW text \in Texts,
               NEW e \in Contents, Register(k, a, p, text, e) PROVE Uncancelled'
  BY <1>1 DEF Register, TurnAllows
<1>2. ASSUME NEW k \in Commands, Admit(k) PROVE Uncancelled'
  <2>1. UNCHANGED <<active, applied, ledger>> /\ ~cmd[k].cancelled
    BY <1>2 DEF Admit
  <2>2. CASE Return(k)
    BY <2>1, <2>2 DEF Return
  <2>3. CASE At(k, "inspect") /\ cmd[k].pc = "queued"
    BY <2>1, <2>3 DEF At
  <2>. QED BY <1>2, <2>1, <2>2, <2>3 DEF Admit
<1>3. ASSUME NEW k \in Commands, Inspect(k) PROVE Uncancelled'
  BY <1>3 DEF Inspect, At
<1>4. ASSUME NEW k \in Commands, InspectStale(k) PROVE Uncancelled'
  BY <1>4 DEF InspectStale, Append, Return
<1>5. ASSUME NEW k \in Commands, Refuse(k) PROVE Uncancelled'
  BY <1>5 DEF Refuse, Return
<1>6. ASSUME NEW k \in Commands, NEW m \in Mutations, Begin(k, m) PROVE Uncancelled'
  BY <1>6 DEF Begin, Append
<1>7. ASSUME NEW k \in Commands, Write(k) PROVE Uncancelled'
  BY <1>7 DEF Write, At
<1>8. ASSUME NEW k \in Commands, WriteFails(k) PROVE Uncancelled'
  BY <1>8 DEF WriteFails, Conclude, Append, Return
<1>9. ASSUME NEW k \in Commands, RecordChange(k) PROVE Uncancelled'
  BY <1>9 DEF RecordChange, At
<1>10. ASSUME NEW k \in Commands, Finish(k) PROVE Uncancelled'
  BY <1>10 DEF Finish, AppendSuccess, Append, Return
<1>11. ASSUME NEW k \in Commands, PostwriteFails(k) PROVE Uncancelled'
  BY <1>11 DEF PostwriteFails, Conclude, Append, Return
<1>12. ASSUME NEW f \in Paths, NEW text \in Contents, UserWrites(f, text) PROVE Uncancelled'
  BY <1>12 DEF UserWrites
<1>13. ASSUME NEW p \in Proposals, FinishTurn(p) PROVE Uncancelled'
  BY <1>13 DEF FinishTurn
<1>14. ASSUME NEW p \in Proposals, CancelTurn(p) PROVE Uncancelled'
  BY <1>14 DEF CancelTurn
<1>15. ASSUME Crash PROVE Uncancelled'
  BY <1>15 DEF Crash
<1>16. ASSUME BeginStart PROVE Uncancelled'
  BY <1>16 DEF BeginStart
<1>17. ASSUME Retire PROVE Uncancelled'
  BY <1>17 DEF Retire
<1>18. ASSUME StartFails PROVE Uncancelled'
  BY <1>18 DEF StartFails
<1>19. ASSUME Scan PROVE Uncancelled'
  BY <1>19 DEF Scan
<1>20. ASSUME NEW m \in Mutations, RecoverOne(m) PROVE Uncancelled'
  BY <1>20 DEF RecoverOne, Reconcile, AppendSuccess, Append
<1>21. ASSUME NEW next \in {"off", "sync"}, EndScan(next) PROVE Uncancelled'
  BY <1>21 DEF EndScan
<1>. QED
  BY <1>1, <1>2, <1>3, <1>4, <1>5, <1>6, <1>7, <1>8, <1>9, <1>10, <1>11, <1>12, <1>13, <1>14, <1>15, <1>16, <1>17, <1>18, <1>19, <1>20, <1>21
     DEF Next, CommandStep, StartStep, UserStep

\* The lane of a file has one holder.
LEMMA LaneExclusive ==
  ASSUME Inv, NEW j \in Commands, NEW k \in Commands, cmd[j].pc \in Inside, cmd[k].pc \in Inside,
         cmd[j].proposal = cmd[k].proposal
  PROVE  j = k
BY DEF Inv, LaneDiscipline, Path

\* A command that ends moves its proposal only, and closes what it moved it with.
LEMMA OneMoverConclude ==
  ASSUME Inv, Closing, Folding, NEW k \in Commands, cmd[k].pc \in Recorded, NEW s, Conclude(k, s)
  PROVE  OneMover'
<1>. USE FileAssumption DEF Inv, TypeOK, ClaimRecords, Ledgers, IdleCommand, NoLedger, Claims, LaneDiscipline, Closing,
         Folding, OneMover, Open, Started, Recorded, Inside
<1>1. Return(k) /\ UNCHANGED ledger
  BY DEF Conclude
<1>2. \A j \in Commands : j # k /\ cmd[j].pc \in Inside => cmd[j].proposal # cmd[k].proposal
  BY LaneExclusive
<1>3. \A o \in Mutations : Open(o) /\ ledger[o].proposal = cmd[k].proposal => o = cmd[k].mutation
  OBVIOUS
<1>4. CASE Append(cmd[k].proposal, s) /\ Closes(cmd[k].mutation)
  BY <1>1, <1>2, <1>3, <1>4 DEF Return, Append, Closes
<1>5. CASE UNCHANGED <<st, ends>>
  BY <1>1, <1>5 DEF Return
<1>. QED BY <1>4, <1>5 DEF Conclude

\* What the fold of the ledger says of a proposal changes only with the command
\* that holds the lane, or with the recovery of its one open mutation.
LEMMA OneMoverStep ==
  ASSUME LiveStart = FALSE, Inv, Closing, Folding, Next
  PROVE  OneMover'
<1>. USE FileAssumption DEF Inv, TypeOK, ClaimRecords, Ledgers, IdleCommand, NoLedger, Claims, LaneDiscipline, Closing,
         Folding, Uncancelled, OneMover, Open, Started, Recorded, Inside, Path, logVars, startVars
<1>1. ASSUME NEW k \in Commands, NEW a \in Actions, NEW p \in Proposals, NEW text \in Texts,
               NEW e \in Contents, Register(k, a, p, text, e) PROVE OneMover'
  BY <1>1 DEF Register, TurnAllows
<1>2. ASSUME NEW k \in Commands, Admit(k) PROVE OneMover'
  <2>1. UNCHANGED <<st, ledger, ends>>
    BY <1>2 DEF Admit
  <2>2. CASE Return(k)
    BY <2>1, <2>2 DEF Return
  <2>3. CASE At(k, "inspect") /\ cmd[k].pc = "queued" /\ Available(k)
    BY <2>1, <2>3 DEF At, Available
  <2>. QED BY <1>2, <2>2, <2>3 DEF Admit
<1>3. ASSUME NEW k \in Commands, Inspect(k) PROVE OneMover'
  BY <1>3 DEF Inspect, At
<1>4. ASSUME NEW k \in Commands, InspectStale(k) PROVE OneMover'
  <2>1. \A j \in Commands : j # k /\ cmd[j].pc \in Inside => cmd[j].proposal # cmd[k].proposal
    BY <1>4, LaneExclusive DEF InspectStale
  <2>2. \A o \in Mutations : Open(o) => ledger[o].proposal # cmd[k].proposal
    BY <1>4 DEF InspectStale
  <2>. QED BY <1>4, <2>1, <2>2 DEF InspectStale, Append, Return
<1>5. ASSUME NEW k \in Commands, Refuse(k) PROVE OneMover'
  BY <1>5 DEF Refuse, Return
<1>6. ASSUME NEW k \in Commands, NEW m \in Mutations, Begin(k, m) PROVE OneMover'
  BY <1>6 DEF Begin, Append
<1>7. ASSUME NEW k \in Commands, Write(k) PROVE OneMover'
  BY <1>7 DEF Write, At
<1>8. ASSUME NEW k \in Commands, WriteFails(k) PROVE OneMover'
  BY <1>8, OneMoverConclude DEF WriteFails
<1>9. ASSUME NEW k \in Commands, RecordChange(k) PROVE OneMover'
  BY <1>9 DEF RecordChange, At
<1>10. ASSUME NEW k \in Commands, Finish(k) PROVE OneMover'
  BY <1>10 DEF Finish, AppendSuccess, Append, Return, Closes
<1>11. ASSUME NEW k \in Commands, PostwriteFails(k) PROVE OneMover'
  BY <1>11, OneMoverConclude DEF PostwriteFails
<1>12. ASSUME NEW f \in Paths, NEW text \in Contents, UserWrites(f, text) PROVE OneMover'
  BY <1>12 DEF UserWrites
<1>13. ASSUME NEW p \in Proposals, FinishTurn(p) PROVE OneMover'
  BY <1>13 DEF FinishTurn
<1>14. ASSUME NEW p \in Proposals, CancelTurn(p) PROVE OneMover'
  BY <1>14 DEF CancelTurn
<1>15. ASSUME Crash PROVE OneMover'
  BY <1>15 DEF Crash
<1>16. ASSUME BeginStart PROVE OneMover'
  BY <1>16 DEF BeginStart
<1>17. ASSUME Retire PROVE OneMover'
  BY <1>17 DEF Retire
<1>18. ASSUME StartFails PROVE OneMover'
  BY <1>18 DEF StartFails
<1>19. ASSUME Scan PROVE OneMover'
  BY <1>19 DEF Scan
<1>20. ASSUME NEW m \in Mutations, RecoverOne(m) PROVE OneMover'
  BY <1>20 DEF RecoverOne, Reconcile, AppendSuccess, Append, Closes
<1>21. ASSUME NEW next \in {"off", "sync"}, EndScan(next) PROVE OneMover'
  BY <1>21 DEF EndScan
<1>. QED
  BY <1>1, <1>2, <1>3, <1>4, <1>5, <1>6, <1>7, <1>8, <1>9, <1>10, <1>11, <1>12, <1>13, <1>14, <1>15, <1>16, <1>17, <1>18, <1>19, <1>20, <1>21
     DEF Next, CommandStep, StartStep, UserStep

\* No step takes a proposal out of uncertain.
LEMMA UncertainStep ==
  ASSUME LiveStart = FALSE, EagerUndo = FALSE, Inv, Closing, Folding, Next
  PROVE  KeepsUncertain
<1>. SUFFICES ASSUME NEW p \in Proposals, st[p] = "uncertain"
              PROVE  st'[p] = "uncertain"
  BY DEF KeepsUncertain
<1>. USE FileAssumption DEF Inv, TypeOK, Claims, LaneDiscipline, Folding, Uncancelled, OneMover, Closing,
         Recorded, Open, Append, logVars
<1>1. ASSUME NEW k \in Commands, Admit(k) PROVE st'[p] = "uncertain"
  BY <1>1 DEF Admit
<1>2. ASSUME NEW k \in Commands, InspectStale(k) PROVE st'[p] = "uncertain"
  <2>1. cmd[k].proposal # p
    BY <1>2 DEF InspectStale
  <2>. QED BY <1>2, <2>1 DEF InspectStale
<1>3. ASSUME NEW k \in Commands, NEW m \in Mutations, Begin(k, m) PROVE st'[p] = "uncertain"
  <2>1. cmd[k].proposal # p
    BY <1>3 DEF Begin
  <2>. QED BY <1>3, <2>1 DEF Begin
<1>4. ASSUME NEW k \in Commands, cmd[k].pc \in Recorded PROVE st[cmd[k].proposal] = "mutating"
  BY <1>4
<1>5. ASSUME NEW k \in Commands, WriteFails(k) \/ PostwriteFails(k) PROVE st'[p] = "uncertain"
  BY <1>4, <1>5 DEF WriteFails, PostwriteFails, Conclude
<1>6. ASSUME NEW k \in Commands, Finish(k) PROVE st'[p] = "uncertain"
  BY <1>4, <1>6 DEF Finish, AppendSuccess
<1>7. ASSUME NEW m \in Mutations, RecoverOne(m) PROVE st'[p] = "uncertain"
  BY <1>7 DEF RecoverOne, Reconcile, AppendSuccess
<1>8. CASE UNCHANGED st
  BY <1>8
<1>. QED
  BY <1>1, <1>2, <1>3, <1>5, <1>6, <1>7, <1>8
     DEF Next, CommandStep, StartStep, UserStep, Register, Inspect, Refuse, Write, RecordChange, UserWrites,
         FinishTurn, CancelTurn, Crash, BeginStart, Retire, StartFails, Scan, EndScan

-----------------------------------------------------------------------------
(* What a proposal left on disk *)

\* All that is known of a reachable state
Known == Inv /\ Closing /\ Folding /\ Accounting

\* Started mutations keep their record
LedgerKept == \A m \in Mutations : Started(m) => ledger'[m] = ledger[m]

\* A step that is not about q: its fold and its mutations stay as they are, and
\* its file does, or is somebody else's work afterwards
Quiet(q) ==
    /\ \/ author'[PathOf[q]] = author[PathOf[q]] /\ disk'[PathOf[q]] = disk[PathOf[q]]
       \/ \A a \in Actions : author'[PathOf[q]] # <<q, a>>
    /\ st'[q] = st[q] /\ applied'[q] = applied[q]
    /\ \A m \in Mutations : ledger[m].proposal = q =>
         /\ ends'[m] = ends[m]
         /\ \A k \in Commands : cmd'[k].mutation = m =>
              cmd[k].mutation = m /\ (cmd'[k].pc = "write" <=> cmd[k].pc = "write")

\* What is accounted for stays so in a step about something else.
LEMMA QuietStep ==
  ASSUME Known, LedgerKept, NEW q \in Proposals, Quiet(q)
  PROVE  AppliedOK(q)' /\ Accounted(q)'
<1>. USE FileAssumption
<1>1. \A m \in Mutations : ledger[m].proposal = q => ledger'[m] = ledger[m]
  BY DEF LedgerKept, Started
<1>2. AppliedOK(q) /\ Accounted(q)
  BY DEF Known, Accounting
<1>3. applied[q] \in Mutations \cup {None}
  BY DEF Known, Inv, TypeOK
<1>4. AppliedOK(q)'
  BY <1>1, <1>2, <1>3 DEF Quiet, AppliedOK, Started
<1>5. CASE \A a \in Actions : author'[PathOf[q]] # <<q, a>>
  BY <1>4, <1>5 DEF Accounted, Actions
<1>6. CASE author'[PathOf[q]] = author[PathOf[q]] /\ disk'[PathOf[q]] = disk[PathOf[q]]
  <2>3. ASSUME author'[PathOf[q]] = <<q, "apply">> PROVE AfterApply(q)'
    <3>1. AfterApply(q)
      BY <1>2, <1>6, <2>3 DEF Accounted
    <3>2. applied'[q] = applied[q] /\ (applied[q] # None => ledger'[applied[q]] = ledger[applied[q]])
      BY <1>1, <1>2, <1>3 DEF AppliedOK, Quiet
    <3>3. CASE st[q] = "uncertain"
      BY <3>3 DEF AfterApply, Quiet
    <3>4. CASE st[q] = "applied" /\ disk[PathOf[q]] = ledger[applied[q]].after
      BY <1>2, <1>6, <3>2, <3>4 DEF AfterApply, Quiet, AppliedOK
    <3>5. CASE st[q] = "undone" /\ disk[PathOf[q]] = ledger[applied[q]].restore
      BY <1>2, <1>6, <3>2, <3>5 DEF AfterApply, Quiet, AppliedOK
    <3>6. ASSUME NEW m \in Mutations, ledger[m].proposal = q, Written(m), ledger[m].action = "apply",
                 disk[PathOf[q]] = ledger[m].after
          PROVE  AfterApply(q)'
      <4>1. Written(m)' /\ ledger'[m] = ledger[m]
        BY <1>1, <3>6 DEF Quiet, Written, Open, Started
      <4>. QED BY <1>6, <3>6, <4>1 DEF AfterApply, Written, Open, Started
    <3>7. ASSUME NEW m \in Mutations, ledger[m].proposal = q, Unwritten(m), ledger[m].action = "undo",
                 disk[PathOf[q]] = ledger[applied[q]].after
          PROVE  AfterApply(q)'
      <4>1. applied[q] # None
        BY <3>7 DEF Known, Accounting, MutationOK, Unwritten
      <4>2. Unwritten(m)' /\ ledger'[m] = ledger[m]
        BY <1>1, <3>7 DEF Quiet, Unwritten, Open, Started
      <4>. QED BY <1>6, <3>2, <3>7, <4>1, <4>2 DEF AfterApply, Unwritten, Open, Started
    <3>. QED BY <3>1, <3>3, <3>4, <3>5, <3>6, <3>7 DEF AfterApply
  <2>4. ASSUME author'[PathOf[q]] = <<q, "undo">> PROVE AfterUndo(q)'
    <3>1. AfterUndo(q)
      BY <1>2, <1>6, <2>4 DEF Accounted
    <3>2. CASE st[q] \in {"undone", "uncertain"}
      BY <3>2 DEF AfterUndo, Quiet
    <3>3. ASSUME NEW m \in Mutations, ledger[m].proposal = q, Written(m), ledger[m].action = "undo",
                 disk[PathOf[q]] = ledger[m].after
          PROVE  AfterUndo(q)'
      <4>1. Written(m)' /\ ledger'[m] = ledger[m]
        BY <1>1, <3>3 DEF Quiet, Written, Open, Started
      <4>. QED BY <1>6, <3>3, <4>1 DEF AfterUndo, Written, Open, Started
    <3>. QED BY <3>1, <3>2, <3>3 DEF AfterUndo
  <2>. QED BY <1>4, <2>3, <2>4 DEF Accounted
<1>. QED BY <1>5, <1>6 DEF Quiet

\* The record of an undo stands while the apply it undoes stays the last one.
LEMMA UndoFrame ==
  ASSUME Known, LedgerKept, NEW m \in Mutations, Open(m), ends'[m] = 0 => ends[m] = 0,
         applied'[ledger[m].proposal] = applied[ledger[m].proposal]
  PROVE  MutationOK(m)'
<1>1. ledger'[m] = ledger[m] /\ Started(m) /\ MutationOK(m)
  BY DEF LedgerKept, Open, Known, Accounting
<1>2. CASE ledger[m].action # "undo"
  BY <1>1, <1>2 DEF MutationOK, Started
<1>3. CASE ledger[m].action = "undo"
  <2>. DEFINE p == ledger[m].proposal
  <2>0. p \in Proposals
    BY <1>1, FileAssumption DEF Started, Known, Inv, TypeOK, Ledgers, NoLedger
  <2>1. /\ applied[p] # None
        /\ ledger[m].after = IF p \in Creates THEN Absent ELSE ledger[applied[p]].restore
    BY <1>1, <1>3 DEF MutationOK
  <2>2. applied[p] \in Mutations /\ Started(applied[p])
    BY <2>0, <2>1 DEF Known, Inv, TypeOK, Accounting, AppliedOK
  <2>3. ledger'[applied[p]] = ledger[applied[p]]
    BY <2>2 DEF LedgerKept
  <2>. QED BY <1>1, <2>1, <2>3 DEF MutationOK, Started
<1>. QED BY <1>2, <1>3

\* A command whose claim and proposal stay as they are finds what it found.
LEMMA CommandFrame ==
  ASSUME Known, LedgerKept, NEW j \in Commands, cmd'[j] = cmd[j],
         cmd[j].pc \in {"inspect", "begin"} => /\ st'[cmd[j].proposal] = st[cmd[j].proposal]
                                               /\ applied'[cmd[j].proposal] = applied[cmd[j].proposal]
  PROVE  CommandOK(j)'
<1>. DEFINE p == cmd[j].proposal
<1>1. CommandOK(j)
  BY DEF Known, Accounting
<1>2. CASE cmd[j].pc \in Recorded
  <2>1. cmd[j].mutation \in Mutations /\ Started(cmd[j].mutation)
    BY <1>2 DEF Known, Inv, LaneDiscipline, Recorded
  <2>2. ledger'[cmd[j].mutation] = ledger[cmd[j].mutation]
    BY <2>1 DEF LedgerKept
  <2>. QED BY <1>1, <1>2, <2>2 DEF CommandOK, Recorded
<1>3. CASE cmd[j].pc \in {"inspect", "begin"}
  <2>1. p \in Proposals
    BY <1>3 DEF Known, Inv, Claims
  <2>2. CASE cmd[j].action = "apply"
    BY <1>1, <1>3, <2>2 DEF CommandOK, Recorded
  <2>3. CASE cmd[j].action # "apply"
    <3>1. st[p] = "applied"
      BY <1>1, <1>3, <2>3 DEF CommandOK, Recorded
    <3>2. applied[p] \in Mutations /\ Started(applied[p])
      BY <2>1, <3>1 DEF Known, Inv, TypeOK, Accounting, AppliedOK
    <3>3. ledger'[applied[p]] = ledger[applied[p]]
      BY <3>2 DEF LedgerKept
    <3>. QED BY <1>1, <1>3, <2>3, <3>3 DEF CommandOK, Recorded
  <2>. QED BY <2>2, <2>3
<1>4. CASE cmd[j].pc \notin Recorded \cup {"inspect", "begin"}
  BY <1>4 DEF CommandOK, Recorded
<1>. QED BY <1>2, <1>3, <1>4 DEF Recorded

\* A step that leaves the fold and the files as they are and takes no command
\* across its write only has to keep its own command right.
LEMMA QuietAccounting ==
  ASSUME Known, UNCHANGED <<disk, author, st, applied, ledger, ends>>,
         \A k \in Commands : \/ cmd'[k].mutation = None
                             \/ /\ cmd'[k].mutation = cmd[k].mutation
                                /\ cmd'[k].pc = "write" <=> cmd[k].pc = "write",
         \A k \in Commands : cmd'[k] = cmd[k] \/ CommandOK(k)'
  PROVE  Accounting'
<1>1. LedgerKept
  BY DEF LedgerKept
<1>2. ASSUME NEW q \in Proposals PROVE AppliedOK(q)' /\ Accounted(q)'
  <2>1. Quiet(q)
    BY FileAssumption DEF Quiet
  <2>. QED BY <1>1, <2>1, QuietStep
<1>3. ASSUME NEW m \in Mutations PROVE MutationOK(m)'
  <2>1. CASE Open(m)
    BY <1>1, <2>1, UndoFrame
  <2>2. CASE ~Open(m)
    <3>1. MutationOK(m)
      BY DEF Known, Accounting
    <3>. QED BY <2>2, <3>1 DEF MutationOK, Open, Started
  <2>. QED BY <2>1, <2>2
<1>4. ASSUME NEW k \in Commands PROVE CommandOK(k)'
  BY <1>1, <1>4, CommandFrame
<1>. QED BY <1>2, <1>3, <1>4 DEF Accounting

\* A command that has returned has nothing to find.
LEMMA ReturnedOK ==
  ASSUME TypeOK, NEW k \in Commands, Return(k)
  PROVE  /\ cmd'[k] = IdleCommand /\ CommandOK(k)'
         /\ \A j \in Commands : j # k => cmd'[j] = cmd[j]
BY DEF TypeOK, Return, CommandOK, IdleCommand, Recorded

\* A proposal without an open mutation that was not applied has left nothing.
LEMMA NothingLeft ==
  ASSUME Known, NEW p \in Proposals, st[p] = "available"
  PROVE  \A a \in Actions : author[PathOf[p]] # <<p, a>>
<1>1. \A m \in Mutations : ledger[m].proposal = p => ~Open(m)
  BY DEF Known, Folding, OneMover
<1>. QED BY <1>1 DEF Known, Accounting, Accounted, AfterApply, AfterUndo, Written, Unwritten, Actions

\* What an applied proposal left is the text its apply was to leave.
LEMMA AppliedLeft ==
  ASSUME Known, NEW p \in Proposals, st[p] = "applied"
  PROVE  /\ author[PathOf[p]] # <<p, "undo">>
         /\ author[PathOf[p]] = <<p, "apply">> => disk[PathOf[p]] = ledger[applied[p]].after
<1>1. \A m \in Mutations : ledger[m].proposal = p => ~Open(m)
  BY DEF Known, Folding, OneMover
<1>. QED BY <1>1 DEF Known, Accounting, Accounted, AfterApply, AfterUndo, Written, Unwritten

\* The last successful apply of an applied proposal left and restores a text.
LEMMA AppliedTexts ==
  ASSUME Known, NEW p \in Proposals, applied[p] # None
  PROVE  /\ applied[p] \in Mutations
         /\ ledger[applied[p]].after \in Texts
         /\ ledger[applied[p]].restore \in Texts
<1>1. /\ applied[p] \in Mutations
      /\ Started(applied[p]) /\ ledger[applied[p]].action = "apply"
  BY DEF Known, Inv, TypeOK, Accounting, AppliedOK
<1>2. ledger[applied[p]] \in Ledgers
  BY <1>1 DEF Known, Inv, TypeOK, Started, NoLedger
<1>. QED BY <1>1, <1>2 DEF Ledgers

\* A step about one proposal only has to keep that proposal accounted for.
LEMMA OneMoves ==
  ASSUME Known, LedgerKept, NEW p \in Proposals, UNCHANGED <<disk, author>>,
         \A q \in Proposals : q # p => st'[q] = st[q] /\ applied'[q] = applied[q],
         \A m \in Mutations : ledger[m].proposal # p => ends'[m] = ends[m],
         \A m \in Mutations : ~Started(m) => ledger'[m] = ledger[m] \/ ledger'[m].proposal = p,
         \A j \in Commands : \/ cmd'[j] = cmd[j]
                             \/ cmd'[j].mutation = None
                             \/ ~Started(cmd'[j].mutation),
         \A m \in Mutations : ledger'[m].proposal = p => MutationOK(m)',
         \A j \in Commands : \/ CommandOK(j)'
                             \/ cmd'[j] = cmd[j] /\ (cmd[j].pc \in {"inspect", "begin"} => cmd[j].proposal # p),
         AppliedOK(p)', Accounted(p)'
  PROVE  Accounting'
<1>. USE FileAssumption
<1>1. ASSUME NEW q \in Proposals, q # p PROVE AppliedOK(q)' /\ Accounted(q)'
  <2>1. Quiet(q)
    BY <1>1 DEF Quiet, Started
  <2>. QED BY <2>1, QuietStep
<1>2. ASSUME NEW m \in Mutations, ledger'[m].proposal # p PROVE MutationOK(m)'
  <2>0. MutationOK(m) /\ (~Started(m) => ledger[m].proposal # p)
    BY DEF Known, Accounting, Started
  <2>1. CASE ~Started(m)
    BY <1>2, <2>0, <2>1 DEF MutationOK, Open, Started
  <2>2. CASE Started(m)
    <3>1. ledger'[m] = ledger[m] /\ ends'[m] = ends[m]
      BY <1>2, <2>2 DEF LedgerKept
    <3>2. CASE ~Open(m)
      BY <2>2, <3>1, <3>2 DEF MutationOK, Open, Started
    <3>3. CASE Open(m)
      <4>1. ledger[m].proposal \in Proposals
        BY <2>2 DEF Started, Known, Inv, TypeOK, Ledgers, NoLedger
      <4>. QED BY <1>2, <3>1, <3>3, <4>1, UndoFrame
    <3>. QED BY <3>2, <3>3
  <2>. QED BY <2>1, <2>2
<1>3. ASSUME NEW j \in Commands PROVE CommandOK(j)'
  <2>1. CASE cmd'[j] = cmd[j] /\ (cmd[j].pc \in {"inspect", "begin"} => cmd[j].proposal # p)
    <3>1. cmd[j].pc \in {"inspect", "begin"} => cmd[j].proposal \in Proposals
      BY DEF Known, Inv, Claims
    <3>. QED BY <2>1, <3>1, CommandFrame
  <2>. QED BY <2>1
<1>. QED BY <1>1, <1>2, <1>3 DEF Accounting

\* The mutation a command has recorded is the one open mutation of its proposal.
LEMMA RecordedMutation ==
  ASSUME Known, NEW k \in Commands, cmd[k].pc \in Recorded
  PROVE  /\ cmd[k].proposal \in Proposals
         /\ cmd[k].mutation \in Mutations
         /\ Open(cmd[k].mutation)
         /\ ledger[cmd[k].mutation].proposal = cmd[k].proposal
         /\ ledger[cmd[k].mutation].action = cmd[k].action
         /\ st[cmd[k].proposal] = "mutating"
         /\ \A o \in Mutations : Open(o) /\ ledger[o].proposal = cmd[k].proposal => o = cmd[k].mutation
         /\ \A j \in Commands : cmd[j].mutation = cmd[k].mutation => j = k
         /\ \A j \in Commands : j # k /\ cmd[j].pc \in {"inspect", "begin"} => cmd[j].proposal # cmd[k].proposal
<1>1. cmd[k].pc # "idle" /\ cmd[k].pc \in Inside
  BY DEF Recorded, Inside
<1>2. /\ cmd[k].proposal \in Proposals
      /\ cmd[k].mutation \in Mutations
  BY <1>1 DEF Known, Inv, Claims, LaneDiscipline
<1>3. /\ Open(cmd[k].mutation)
      /\ ledger[cmd[k].mutation].proposal = cmd[k].proposal
      /\ ledger[cmd[k].mutation].action = cmd[k].action
      /\ st[cmd[k].proposal] = "mutating"
      /\ \A o \in Mutations : Open(o) /\ ledger[o].proposal = cmd[k].proposal => o = cmd[k].mutation
  BY <1>2, FileAssumption DEF Known, Closing, Folding, OneMover, Accounting, CommandOK
<1>4. \A j \in Commands : cmd[j].mutation = cmd[k].mutation => j = k
  BY <1>2, FileAssumption DEF Known, Closing
<1>5. \A j \in Commands : j # k /\ cmd[j].pc \in {"inspect", "begin"} => cmd[j].proposal # cmd[k].proposal
  BY <1>1, LaneExclusive DEF Known, Inside
<1>. QED BY <1>2, <1>3, <1>4, <1>5

\* Registering, admitting, comparing and refusing leave nothing on disk, and
\* neither do turns, a crash and the steps of a start but for the reconciliation.
LEMMA QuietActions ==
  ASSUME Known,
         \/ \E k \in Commands, a \in Actions, p \in Proposals, text \in Texts, e \in Contents :
              Register(k, a, p, text, e)
         \/ \E k \in Commands : Admit(k) \/ Inspect(k) \/ Refuse(k) \/ RecordChange(k)
         \/ \E p \in Proposals : FinishTurn(p) \/ CancelTurn(p)
         \/ Crash \/ BeginStart \/ Retire \/ StartFails \/ Scan
         \/ \E next \in {"off", "sync"} : EndScan(next)
  PROVE  Accounting'
<1>0. TypeOK
  BY DEF Known, Inv
<1>. USE DEF logVars, startVars
<1>1. ASSUME NEW k \in Commands, NEW a \in Actions, NEW p \in Proposals, NEW text \in Texts,
             NEW e \in Contents, Register(k, a, p, text, e)
      PROVE  Accounting'
  <2>1. UNCHANGED <<disk, author, st, applied, ledger, ends>>
    BY <1>1 DEF Register
  <2>2. cmd'[k].pc = "queued" /\ cmd'[k].mutation = None /\ \A j \in Commands : j # k => cmd'[j] = cmd[j]
    BY <1>0, <1>1 DEF Register, TypeOK, IdleCommand
  <2>3. CommandOK(k)'
    BY <2>2 DEF CommandOK, Recorded
  <2>. QED BY <2>1, <2>2, <2>3, QuietAccounting
<1>2. ASSUME NEW k \in Commands, Admit(k) PROVE Accounting'
  <2>1. UNCHANGED <<disk, author, st, applied, ledger, ends>>
    BY <1>2 DEF Admit, Known, Folding, Uncancelled
  <2>2. CASE Return(k)
    <3>1. /\ cmd'[k] = IdleCommand /\ CommandOK(k)'
          /\ \A j \in Commands : j # k => cmd'[j] = cmd[j]
      BY <1>0, <2>2, ReturnedOK
    <3>. QED BY <2>1, <3>1, QuietAccounting DEF IdleCommand
  <2>3. CASE At(k, "inspect") /\ cmd[k].pc = "queued" /\ Available(k)
    <3>1. /\ cmd'[k] = [cmd[k] EXCEPT !.pc = "inspect"]
          /\ \A j \in Commands : j # k => cmd'[j] = cmd[j]
      BY <1>0, <2>3 DEF At, TypeOK
    <3>2. /\ cmd'[k].pc = "inspect" /\ cmd'[k].mutation = cmd[k].mutation
          /\ cmd'[k].proposal = cmd[k].proposal /\ cmd'[k].action = cmd[k].action
          /\ cmd'[k].expected = cmd[k].expected /\ cmd'[k].editor = cmd[k].editor
      BY <1>0, <3>1 DEF TypeOK, ClaimRecords
    <3>3. CommandOK(k)'
      BY <2>1, <2>3, <3>2 DEF CommandOK, Available, Recorded
    <3>. QED BY <2>1, <2>3, <3>1, <3>2, <3>3, QuietAccounting
  <2>. QED BY <1>2, <2>2, <2>3 DEF Admit, Known, Folding, Uncancelled
<1>3. ASSUME NEW k \in Commands, Inspect(k) PROVE Accounting'
  <2>1. UNCHANGED <<disk, author, st, applied, ledger, ends>> /\ cmd[k].pc = "inspect"
    BY <1>3 DEF Inspect
  <2>2. /\ cmd'[k] = [cmd[k] EXCEPT !.pc = "begin"]
        /\ \A j \in Commands : j # k => cmd'[j] = cmd[j]
    BY <1>0, <1>3 DEF Inspect, At, TypeOK
  <2>3. /\ cmd'[k].pc = "begin" /\ cmd'[k].mutation = cmd[k].mutation
        /\ cmd'[k].proposal = cmd[k].proposal /\ cmd'[k].action = cmd[k].action
        /\ cmd'[k].expected = cmd[k].expected /\ cmd'[k].editor = cmd[k].editor
    BY <1>0, <2>2 DEF TypeOK, ClaimRecords
  <2>4. CommandOK(k)
    BY DEF Known, Accounting
  <2>5. CommandOK(k)'
    BY <2>1, <2>3, <2>4 DEF CommandOK, Recorded
  <2>. QED BY <2>1, <2>2, <2>3, <2>5, QuietAccounting
<1>4. ASSUME NEW k \in Commands, Refuse(k) PROVE Accounting'
  <2>1. UNCHANGED <<disk, author, st, applied, ledger, ends>>
    BY <1>4 DEF Refuse
  <2>2. /\ cmd'[k] = IdleCommand /\ CommandOK(k)'
        /\ \A j \in Commands : j # k => cmd'[j] = cmd[j]
    BY <1>0, <1>4, ReturnedOK DEF Refuse
  <2>. QED BY <2>1, <2>2, QuietAccounting DEF IdleCommand
<1>5. ASSUME NEW k \in Commands, RecordChange(k) PROVE Accounting'
  <2>1. UNCHANGED <<disk, author, st, applied, ledger, ends>> /\ cmd[k].pc = "record"
    BY <1>5 DEF RecordChange
  <2>2. /\ cmd'[k] = [cmd[k] EXCEPT !.pc = "finish"]
        /\ \A j \in Commands : j # k => cmd'[j] = cmd[j]
    BY <1>0, <1>5 DEF RecordChange, At, TypeOK
  <2>3. /\ cmd'[k].pc = "finish" /\ cmd'[k].mutation = cmd[k].mutation
        /\ cmd'[k].proposal = cmd[k].proposal /\ cmd'[k].action = cmd[k].action
    BY <1>0, <2>2 DEF TypeOK, ClaimRecords
  <2>4. CommandOK(k)
    BY DEF Known, Accounting
  <2>5. CommandOK(k)'
    BY <2>1, <2>3, <2>4 DEF CommandOK, Recorded
  <2>. QED BY <2>1, <2>2, <2>3, <2>5, QuietAccounting
<1>6. ASSUME UNCHANGED <<disk, author, st, applied, ledger, ends, cmd>> PROVE Accounting'
  BY <1>6, QuietAccounting
<1>7. ASSUME NEW p \in Proposals, FinishTurn(p) PROVE Accounting'
  BY <1>6, <1>7 DEF FinishTurn
<1>8. ASSUME NEW p \in Proposals, CancelTurn(p) PROVE Accounting'
  <2>1. UNCHANGED <<disk, author, st, applied, ledger, ends>>
    BY <1>8 DEF CancelTurn
  <2>2. ASSUME NEW k \in Commands
        PROVE  \/ cmd'[k] = cmd[k]
               \/ cmd'[k].pc = "queued" /\ cmd[k].pc = "queued" /\ cmd'[k].mutation = cmd[k].mutation
    <3>1. cmd'[k] = IF cmd[k].proposal = p /\ cmd[k].pc = "queued"
                      THEN [cmd[k] EXCEPT !.cancelled = TRUE] ELSE cmd[k]
      BY <1>8 DEF CancelTurn
    <3>2. cmd[k] \in ClaimRecords
      BY <1>0 DEF TypeOK
    <3>3. /\ [cmd[k] EXCEPT !.cancelled = TRUE].pc = cmd[k].pc
          /\ [cmd[k] EXCEPT !.cancelled = TRUE].mutation = cmd[k].mutation
      BY <3>2 DEF ClaimRecords
    <3>4. CASE cmd[k].proposal = p /\ cmd[k].pc = "queued"
      BY <3>1, <3>3, <3>4
    <3>5. CASE ~(cmd[k].proposal = p /\ cmd[k].pc = "queued")
      BY <3>1, <3>5, Zenon
    <3>. QED BY <3>4, <3>5
  <2>3. ASSUME NEW k \in Commands PROVE cmd'[k] = cmd[k] \/ CommandOK(k)'
    BY <2>2 DEF CommandOK, Recorded
  <2>. QED BY <2>1, <2>2, <2>3, QuietAccounting
<1>9. ASSUME Crash PROVE Accounting'
  <2>1. UNCHANGED <<disk, author, st, applied, ledger, ends>>
    BY <1>9 DEF Crash
  <2>2. \A k \in Commands : cmd'[k] = IdleCommand
    BY <1>9 DEF Crash
  <2>3. ASSUME NEW k \in Commands PROVE CommandOK(k)'
    BY <2>2 DEF CommandOK, Recorded, IdleCommand
  <2>. QED BY <2>1, <2>2, <2>3, QuietAccounting DEF IdleCommand
<1>10. ASSUME BeginStart \/ Retire \/ StartFails \/ Scan PROVE Accounting'
  BY <1>6, <1>10 DEF BeginStart, Retire, StartFails, Scan
<1>11. ASSUME NEW next \in {"off", "sync"}, EndScan(next) PROVE Accounting'
  BY <1>6, <1>11 DEF EndScan
<1>. QED BY <1>1, <1>2, <1>3, <1>4, <1>5, <1>7, <1>8, <1>9, <1>10, <1>11

\* A proposal becomes stale only when what it left is no longer on disk.
LEMMA StaleAccounting ==
  ASSUME Known, NEW k \in Commands, InspectStale(k)
  PROVE  Accounting'
<1>. USE FileAssumption
<1>0. TypeOK /\ cmd[k].pc = "inspect"
  BY DEF Known, Inv, InspectStale
<1>1. PICK p \in Proposals : p = cmd[k].proposal
  BY <1>0 DEF Known, Inv, Claims
<1>2. UNCHANGED <<disk, author, applied, ledger, ends>> /\ st' = [st EXCEPT ![p] = "stale"] /\ Return(k)
  BY <1>1 DEF InspectStale, Append
<1>3. st'[p] = "stale" /\ \A q \in Proposals : q # p => st'[q] = st[q]
  BY <1>0, <1>2 DEF TypeOK
<1>4. /\ cmd'[k] = IdleCommand /\ CommandOK(k)'
      /\ \A j \in Commands : j # k => cmd'[j] = cmd[j]
  BY <1>0, <1>2, ReturnedOK
<1>5. CommandOK(k) /\ st[p] \in {"available", "applied"}
  BY <1>0, <1>1 DEF Known, Accounting, Folding, OneMover
<1>6. \A m \in Mutations : ledger[m].proposal = p => ~Open(m)
  BY <1>5 DEF Known, Folding, OneMover
<1>7. \A a \in Actions : author[PathOf[p]] # <<p, a>>
  <2>1. CASE cmd[k].action = "apply"
    BY <1>0, <1>1, <1>5, <2>1, NothingLeft DEF CommandOK
  <2>2. CASE cmd[k].action # "apply"
    <3>1. st[p] = "applied" /\ cmd[k].expected = ledger[applied[p]].after
      BY <1>0, <1>1, <1>5, <2>2 DEF CommandOK
    <3>2. ledger[applied[p]].after \in Texts
      BY <3>1, AppliedTexts DEF Known, Accounting, AppliedOK
    <3>3. disk[PathOf[p]] # ledger[applied[p]].after
      BY <1>1, <2>2, <3>1, <3>2 DEF InspectStale, Create, DiskMatches, EditFits, Path
    <3>. QED BY <3>1, <3>3, AppliedLeft DEF Actions
  <2>. QED BY <2>1, <2>2
<1>8. AppliedOK(p)' /\ Accounted(p)'
  <2>1. AppliedOK(p)
    BY DEF Known, Accounting
  <2>. QED BY <1>2, <1>3, <1>7, <2>1 DEF AppliedOK, Accounted, Started, Actions
<1>9. ASSUME NEW m \in Mutations, ledger'[m].proposal = p PROVE MutationOK(m)'
  BY <1>2, <1>6, <1>9 DEF MutationOK, Open, Started
<1>10. \A j \in Commands : j # k /\ cmd[j].pc \in {"inspect", "begin"} => cmd[j].proposal # p
  BY <1>0, <1>1, LaneExclusive DEF Known, Inside
<1>11. LedgerKept
  BY <1>2 DEF LedgerKept
<1>. QED BY <1>2, <1>3, <1>4, <1>8, <1>9, <1>10, <1>11, OneMoves DEF IdleCommand

\* A mutation that is recorded starts from what the proposal left, if anything.
LEMMA BeginAccounting ==
  ASSUME Known, NEW k \in Commands, NEW m \in Mutations, Begin(k, m)
  PROVE  Accounting'
<1>. USE FileAssumption
<1>0. TypeOK /\ cmd[k].pc = "begin" /\ ~Started(m)
  BY DEF Known, Inv, Begin
<1>1. PICK p \in Proposals : p = cmd[k].proposal
  BY <1>0 DEF Known, Inv, Claims
<1>2. UNCHANGED <<disk, author, applied, ends>> /\ st' = [st EXCEPT ![p] = "mutating"]
  BY <1>1 DEF Begin, Append
<1>3. st'[p] = "mutating" /\ \A q \in Proposals : q # p => st'[q] = st[q]
  BY <1>0, <1>2 DEF TypeOK
<1>4. /\ cmd'[k] = [cmd[k] EXCEPT !.pc = "write", !.mutation = m]
      /\ \A j \in Commands : j # k => cmd'[j] = cmd[j]
  BY <1>0 DEF TypeOK, Begin
<1>5. cmd'[k].pc = "write" /\ cmd'[k].mutation = m /\ cmd'[k].action = cmd[k].action
  BY <1>0, <1>4 DEF TypeOK, ClaimRecords
<1>6. /\ ledger'[m].proposal = p
      /\ cmd[k].action = "apply" => ledger'[m].action = "apply"
      /\ cmd[k].action # "apply" =>
           /\ ledger'[m].action = "undo"
           /\ ledger'[m].after = IF p \in Creates THEN Absent ELSE cmd[k].editor
      /\ \A o \in Mutations : o # m => ledger'[o] = ledger[o]
  BY <1>0, <1>1 DEF TypeOK, Begin
<1>7. CommandOK(k) /\ st[p] \in {"available", "applied"} /\ AppliedOK(p)
  BY <1>0, <1>1 DEF Known, Accounting, Folding, OneMover
<1>8. LedgerKept
  BY <1>0, <1>6 DEF LedgerKept
<1>9. ends[m] \in Nat /\ applied[p] \in Mutations \cup {None}
  BY <1>0 DEF TypeOK
<1>10. applied[p] # None => applied[p] # m /\ ledger'[applied[p]] = ledger[applied[p]]
  BY <1>0, <1>6, <1>7, <1>9 DEF AppliedOK
<1>11. \A j \in Commands : cmd[j].mutation # m
  BY <1>0 DEF Known, Inv, LaneDiscipline, Started
<1>14. p # None
  OBVIOUS
<1>12. CASE cmd[k].action = "apply"
  <2>1. \A a \in Actions : author[PathOf[p]] # <<p, a>>
    BY <1>0, <1>1, <1>7, <1>12, NothingLeft DEF CommandOK
  <2>2. AppliedOK(p)' /\ Accounted(p)'
    BY <1>2, <1>3, <1>7, <1>10, <2>1 DEF AppliedOK, Accounted, Started, Actions
  <2>3. MutationOK(m)' /\ CommandOK(k)'
    BY <1>5, <1>6, <1>12, <1>14 DEF MutationOK, CommandOK, Recorded, Started
  <2>4. ASSUME NEW o \in Mutations, ledger'[o].proposal = p PROVE MutationOK(o)'
    <3>1. CASE o = m
      BY <2>3, <3>1
    <3>2. CASE o # m
      <4>1. ~Open(o)
        BY <1>6, <1>7, <2>4, <3>2 DEF Known, Folding, OneMover
      <4>2. MutationOK(o)
        BY DEF Known, Accounting
      <4>. QED BY <1>2, <1>6, <3>2, <4>1, <4>2 DEF MutationOK, Open, Started
    <3>. QED BY <3>1, <3>2
  <2>5. \A j \in Commands : j # k /\ cmd[j].pc \in {"inspect", "begin"} => cmd[j].proposal # p
    BY <1>0, <1>1, LaneExclusive DEF Known, Inside
  <2>. QED BY <1>0, <1>2, <1>3, <1>4, <1>5, <1>6, <1>8, <2>2, <2>3, <2>4, <2>5, OneMoves
<1>13. CASE cmd[k].action # "apply"
  <2>1. /\ st[p] = "applied" /\ applied[p] # None
        /\ cmd[k].editor = ledger[applied[p]].restore
    BY <1>0, <1>1, <1>7, <1>13 DEF CommandOK, AppliedOK
  <2>2. AppliedOK(p)'
    BY <1>2, <1>3, <1>7, <1>10 DEF AppliedOK, Started
  <2>0. cmd[k].action = "undo"
    BY <1>0, <1>13 DEF TypeOK, ClaimRecords, Actions
  <2>3. CommandOK(k)'
    BY <1>5, <1>6, <1>13, <2>0 DEF CommandOK, Recorded
  <2>4. MutationOK(m)'
    BY <1>2, <1>6, <1>10, <1>13, <1>14, <2>1 DEF MutationOK, Started
  <2>5. ASSUME NEW o \in Mutations, ledger'[o].proposal = p PROVE MutationOK(o)'
    <3>1. CASE o = m
      BY <2>4, <3>1
    <3>2. CASE o # m
      <4>1. ~Open(o)
        BY <1>6, <1>7, <2>5, <3>2 DEF Known, Folding, OneMover
      <4>2. MutationOK(o)
        BY DEF Known, Accounting
      <4>. QED BY <1>2, <1>6, <3>2, <4>1, <4>2 DEF MutationOK, Open, Started
    <3>. QED BY <3>1, <3>2
  <2>6. \A j \in Commands : j # k /\ cmd[j].pc \in {"inspect", "begin"} => cmd[j].proposal # p
    BY <1>0, <1>1, LaneExclusive DEF Known, Inside
  <2>7. Accounted(p)'
    <3>1. author[PathOf[p]] # <<p, "undo">>
      BY <2>1, AppliedLeft
    <3>2. ASSUME author[PathOf[p]] = <<p, "apply">> PROVE AfterApply(p)'
      <4>1. disk[PathOf[p]] = ledger[applied[p]].after
        BY <2>1, <3>2, AppliedLeft
      <4>2. ends[m] = 0
        BY <1>0 DEF Known, Accounting, MutationOK
      <4>3. Unwritten(m)'
        BY <1>2, <1>4, <1>5, <1>6, <1>11, <4>2 DEF Unwritten, Open, Started
      <4>. QED BY <1>2, <1>6, <1>10, <1>13, <2>1, <4>1, <4>3 DEF AfterApply, Unwritten, Open, Started
    <3>. QED BY <1>2, <3>1, <3>2 DEF Accounted
  <2>. QED BY <1>0, <1>2, <1>3, <1>4, <1>5, <1>6, <1>8, <2>2, <2>3, <2>5, <2>6, <2>7, OneMoves
<1>. QED BY <1>12, <1>13

\* A command that ends before its write found what its proposal had left; one that
\* ends uncertain says so.
LEMMA ConcludeAccounting ==
  ASSUME Known, NEW k \in Commands, cmd[k].pc \in Recorded, NEW s, Conclude(k, s),
         s = "uncertain" \/ (cmd[k].pc = "write" /\ s = Reopened(cmd[k].proposal))
  PROVE  Accounting'
<1>. USE FileAssumption
<1>0. TypeOK
  BY DEF Known, Inv
<1>1. PICK p \in Proposals : p = cmd[k].proposal
  BY RecordedMutation
<1>2. PICK m \in Mutations : m = cmd[k].mutation
  BY RecordedMutation
<1>3. /\ Open(m) /\ ledger[m].proposal = p /\ st[p] = "mutating"
      /\ \A o \in Mutations : Open(o) /\ ledger[o].proposal = p => o = m
      /\ \A j \in Commands : j # k /\ cmd[j].pc \in {"inspect", "begin"} => cmd[j].proposal # p
  BY <1>1, <1>2, RecordedMutation
<1>4. UNCHANGED <<disk, author, ledger>> /\ Return(k)
  BY DEF Conclude
<1>5. /\ cmd'[k] = IdleCommand /\ CommandOK(k)'
      /\ \A j \in Commands : j # k => cmd'[j] = cmd[j]
  BY <1>0, <1>4, ReturnedOK
<1>6. CASE UNCHANGED <<st, applied, ends>>
  BY <1>4, <1>5, <1>6, QuietAccounting DEF IdleCommand
<1>7. CASE Append(cmd[k].proposal, s) /\ Closes(cmd[k].mutation)
  <2>1. /\ UNCHANGED applied /\ st' = [st EXCEPT ![p] = s] /\ ends' = [ends EXCEPT ![m] = @ + 1]
    BY <1>1, <1>2, <1>7 DEF Append, Closes
  <2>2. /\ st'[p] = s /\ ends'[m] # 0
        /\ \A q \in Proposals : q # p => st'[q] = st[q]
        /\ \A o \in Mutations : o # m => ends'[o] = ends[o]
    BY <1>0, <2>1 DEF TypeOK
  <2>3. AppliedOK(p) /\ Accounted(p) /\ MutationOK(m)
    BY DEF Known, Accounting
  <2>4. AppliedOK(p)' /\ Accounted(p)'
    <3>1. CASE s = "uncertain"
      BY <1>4, <2>1, <2>2, <2>3, <3>1 DEF AppliedOK, Accounted, AfterApply, AfterUndo, Started
    <3>2. CASE cmd[k].pc = "write" /\ s = Reopened(cmd[k].proposal)
      <4>1. s = IF applied[p] = None THEN "available" ELSE "applied"
        BY <1>1, <3>2 DEF Reopened
      <4>2. AppliedOK(p)'
        BY <1>4, <2>1, <2>2, <2>3, <4>1 DEF AppliedOK, Started
      <4>3. ~Written(m)
        BY <1>2, <3>2 DEF Written
      <4>4. author[PathOf[p]] # <<p, "undo">>
        BY <1>3, <2>3, <4>3 DEF Accounted, AfterUndo, Written
      <4>5. ASSUME author[PathOf[p]] = <<p, "apply">>
            PROVE  applied[p] # None /\ disk[PathOf[p]] = ledger[applied[p]].after
        <5>1. ledger[m].action = "undo" /\ disk[PathOf[p]] = ledger[applied[p]].after
          BY <1>3, <2>3, <4>3, <4>5 DEF Accounted, AfterApply, Written, Unwritten
        <5>. QED BY <1>3, <2>3, <5>1 DEF MutationOK
      <4>6. Accounted(p)'
        BY <1>4, <2>1, <2>2, <4>1, <4>4, <4>5 DEF Accounted, AfterApply
      <4>. QED BY <4>2, <4>6
    <3>. QED BY <3>1, <3>2
  <2>5. ASSUME NEW o \in Mutations, ledger'[o].proposal = p PROVE MutationOK(o)'
    <3>1. MutationOK(o) /\ ~Open(o)'
      BY <1>3, <1>4, <2>2, <2>5 DEF Known, Accounting, Open, Started
    <3>2. Started(o)'
      BY <2>5 DEF Started
    <3>. QED BY <3>1, <3>2 DEF MutationOK
  <2>6. LedgerKept
    BY <1>4 DEF LedgerKept
  <2>. QED BY <1>3, <1>4, <1>5, <2>1, <2>2, <2>4, <2>5, <2>6, OneMoves DEF IdleCommand
<1>. QED BY <1>6, <1>7 DEF Conclude

\* A success that is appended names what is on disk, whoever appends it.
LEMMA SuccessAccounted ==
  ASSUME Known, NEW m \in Mutations, NEW p \in Proposals, Open(m), ledger[m].proposal = p,
         \A o \in Mutations : Open(o) /\ ledger[o].proposal = p => o = m,
         UNCHANGED <<disk, author, ledger>>, AppendSuccess(m),
         st[p] = "mutating",
         Written(m),
         Unwritten(m) => disk[PathOf[p]] = ledger[m].after
  PROVE  /\ AppliedOK(p)' /\ Accounted(p)'
         /\ \A q \in Proposals : q # p => st'[q] = st[q] /\ applied'[q] = applied[q]
<1>. USE FileAssumption
<1>0. TypeOK /\ AppliedOK(p) /\ Accounted(p) /\ MutationOK(m)
  BY DEF Known, Inv, Accounting
<1>1. ledger[m] \in Ledgers /\ ledger[m].action \in {"apply", "undo"}
  BY <1>0 DEF TypeOK, Open, Started, NoLedger, Ledgers
<1>2. CASE ledger[m].action = "apply"
  <2>1. /\ st'[p] = "applied" /\ applied'[p] = m
        /\ \A q \in Proposals : q # p => st'[q] = st[q] /\ applied'[q] = applied[q]
    BY <1>0, <1>2 DEF AppendSuccess, TypeOK
  <2>2. AppliedOK(p)'
    BY <1>2, <2>1 DEF AppliedOK, Started
  <2>3. author[PathOf[p]] # <<p, "undo">>
    BY <1>0, <1>2 DEF Accounted, AfterUndo, Written
  <2>4. author[PathOf[p]] = <<p, "apply">> => disk[PathOf[p]] = ledger[m].after
    BY <1>0, <1>2 DEF Accounted, AfterApply, Written, Unwritten
  <2>. QED BY <2>1, <2>2, <2>3, <2>4 DEF Accounted, AfterApply
<1>3. CASE ledger[m].action = "undo"
  <2>1. /\ st'[p] = "undone" /\ applied' = applied
        /\ \A q \in Proposals : q # p => st'[q] = st[q]
    BY <1>0, <1>3 DEF AppendSuccess, Append, TypeOK
  <2>2. /\ applied[p] # None
        /\ ledger[m].after = IF p \in Creates THEN Absent ELSE ledger[applied[p]].restore
    BY <1>0, <1>3 DEF MutationOK
  <2>3. AppliedOK(p)'
    BY <1>0, <2>1, <2>2 DEF AppliedOK, Started
  <2>4. ASSUME author[PathOf[p]] = <<p, "apply">> PROVE disk[PathOf[p]] = ledger[applied[p]].restore
    <3>1. Unwritten(m) /\ disk[PathOf[p]] = ledger[applied[p]].after
      BY <1>0, <1>3, <2>4 DEF Accounted, AfterApply, Written, Unwritten
    <3>2. disk[PathOf[p]] = ledger[m].after
      BY <3>1
    <3>3. ledger[applied[p]].after \in Texts
      BY <2>2, AppliedTexts
    <3>. QED BY <2>2, <3>1, <3>2, <3>3
  <2>. QED BY <2>1, <2>3, <2>4 DEF Accounted, AfterApply, AfterUndo
<1>. QED BY <1>1, <1>2, <1>3

\* What a command finishes is what it wrote.
LEMMA FinishAccounting ==
  ASSUME Known, NEW k \in Commands, Finish(k)
  PROVE  Accounting'
<1>. USE FileAssumption
<1>0. TypeOK /\ cmd[k].pc = "finish" /\ cmd[k].pc \in Recorded
  BY DEF Known, Inv, Finish, Recorded
<1>1. PICK p \in Proposals : p = cmd[k].proposal
  BY <1>0, RecordedMutation
<1>2. PICK m \in Mutations : m = cmd[k].mutation
  BY <1>0, RecordedMutation
<1>3. /\ Open(m) /\ ledger[m].proposal = p /\ st[p] = "mutating"
      /\ \A o \in Mutations : Open(o) /\ ledger[o].proposal = p => o = m
      /\ \A j \in Commands : j # k /\ cmd[j].pc \in {"inspect", "begin"} => cmd[j].proposal # p
      /\ \A j \in Commands : cmd[j].mutation = m => j = k
  BY <1>0, <1>1, <1>2, RecordedMutation
<1>4. UNCHANGED <<disk, author, ledger>> /\ Return(k) /\ AppendSuccess(m) /\ ends' = [ends EXCEPT ![m] = @ + 1]
  BY <1>2 DEF Finish, Closes
<1>5. /\ cmd'[k] = IdleCommand /\ CommandOK(k)'
      /\ \A j \in Commands : j # k => cmd'[j] = cmd[j]
  BY <1>0, <1>4, ReturnedOK
<1>6. ends'[m] # 0 /\ \A o \in Mutations : o # m => ends'[o] = ends[o]
  BY <1>0, <1>4 DEF TypeOK
<1>7. Written(m) /\ ~Unwritten(m)
  BY <1>0, <1>2, <1>3 DEF Written, Unwritten
<1>8. /\ AppliedOK(p)' /\ Accounted(p)'
      /\ \A q \in Proposals : q # p => st'[q] = st[q] /\ applied'[q] = applied[q]
  BY <1>3, <1>4, <1>7, SuccessAccounted
<1>9. ASSUME NEW o \in Mutations, ledger'[o].proposal = p PROVE MutationOK(o)'
  <2>1. ~Open(o)' /\ Started(o)'
    BY <1>3, <1>4, <1>6, <1>9 DEF Open, Started
  <2>. QED BY <2>1 DEF MutationOK
<1>10. LedgerKept
  BY <1>4 DEF LedgerKept
<1>. QED BY <1>3, <1>4, <1>5, <1>6, <1>8, <1>9, <1>10, OneMoves DEF IdleCommand

\* A recovery reads from the disk whether the dead command had written.
LEMMA RecoverAccounting ==
  ASSUME Known, NEW m \in Mutations, RecoverOne(m)
  PROVE  Accounting'
<1>. USE FileAssumption
<1>0. TypeOK /\ Open(m) /\ \A j \in Commands : cmd[j].pc = "idle"
  BY DEF Known, Inv, Closing, RecoverOne
<1>1. PICK p \in Proposals : p = ledger[m].proposal
  BY <1>0 DEF Open, Started, TypeOK, Ledgers, NoLedger
<1>2. /\ st[p] = "mutating"
      /\ \A o \in Mutations : Open(o) /\ ledger[o].proposal = p => o = m
  BY <1>0, <1>1 DEF Known, Folding, OneMover
<1>3. UNCHANGED <<disk, author, ledger, cmd>> /\ ends' = [ends EXCEPT ![m] = @ + 1]
  BY DEF RecoverOne, Closes
<1>4. ends'[m] # 0 /\ \A o \in Mutations : o # m => ends'[o] = ends[o]
  BY <1>0, <1>3 DEF TypeOK
<1>5. Written(m)
  BY <1>0 DEF Written
<1>6. AppliedOK(p) /\ Accounted(p) /\ MutationOK(m)
  BY DEF Known, Accounting
<1>7. /\ AppliedOK(p)' /\ Accounted(p)'
      /\ \A q \in Proposals : q # p => st'[q] = st[q] /\ applied'[q] = applied[q]
  <2>1. CASE disk[PathOf[p]] = ledger[m].after /\ AppendSuccess(m)
    BY <1>0, <1>1, <1>2, <1>3, <1>5, <2>1, SuccessAccounted
  <2>2. CASE Append(p, "uncertain")
    <3>1. st'[p] = "uncertain" /\ applied' = applied /\ \A q \in Proposals : q # p => st'[q] = st[q]
      BY <1>0, <2>2 DEF TypeOK, Append
    <3>. QED BY <1>3, <1>6, <3>1 DEF AppliedOK, Accounted, AfterApply, AfterUndo, Started
  <2>3. CASE disk[PathOf[p]] # ledger[m].after /\ Append(p, Reopened(p))
    <3>1. /\ st'[p] = IF applied[p] = None THEN "available" ELSE "applied"
          /\ applied' = applied /\ \A q \in Proposals : q # p => st'[q] = st[q]
      BY <1>0, <2>3 DEF TypeOK, Append, Reopened
    <3>2. AppliedOK(p)'
      BY <1>3, <1>6, <3>1 DEF AppliedOK, Started
    <3>3. author[PathOf[p]] # <<p, "undo">>
      BY <1>2, <1>6, <2>3 DEF Accounted, AfterUndo, Written
    <3>4. ASSUME author[PathOf[p]] = <<p, "apply">>
          PROVE  applied[p] # None /\ disk[PathOf[p]] = ledger[applied[p]].after
      <4>1. ledger[m].action = "undo" /\ disk[PathOf[p]] = ledger[applied[p]].after
        BY <1>2, <1>6, <2>3, <3>4 DEF Accounted, AfterApply, Written, Unwritten
      <4>. QED BY <1>0, <1>1, <1>6, <4>1 DEF MutationOK
    <3>5. Accounted(p)'
      BY <1>3, <3>1, <3>3, <3>4 DEF Accounted, AfterApply
    <3>. QED BY <3>1, <3>2, <3>5
  <2>. QED BY <1>1, <2>1, <2>2, <2>3 DEF RecoverOne, Reconcile
<1>9. ASSUME NEW o \in Mutations, ledger'[o].proposal = p PROVE MutationOK(o)'
  <2>1. ~Open(o)' /\ Started(o)'
    BY <1>2, <1>3, <1>4, <1>9 DEF Open, Started
  <2>. QED BY <2>1 DEF MutationOK
<1>10. LedgerKept
  BY <1>3 DEF LedgerKept
<1>. QED BY <1>0, <1>1, <1>3, <1>4, <1>7, <1>9, <1>10, OneMoves

\* What a command writes is its mutation's text, under its proposal's name.
LEMMA WriteAccounting ==
  ASSUME Known, NEW k \in Commands, Write(k)
  PROVE  Accounting'
<1>. USE FileAssumption
<1>0. TypeOK /\ cmd[k].pc = "write" /\ cmd[k].pc \in Recorded
  BY DEF Known, Inv, Write, Recorded
<1>1. PICK p \in Proposals : p = cmd[k].proposal
  BY <1>0, RecordedMutation
<1>2. PICK m \in Mutations : m = cmd[k].mutation
  BY <1>0, RecordedMutation
<1>3. /\ Open(m) /\ ledger[m].proposal = p /\ ledger[m].action = cmd[k].action
      /\ \A j \in Commands : cmd[j].mutation = m => j = k
      /\ cmd[k].action \in Actions /\ PathOf[p] \in Paths
  BY <1>0, <1>1, <1>2, RecordedMutation DEF TypeOK, ClaimRecords
<1>4. /\ UNCHANGED <<st, applied, ledger, ends>>
      /\ disk' = [disk EXCEPT ![PathOf[p]] = ledger[m].after]
      /\ author' = [author EXCEPT ![PathOf[p]] = <<p, cmd[k].action>>]
      /\ cmd' = [cmd EXCEPT ![k].pc = "record"]
  BY <1>1, <1>2 DEF Write, Path, At, logVars
<1>5. /\ disk'[PathOf[p]] = ledger[m].after /\ author'[PathOf[p]] = <<p, cmd[k].action>>
      /\ \A f \in Paths : f # PathOf[p] => disk'[f] = disk[f] /\ author'[f] = author[f]
  BY <1>0, <1>3, <1>4 DEF TypeOK
<1>6. /\ cmd'[k].pc = "record" /\ cmd'[k].mutation = m /\ cmd'[k].action = cmd[k].action
      /\ \A j \in Commands : j # k => cmd'[j] = cmd[j]
  BY <1>0, <1>2, <1>4 DEF TypeOK, ClaimRecords
<1>7. LedgerKept
  BY <1>4 DEF LedgerKept
<1>8. CommandOK(k)'
  BY <1>3, <1>4, <1>6 DEF CommandOK, Recorded
<1>9. ASSUME NEW j \in Commands PROVE CommandOK(j)'
  BY <1>4, <1>6, <1>7, <1>8, CommandFrame
<1>10. ASSUME NEW q \in Proposals, q # p PROVE AppliedOK(q)' /\ Accounted(q)'
  <2>1. \/ author'[PathOf[q]] = author[PathOf[q]] /\ disk'[PathOf[q]] = disk[PathOf[q]]
        \/ \A a \in Actions : author'[PathOf[q]] # <<q, a>>
    BY <1>5, <1>10
  <2>2. Quiet(q)
    BY <1>2, <1>3, <1>4, <1>6, <1>10, <2>1 DEF Quiet
  <2>. QED BY <1>7, <2>2, QuietStep
<1>11. AppliedOK(p)'
  BY <1>4 DEF Known, Accounting, AppliedOK, Started
<1>12. Written(m)'
  BY <1>3, <1>4, <1>6 DEF Written, Open, Started
<1>13. ASSUME cmd[k].action = "apply" PROVE Accounted(p)'
  BY <1>3, <1>4, <1>5, <1>11, <1>12, <1>13 DEF Accounted, AfterApply, Written, Open, Started
<1>14. ASSUME cmd[k].action = "undo" PROVE Accounted(p)'
  BY <1>3, <1>4, <1>5, <1>11, <1>12, <1>14 DEF Accounted, AfterUndo, Written, Open, Started
<1>15. Accounted(p)'
  BY <1>3, <1>13, <1>14 DEF Actions
<1>16. ASSUME NEW o \in Mutations PROVE MutationOK(o)'
  BY <1>4 DEF Known, Accounting, MutationOK, Open, Started
<1>. QED BY <1>9, <1>10, <1>11, <1>15, <1>16 DEF Accounting

\* A save of the user's is nobody's proposal.
LEMMA UserAccounting ==
  ASSUME Known, NEW f \in Paths, NEW text \in Contents, UserWrites(f, text)
  PROVE  Accounting'
<1>. USE FileAssumption
<1>0. TypeOK
  BY DEF Known, Inv
<1>1. /\ UNCHANGED <<st, applied, ledger, ends, cmd>>
      /\ disk' = [disk EXCEPT ![f] = text] /\ author' = [author EXCEPT ![f] = User]
  BY DEF UserWrites, logVars
<1>2. LedgerKept
  BY <1>1 DEF LedgerKept
<1>3. ASSUME NEW q \in Proposals PROVE AppliedOK(q)' /\ Accounted(q)'
  <2>1. \/ author'[PathOf[q]] = author[PathOf[q]] /\ disk'[PathOf[q]] = disk[PathOf[q]]
        \/ \A a \in Actions : author'[PathOf[q]] # <<q, a>>
    BY <1>0, <1>1 DEF TypeOK, User
  <2>2. Quiet(q)
    BY <1>1, <2>1 DEF Quiet
  <2>. QED BY <1>2, <2>2, QuietStep
<1>4. ASSUME NEW o \in Mutations PROVE MutationOK(o)'
  BY <1>1 DEF Known, Accounting, MutationOK, Open, Started
<1>5. ASSUME NEW j \in Commands PROVE CommandOK(j)'
  BY <1>1, <1>2, CommandFrame
<1>. QED BY <1>3, <1>4, <1>5 DEF Accounting

\* Every step keeps account of what the proposals left on disk.
LEMMA AccountingStep ==
  ASSUME Known, Next
  PROVE  Accounting'
<1>1. ASSUME NEW k \in Commands, WriteFails(k) PROVE Accounting'
  <2>1. cmd[k].pc = "write" /\ cmd[k].pc \in Recorded
    BY <1>1 DEF WriteFails, Recorded
  <2>2. CASE Conclude(k, "uncertain")
    BY <2>1, <2>2, ConcludeAccounting
  <2>3. CASE Conclude(k, Reopened(cmd[k].proposal))
    BY <2>1, <2>3, ConcludeAccounting
  <2>. QED BY <1>1, <2>2, <2>3 DEF WriteFails
<1>2. ASSUME NEW k \in Commands, PostwriteFails(k) PROVE Accounting'
  <2>1. cmd[k].pc \in Recorded /\ Conclude(k, "uncertain")
    BY <1>2 DEF PostwriteFails, Recorded
  <2>. QED BY <2>1, ConcludeAccounting
<1>. QED
  BY <1>1, <1>2, QuietActions, StaleAccounting, BeginAccounting, WriteAccounting, FinishAccounting,
     RecoverAccounting, UserAccounting DEF Next, CommandStep, StartStep, UserStep

\* What is kept account of is what DiskIsAccountedFor asks for once a proposal's
\* mutations are settled.
LEMMA AccountingSettles == Accounting => DiskIsAccountedFor
<1>. SUFFICES ASSUME Accounting, NEW p \in Proposals,
                     \A m \in Mutations : ledger[m].proposal = p => Settled(m)
              PROVE  /\ author[PathOf[p]] = <<p, "apply">> =>
                          \/ st[p] \in {"applied", "uncertain"}
                          \/ st[p] = "undone" /\ disk[PathOf[p]] = ledger[applied[p]].restore
                     /\ author[PathOf[p]] = <<p, "undo">> => st[p] \in {"undone", "uncertain"}
  BY DEF DiskIsAccountedFor
<1>1. \A m \in Mutations : ledger[m].proposal = p => ~Open(m)
  BY DEF Settled, Open
<1>. QED BY <1>1 DEF Accounting, Accounted, AfterApply, AfterUndo, Written, Unwritten

-----------------------------------------------------------------------------
(* The theorems *)

\* The inductive invariant holds at the start ...
LEMMA InvInit == Init => Inv /\ Closing /\ Folding
<1>. SUFFICES ASSUME Init PROVE Inv /\ Closing /\ Folding
  OBVIOUS
<1>. USE FileAssumption DEF Init, IdleCommand, NoLedger
<1>1. Inv
  BY DEF Inv, TypeOK, ClaimRecords, Contents, Actions, States, Labels, Phases, User,
         Claims, LaneDiscipline, WriteDiscipline, Inside, Recorded
<1>2. Closing
  BY DEF Closing, OneTerminalEvent
<1>3. Folding
  BY DEF Folding, Uncancelled, OneMover, Started, Open, Recorded
<1>. QED BY <1>1, <1>2, <1>3

\* ... and every step keeps it.
LEMMA InvStep == Inv /\ [Next]_vars => Inv'
<1>1. ASSUME Inv, Next PROVE Inv'
  BY <1>1, TypeStep, ClaimsStep, LaneDisciplineStep, WriteDisciplineStep DEF Inv
<1>2. ASSUME Inv, UNCHANGED vars PROVE Inv'
  BY <1>2 DEF Inv, vars, logVars, startVars, TypeOK, Claims, EditFits, LaneDiscipline, WriteDiscipline,
      Before, Create, Path, Started
<1>. QED BY <1>1, <1>2

\* The inductive invariant of the claims and lanes holds of every reachable state.
THEOREM Invariance == Spec => []Inv
BY InvInit, InvStep, PTL DEF Spec

\* Every variable keeps its type, whatever fails and whenever the desktop dies.
THEOREM TypeCorrect == Spec => []TypeOK
<1>1. Inv => TypeOK
  BY DEF Inv
<1>. QED BY <1>1, Invariance, PTL

\* apply_agent_file_edit_state and undo_agent_file_edit_state hold the lane of
\* their path from the comparison to the write, so for any number of commands and
\* files neither overwrites what another one wrote.
THEOREM WritesAreCompared == Spec => NoSilentOverwrite
<1>1. Inv => WritesWhatItCompared
  BY DEF Inv, WriteDiscipline, WritesWhatItCompared
<1>. QED BY <1>1, Invariance, PTL DEF NoSilentOverwrite

\* Unless a start runs beside a command, no mutation gets two terminal events: a
\* recovery reconciles exactly what a dead command left open.
THEOREM ClosedOnce ==
  ASSUME LiveStart = FALSE
  PROVE  Spec => []OneTerminalEvent
<1>1. Inv /\ Closing /\ [Next]_vars => Closing'
  <2>1. ASSUME Inv, Closing, Next PROVE Closing'
    BY <2>1, ClosingStep
  <2>2. ASSUME Closing, UNCHANGED vars PROVE Closing'
    BY <2>2 DEF Closing, vars, logVars, startVars, Open, Started, OneTerminalEvent
  <2>. QED BY <2>1, <2>2
<1>2. Closing => OneTerminalEvent
  BY DEF Closing
<1>. QED BY <1>1, <1>2, Invariance, InvInit, PTL DEF Spec

\* Unless a start runs beside a command or an undo is called for what was never
\* applied, an uncertain outcome is never folded away: not by a late event of
\* another command, not by a cancel, not by a recovery.
THEOREM UncertainIsFinal ==
  ASSUME LiveStart = FALSE, EagerUndo = FALSE
  PROVE  Spec => UncertainStays
<1>. DEFINE All == Inv /\ Closing /\ Folding
<1>1. All /\ [Next]_vars => All'
  <2>1. ASSUME Inv, Closing, Folding, Next PROVE Closing' /\ Folding'
    BY <2>1, ClosingStep, UncancelledStep, OneMoverStep DEF Folding
  <2>2. ASSUME Closing, Folding, UNCHANGED vars PROVE Closing' /\ Folding'
    BY <2>2 DEF Closing, Folding, Uncancelled, OneMover, vars, logVars, startVars, Open, Started,
         OneTerminalEvent
  <2>. QED BY <2>1, <2>2, InvStep
<1>2. All /\ [Next]_vars => [KeepsUncertain]_vars
  BY UncertainStep
<1>3. Init => All
  BY InvInit
<1>. QED BY <1>1, <1>2, <1>3, PTL DEF Spec, UncertainStays

\* Unless a start runs beside a command or an undo is called for what was never
\* applied, whatever apply_agent_file_edit, undo_agent_file_edit and the recovery
\* leave behind when they are done with a proposal, the ledger accounts for what
\* is on disk: no write of a proposal is on disk under a state that denies it.
THEOREM DiskAccountedFor ==
  ASSUME LiveStart = FALSE, EagerUndo = FALSE
  PROVE  Spec => []DiskIsAccountedFor
<1>1. Known /\ [Next]_vars => Known'
  <2>1. ASSUME Known, Next PROVE Known'
    <3>1. Closing' /\ Folding' /\ Inv'
      BY <2>1, ClosingStep, UncancelledStep, OneMoverStep, InvStep DEF Folding, Known
    <3>. QED BY <2>1, <3>1, AccountingStep DEF Known
  <2>2. ASSUME Known, UNCHANGED vars PROVE Known'
    <3>1. UNCHANGED <<disk, author, st, applied, ledger, ends, cmd>>
      BY <2>2 DEF vars, logVars
    <3>2. Accounting'
      BY <2>2, <3>1, QuietAccounting
    <3>3. Closing' /\ Folding'
      BY <2>2 DEF Known, Closing, Folding, Uncancelled, OneMover, vars, logVars, startVars, Open, Started,
           OneTerminalEvent
    <3>. QED BY <2>2, <3>2, <3>3, InvStep DEF Known
  <2>. QED BY <2>1, <2>2
<1>2. Init => Known
  <2>1. Init => Accounting
    BY FileAssumption DEF Init, Accounting, AppliedOK, Accounted, MutationOK, CommandOK, IdleCommand, NoLedger,
         Started, Open, User, Recorded
  <2>. QED BY <2>1, InvInit DEF Known
<1>3. Known => DiskIsAccountedFor
  BY AccountingSettles DEF Known
<1>. QED BY <1>1, <1>2, <1>3, PTL DEF Spec

=============================================================================
