--------------------------- MODULE ProjectRecords ---------------------------
(***************************************************************************)
(* The project-scoped records of the store (runs, plots, exported          *)
(* artifacts, evidence entries and claims; crates/rho-store lib.rs and     *)
(* evidence.rs) and the desktop commands that write and read them          *)
(* (desktop main.rs).  A command reads AppState.project_root first and     *)
(* waits for the context afterwards, so the active project may change      *)
(* between the two.                                                        *)
(***************************************************************************)
EXTENDS Integers, FiniteSets, Sequences, SequencesExt

CONSTANTS
    RecProjects,   \* project roots
    MaxRuns,       \* bound: recorded runs
    MaxRecords,    \* bound: artifact records, entries and claims, each
    MaxMoves       \* bound: project switches, Workspace restarts and edits

VARIABLES
    project_root, \* AppState.project_root
    ident,       \* the broker's identity: [ws, state, proj]
    runs,        \* the rows of runs, oldest first
    plots,       \* the rows of plot_artifacts
    artifacts,   \* the rows of artifact_records
    files,       \* <<project, path>> -> text of a project file, or Gone
    entries,     \* the rows of evidence_entries
    claims,      \* the rows of evidence_claims with their evidence links
    command,     \* the one desktop command under way, or Idle
    made,        \* how many artifacts, entries and claims were ever inserted
    moves        \* counts the steps MaxMoves bounds

recvars == <<project_root, ident, runs, plots, artifacts, files, entries, claims,
             command, made, moves>>

Gone == "gone"
Idle == [op |-> "idle"]
SourcePath == "analysis.R"
ExportPath == "figure.png"
Paths == {SourcePath, ExportPath}
Texts == {"first", "second"}

RecInit ==
    /\ project_root \in RecProjects
    /\ ident = [ws |-> 1, state |-> 0, proj |-> 0]
    /\ runs = << >>
    /\ plots = {}
    /\ artifacts = {}
    /\ files = [f \in RecProjects \X Paths |-> IF f[2] = SourcePath THEN "first" ELSE Gone]
    /\ entries = {}
    /\ claims = {}
    /\ command = Idle
    /\ made = [artifact |-> 0, entry |-> 0, claim |-> 0]
    /\ moves = 0

(***************************************************************************)
(* Queries                                                                 *)
(***************************************************************************)

\* At most one row: the run with this identity, if the project owns it.
get_run_detail(p, id) == {r \in ToSet(runs) : r.project = p /\ r.id = id}

get_plot_artifact(p, id) == {x \in plots : x.project = p /\ x.id = id}

get_artifact_record(p, id) == {a \in artifacts : a.project = p /\ a.id = id}

\* The scope of the clear, prune and retention commands.
InScope(x, p, session) == x.project = p /\ (session => x.ws = ident.ws)

\* The completed execution that left the Workspace in this state.
find_run_detail_for_workspace_state(p, at) ==
    LET found == SelectSeq(runs, LAMBDA r :
                    /\ r.project = p
                    /\ r.ws = at.ws
                    /\ r.after.state = at.state
                    /\ r.after.proj <= at.proj
                    /\ r.completed)
    IN  IF found = << >> THEN {} ELSE {Last(found)}

(***************************************************************************)
(* Runs                                                                    *)
(***************************************************************************)

\* A dispatched execution: create_run under the store's active project, the
\* result, and the plots it published.
RunRecorded(class, error, plotted, parent) ==
    LET after == IF class = "probe" THEN ident ELSE [ident EXCEPT !.state = @ + 1]
        run == [id |-> Len(runs) + 1, project |-> project_root, class |-> class, error |-> error,
                completed |-> ~error, ws |-> ident.ws, after |-> after, parent |-> parent]
    IN  /\ Len(runs) < MaxRuns
        /\ runs' = Append(runs, run)
        /\ ident' = after
        /\ plots' = IF plotted
                    THEN plots \cup {[id |-> run.id, project |-> project_root, ws |-> ident.ws,
                                      run |-> run.id, pruned |-> FALSE]}
                    ELSE plots

execute_r ==
    /\ \E class \in {"probe", "state_capable"}, error, plotted \in BOOLEAN :
          RunRecorded(class, error, plotted, 0)
    /\ UNCHANGED <<project_root, artifacts, files, entries, claims, command, made, moves>>

\* retry_run reads the root and then waits for the context.
BeginRetry(id) ==
    /\ command = Idle
    /\ command' = [op |-> "retry", root |-> project_root, id |-> id]
    /\ UNCHANGED <<project_root, ident, runs, plots, artifacts, files, entries, claims, made, moves>>

\* The run is looked up under the root read first; its code is dispatched to
\* the Workspace as it is now.
RetryRun ==
    /\ command.op = "retry"
    /\ command' = Idle
    /\ IF get_run_detail(command.root, command.id) = {}
       THEN UNCHANGED <<ident, runs, plots>>
       ELSE \E error, plotted \in BOOLEAN :
               RunRecorded("state_capable", error, plotted, command.id)
    /\ UNCHANGED <<project_root, artifacts, files, entries, claims, made, moves>>

(***************************************************************************)
(* Artifacts                                                               *)
(***************************************************************************)

artifact_provenance_status(run) == run # {}

\* Identities are not used again: UUIDs, AUTOINCREMENT keys and digests.
Inserted(kind) ==
    /\ made[kind] < MaxRecords
    /\ made' = [made EXCEPT ![kind] = @ + 1]

\* ensure_artifact_export_target: the destination must not exist yet.
ensure_artifact_export_target(p) == files[<<p, ExportPath>>] = Gone

BeginExport(op, plot) ==
    /\ command = Idle
    /\ ensure_artifact_export_target(project_root)
    /\ command' = [op |-> op, root |-> project_root, plot |-> plot, seen |-> ident, step |-> "lock"]
    /\ UNCHANGED <<project_root, ident, runs, plots, artifacts, files, entries, claims, made, moves>>

\* The plot must belong to the project and still have its payload.
ExportPlotWrite ==
    /\ command.op = "export_plot" /\ command.step = "lock"
    /\ LET plot == get_plot_artifact(command.root, command.plot)
       IN  IF \/ plot = {}
              \/ \E x \in plot : x.pruned
              \/ files[<<command.root, ExportPath>>] # Gone
           THEN command' = Idle /\ UNCHANGED files
           ELSE /\ files' = [files EXCEPT ![<<command.root, ExportPath>>] = "first"]
                /\ command' = [command EXCEPT !.step = "record"]
    /\ UNCHANGED <<project_root, ident, runs, plots, artifacts, entries, claims, made, moves>>

\* read_data_view refuses a view whose Workspace identity is no longer current.
ExportTableWrite ==
    /\ command.op = "export_table" /\ command.step = "lock"
    /\ IF command.seen # ident \/ files[<<command.root, ExportPath>>] # Gone
       THEN command' = Idle /\ UNCHANGED files
       ELSE /\ files' = [files EXCEPT ![<<command.root, ExportPath>>] = "first"]
            /\ command' = [command EXCEPT !.step = "record"]
    /\ UNCHANGED <<project_root, ident, runs, plots, artifacts, entries, claims, made, moves>>

\* The record, then broker.project_changed().
RecordArtifact(kind, run) ==
    /\ Inserted("artifact")
    /\ artifacts' = artifacts \cup
          {[id |-> made'.artifact, kind |-> kind, project |-> command.root, ws |-> command.seen.ws,
            run |-> run, complete |-> artifact_provenance_status(get_run_detail(command.root, run))]}
    /\ ident' = [ident EXCEPT !.proj = @ + 1]
    /\ command' = Idle

\* The plot names its run, found or not.
export_plot_artifact ==
    /\ command.op = "export_plot" /\ command.step = "record"
    /\ RecordArtifact("plot_export", command.plot)
    /\ UNCHANGED <<project_root, runs, plots, files, entries, claims, moves>>

\* The table names the run that left the Workspace as it was seen.
export_data_view_artifact ==
    /\ command.op = "export_table" /\ command.step = "record"
    /\ LET run == find_run_detail_for_workspace_state(command.root, command.seen)
       IN  RecordArtifact("table_export", IF run = {} THEN 0 ELSE (CHOOSE r \in run : TRUE).id)
    /\ UNCHANGED <<project_root, runs, plots, files, entries, claims, moves>>

\* A write that succeeded and a record that the store refused, or the death of
\* the process in between: the file stays.
ExportDies ==
    /\ command.op \in {"export_plot", "export_table"} /\ command.step = "record"
    /\ command' = Idle
    /\ UNCHANGED <<project_root, ident, runs, plots, artifacts, files, entries, claims, made, moves>>

clear_artifact_records(session) ==
    /\ artifacts' = {a \in artifacts : ~InScope(a, project_root, session)}
    /\ UNCHANGED <<project_root, ident, runs, plots, files, entries, claims, command, made, moves>>

clear_plot_artifacts(session) ==
    /\ plots' = {x \in plots : ~InScope(x, project_root, session)}
    /\ UNCHANGED <<project_root, ident, runs, artifacts, files, entries, claims, command, made, moves>>

prune_plot_artifact_payloads(session) ==
    /\ plots' = {IF InScope(x, project_root, session) THEN [x EXCEPT !.pruned = TRUE] ELSE x : x \in plots}
    /\ UNCHANGED <<project_root, ident, runs, artifacts, files, entries, claims, command, made, moves>>

(***************************************************************************)
(* Evidence                                                                *)
(***************************************************************************)

create_evidence_entry(inspectable) ==
    /\ Inserted("entry")
    /\ entries' = entries \cup {[id |-> made'.entry, project |-> project_root, inspectable |-> inspectable]}
    /\ UNCHANGED <<project_root, ident, runs, plots, artifacts, files, claims, command, moves>>

\* The links of a deleted entry go with it (ON DELETE CASCADE).
delete_evidence_entry(id) ==
    /\ \E e \in entries : e.project = project_root /\ e.id = id
    /\ entries' = {e \in entries : e.project # project_root \/ e.id # id}
    /\ claims' = {[c EXCEPT !.links = @ \ {id}] : c \in claims}
    /\ UNCHANGED <<project_root, ident, runs, plots, artifacts, files, command, made, moves>>

set_evidence_citation(id) ==
    /\ \E e \in entries : e.project = project_root /\ e.id = id /\ ~e.inspectable
    /\ entries' = {IF e.project = project_root /\ e.id = id THEN [e EXCEPT !.inspectable = TRUE] ELSE e :
                      e \in entries}
    /\ UNCHANGED <<project_root, ident, runs, plots, artifacts, files, claims, command, made, moves>>

\* source_claim_snapshot: the digest and the excerpt of a file that exists.
source_claim_snapshot(p) == files[<<p, SourcePath>>]

\* create_evidence_claim of main.rs: the source is read before the store opens.
BeginClaim(anchor, artifact, links) ==
    /\ command = Idle
    /\ anchor = "source_range" => source_claim_snapshot(project_root) # Gone
    /\ command' = [op |-> "claim", root |-> project_root, anchor |-> anchor, links |-> links,
                   artifact |-> IF anchor = "artifact" THEN artifact ELSE 0,
                   text |-> IF anchor = "artifact" THEN Gone ELSE source_claim_snapshot(project_root)]
    /\ UNCHANGED <<project_root, ident, runs, plots, artifacts, files, entries, claims, made, moves>>

\* validate_claim_draft: a source anchor has a text and no artifact, an
\* artifact anchor the reverse.
validate_claim_draft(d) ==
    \/ d.anchor = "source_range" /\ d.text # Gone /\ d.artifact = 0
    \/ d.anchor = "artifact" /\ d.text = Gone /\ d.artifact # 0

\* The foreign key alone: a link to an entry of any project.
ClaimAdmitted_AnyProject(d) ==
    /\ validate_claim_draft(d)
    /\ \A id \in d.links : \E e \in entries : e.id = id
    /\ d.anchor = "artifact" => get_artifact_record(d.root, d.artifact) # {}

\* Every link and an artifact anchor must be rows of the claim's project.
ClaimAdmitted(d) ==
    /\ validate_claim_draft(d)
    /\ \A id \in d.links : \E e \in entries : e.id = id /\ e.project = d.root
    /\ d.anchor = "artifact" => get_artifact_record(d.root, d.artifact) # {}

create_evidence_claim ==
    /\ command.op = "claim"
    /\ command' = Idle
    /\ IF ClaimAdmitted(command)
       THEN /\ Inserted("claim")
            /\ claims' = claims \cup
                  {[id |-> made'.claim, project |-> command.root, anchor |-> command.anchor,
                    artifact |-> command.artifact, text |-> command.text, links |-> command.links]}
       ELSE UNCHANGED <<claims, made>>
    /\ UNCHANGED <<project_root, ident, runs, plots, artifacts, files, entries, moves>>

delete_evidence_claim(id) ==
    /\ \E c \in claims : c.id = id /\ c.project = project_root
    /\ claims' = {c \in claims : c.id # id \/ c.project # project_root}
    /\ UNCHANGED <<project_root, ident, runs, plots, artifacts, files, entries, command, made, moves>>

\* The verdict, in the order of its branches.
ReviewStatus(c, resolved) ==
    LET linked == {e \in entries : e.project = c.project /\ e.id \in c.links}
    IN  IF ~resolved THEN "unresolved_source"
        ELSE IF c.links = {} THEN "missing_evidence"
        ELSE IF \/ Cardinality(linked) # Cardinality(c.links)
                \/ \E e \in linked : ~e.inspectable THEN "incomplete_evidence"
        ELSE "linked"

\* review_evidence_claim of main.rs: the anchor is resolved first ...
BeginReview(id) ==
    /\ command = Idle
    /\ command' = [op |-> "review", root |-> project_root, id |-> id,
                   resolved |-> \E c \in claims : /\ c.id = id /\ c.project = project_root
                                                  /\ c.anchor = "source_range"
                                                  /\ c.text = source_claim_snapshot(project_root)]
    /\ UNCHANGED <<project_root, ident, runs, plots, artifacts, files, entries, claims, made, moves>>

Reviewed(status, claim) ==
    [op |-> "reviewed", root |-> command.root, status |-> status, claim |-> claim]

\* ... and the store gives the verdict on the claim as it is then.
review_evidence_claim ==
    /\ command.op = "review"
    /\ LET owned == {c \in claims : c.id = command.id /\ c.project = command.root}
           other == {c \in claims : c.id = command.id /\ c.project # command.root}
       IN  command' = IF other # {} THEN Reviewed("cross_project_rejected", {})
                      ELSE IF owned = {} THEN Idle
                      ELSE LET c == CHOOSE c \in owned : TRUE
                               resolved == IF c.anchor = "source_range" THEN command.resolved
                                           ELSE get_artifact_record(c.project, c.artifact) # {}
                           IN  Reviewed(ReviewStatus(c, resolved), owned)
    /\ UNCHANGED <<project_root, ident, runs, plots, artifacts, files, entries, claims, made, moves>>

\* The answer reaches the user interface.
ReviewShown ==
    /\ command.op = "reviewed"
    /\ command' = Idle
    /\ UNCHANGED <<project_root, ident, runs, plots, artifacts, files, entries, claims, made, moves>>

(***************************************************************************)
(* The rest of the desktop, as far as it moves what the records are about  *)
(***************************************************************************)

\* A project switch or a restart of the Workspace.
Move(p, ws) ==
    /\ moves < MaxMoves
    /\ moves' = moves + 1
    /\ project_root' = p
    /\ ident' = [ident EXCEPT !.ws = @ + ws, !.proj = @ + 1]
    /\ UNCHANGED <<runs, plots, artifacts, files, entries, claims, command, made>>

\* The user edits or removes the source file a claim may be anchored in.
EditFile(f, text) ==
    /\ moves < MaxMoves
    /\ moves' = moves + 1
    /\ files[f] # text
    /\ files' = [files EXCEPT ![f] = text]
    /\ UNCHANGED <<project_root, ident, runs, plots, artifacts, entries, claims, command, made>>

Ids == 1 .. MaxRecords

RecNext ==
    \/ execute_r
    \/ \E id \in 1 .. MaxRuns : BeginRetry(id)
    \/ RetryRun
    \/ \E op \in {"export_plot", "export_table"}, plot \in 1 .. MaxRuns : BeginExport(op, plot)
    \/ ExportPlotWrite
    \/ ExportTableWrite
    \/ export_plot_artifact
    \/ export_data_view_artifact
    \/ ExportDies
    \/ \E session \in BOOLEAN :
          \/ clear_artifact_records(session)
          \/ clear_plot_artifacts(session)
          \/ prune_plot_artifact_payloads(session)
    \/ \E b \in BOOLEAN : create_evidence_entry(b)
    \/ \E id \in Ids : delete_evidence_entry(id) \/ set_evidence_citation(id)
    \/ \E anchor \in {"source_range", "artifact"}, artifact \in Ids, links \in SUBSET Ids :
          BeginClaim(anchor, artifact, links)
    \/ create_evidence_claim
    \/ \E id \in Ids : delete_evidence_claim(id) \/ BeginReview(id)
    \/ review_evidence_claim
    \/ ReviewShown
    \/ \E p \in RecProjects, ws \in {0, 1} : Move(p, ws)
    \/ \E p \in RecProjects, text \in Texts \cup {Gone} : EditFile(<<p, SourcePath>>, text)

RecSpec == RecInit /\ [][RecNext]_recvars

(***************************************************************************)
(* Properties                                                              *)
(***************************************************************************)

\* What a record points to is a record of its own project, however a project
\* switch falls between the reading of the root and the write: an artifact
\* that claims complete provenance names a run of its project, a claim links
\* entries of its project, a plot belongs to the project of its run.
RecordsStayTogether ==
    /\ \A a \in artifacts : a.complete => get_run_detail(a.project, a.run) # {}
    /\ \A c \in claims : \A id \in c.links :
          \E e \in entries : e.id = id /\ e.project = c.project
    /\ \A x \in plots : get_run_detail(x.project, x.run) # {}
=============================================================================
