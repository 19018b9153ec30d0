----------------------------- MODULE GitReview -----------------------------
(***************************************************************************)
(* The Git review (desktop/src-tauri/src/git_review.rs and the git_        *)
(* commands of main.rs): the user looks at a diff and stages, unstages,    *)
(* restores or commits what it showed.  Every call is a series of git      *)
(* commands with no lock around them, so editors, terminals and other      *)
(* calls work on the repository between any two, and the project may be    *)
(* switched between the view and the call that uses it.  A revision, taken *)
(* when the view was made, is what tells that something changed.           *)
(*                                                                         *)
(* A repository has one file.  Its content is a sequence of places that    *)
(* lie far enough apart for a change of each to be a hunk of its own.      *)
(***************************************************************************)
EXTENDS Naturals, Sequences

CONSTANTS
    GitProjects,      \* projects with a repository, clones of one another at first
    Places,           \* number of places in the file
    MAX_DIFF_HUNKS,
    MaxGitEvents,     \* bound on what others do
    MaxGitCalls       \* bound on the calls of the review

ASSUME GitAssumption ==
    Places \in Nat /\ MAX_DIFF_HUNKS \in Nat /\ MaxGitEvents \in Nat /\ MaxGitCalls \in Nat

VARIABLES
    repo,       \* project -> repository
    open,       \* AppState::project_root
    view,       \* what the interface was given last, with its revision
    gcall,      \* the call that is under way
    events,     \* what others did
    gcalls      \* number of calls

gitvars == <<repo, open, view, gcall, events, gcalls>>

-----------------------------------------------------------------------------
(* Repositories.  inst is the directory's identity on the file system. *)

FileTexts == [1 .. Places -> {0, 1}]
Base == [i \in 1 .. Places |-> 0]
Theirs == [i \in 1 .. Places |-> 1]      \* the other side of a merge
NoFile == <<>>
Link == <<8>>                            \* a symbolic link or a nested repository
Unmerged == <<9>>

Hunk(at, old, new) == [at |-> at, old |-> old, new |-> new]

\* git diff of one file, bounded by review_diff.  A file that comes or goes is one hunk, an
\* unmerged file has none that can be parsed.
review_hunks(old, new) ==
    LET Differs(i) == old[i] # new[i]
        At(i) == Hunk(i, <<old[i]>>, <<new[i]>>)
        places == SelectSeq([i \in 1 .. Places |-> i], Differs)
        hunks == IF old = new \/ Unmerged \in {old, new} \/ Link \in {old, new} THEN <<>>
                 ELSE IF NoFile \in {old, new} THEN <<Hunk(0, old, new)>>
                 ELSE [k \in DOMAIN places |-> At(places[k])]
    IN [k \in DOMAIN hunks \cap 1 .. MAX_DIFF_HUNKS |-> hunks[k]]

\* git diff [--cached]: a file that is not in the index is no working change
diff_output(r, staged) ==
    IF staged THEN review_hunks(r.head, r.index)
    ELSE IF r.index = NoFile THEN <<>> ELSE review_hunks(r.index, r.work)

\* git apply --cached [--reverse]: refused unless the index holds the hunk's old side
From(h, reverse) == IF reverse THEN h.new ELSE h.old
Into(h, reverse) == IF reverse THEN h.old ELSE h.new
Applies(r, h, reverse) ==
    IF h.at = 0 THEN r.index = From(h, reverse)
    ELSE r.index \in FileTexts /\ <<r.index[h.at]>> = From(h, reverse)
apply_hunk(r, h, reverse) ==
    [r EXCEPT !.index = IF h.at = 0 THEN Into(h, reverse)
                        ELSE [@ EXCEPT ![h.at] = Into(h, reverse)[1]]]

\* validate_relative_path
validate_relative_path(r) == r.work # Link /\ (r.work = NoFile => r.index \notin {NoFile, Unmerged})

\* The letter git status has for a difference
Letter(a, b) ==
    IF Unmerged \in {a, b} THEN "U"
    ELSE IF a = b THEN " "
    ELSE IF a = NoFile THEN "A"
    ELSE IF b = NoFile THEN "D" ELSE "M"

-----------------------------------------------------------------------------
(* Revisions: what is hashed *)

\* Fault variant: the commit stands for the repository.
repository_revision_Head(p) == [root |-> "any", inst |-> 0, commit |-> repo[p].commit]

\* repository_revision
repository_revision(p) == [root |-> p, inst |-> repo[p].inst, commit |-> repo[p].commit]

\* file_revision
file_revision(p, staged) ==
    LET r == repo[p]
    IN [repository |-> repository_revision(p),
        status |-> <<Letter(r.head, r.index), Letter(r.index, r.work)>>,
        index |-> r.index, head |-> r.head,
        working |-> IF staged THEN <<"staged-view">> ELSE <<"working", r.work>>]

\* staged_revision, with the tree that git write-tree makes of the index
staged_revision(p) ==
    [repository |-> repository_revision(p), status |-> <<>>,
     index |-> repo[p].index, head |-> <<>>, working |-> <<"tree">>]

NoRevision == [repository |-> [root |-> "none", inst |-> 0, commit |-> 0], status |-> <<>>,
               index |-> <<>>, head |-> <<>>, working |-> <<>>]

-----------------------------------------------------------------------------
(* Calls *)

GitOps == {"stage_hunk", "unstage_hunk", "stage_file", "unstage_file", "restore_file", "commit"}
OnStaged(op) == op \in {"unstage_hunk", "unstage_file"}
WithDiff(op) == op \in {"review_diff", "stage_hunk", "unstage_hunk"}

\* What a write does to a repository; n names a hunk of hunks
Possible(op, r, hunks, n) ==
    CASE op = "stage_hunk" -> n \in DOMAIN hunks /\ Applies(r, hunks[n], FALSE)
      [] op = "unstage_hunk" -> n \in DOMAIN hunks /\ Applies(r, hunks[n], TRUE)
      [] op = "stage_file" -> {r.index, r.work} # {NoFile}
      [] op = "unstage_file" -> r.commit # 0
      [] op = "restore_file" -> r.index \notin {NoFile, Unmerged}
      [] op = "commit" -> r.index \notin {r.head, Unmerged}
Effect(op, r, hunks, n) ==
    CASE op = "stage_hunk" -> apply_hunk(r, hunks[n], FALSE)
      [] op = "unstage_hunk" -> apply_hunk(r, hunks[n], TRUE)
      [] op = "stage_file" -> [r EXCEPT !.index = r.work]
      [] op = "unstage_file" -> [r EXCEPT !.index = r.head]
      [] op = "restore_file" -> [r EXCEPT !.work = r.index]
      [] op = "commit" -> [r EXCEPT !.head = r.index, !.commit = @ + 1]

NoCall == [op |-> "none", step |-> "none", root |-> "none", staged |-> FALSE, n |-> 0,
           hunks |-> <<>>, clean |-> TRUE]
\* seen is the repository when the revision was taken; clean says that nobody wrote to it
\* while the view was made
NoView == [kind |-> "none", root |-> "none", hunks |-> <<>>, revision |-> NoRevision,
           seen |-> [head |-> <<>>, index |-> <<>>, work |-> <<>>, commit |-> 0, inst |-> 0],
           clean |-> TRUE]

Begins(op, staged, n) ==
    /\ gcall = NoCall /\ gcalls < MaxGitCalls /\ gcalls' = gcalls + 1
    /\ gcall' = [NoCall EXCEPT !.op = op, !.root = open, !.staged = staged, !.n = n,
                    !.step = IF WithDiff(op) THEN "diff"
                             ELSE IF op \in {"ours", "theirs"} THEN "checkout"
                             ELSE IF op = "mark" THEN "add" ELSE "revision"]
    /\ UNCHANGED <<repo, open, view, events>>

\* git_diff_unified and git_staged_revision
BeginReviewDiff(staged) == Begins("review_diff", staged, 0)
BeginStagedRevision == Begins("staged_revision", TRUE, 0)

\* git_hunk_stage, git_stage, git_commit ...: what the view offers, with its revision
BeginWrite(op, n) ==
    /\ view.kind = (IF op = "commit" THEN "tree" ELSE IF OnStaged(op) THEN "staged" ELSE "working")
    /\ n # 0 <=> op \in {"stage_hunk", "unstage_hunk"}
    /\ n # 0 => n \in DOMAIN view.hunks
    /\ Begins(op, OnStaged(op), n)

\* git_resolve_conflict has no revision
BeginResolve(how) == Begins(how, FALSE, 0)

\* review_diff: the diff first ...
ReadDiff ==
    LET r == repo[gcall.root]
    IN /\ gcall.step = "diff"
       /\ validate_relative_path(r)
       /\ gcall' = [gcall EXCEPT !.step = "revision", !.hunks = diff_output(r, gcall.staged)]
       /\ UNCHANGED <<repo, open, view, events, gcalls>>

\* ... and then the revision, which a view keeps and a write compares
ReadRevision ==
    LET r == repo[gcall.root]
        tree == gcall.op \in {"staged_revision", "commit"}
        revision == IF tree THEN staged_revision(gcall.root)
                    ELSE file_revision(gcall.root, gcall.staged)
    IN /\ gcall.step = "revision"
       /\ IF tree THEN r.index # Unmerged ELSE validate_relative_path(r)
       /\ IF gcall.op \in {"review_diff", "staged_revision"}
          THEN /\ view' = [kind |-> IF tree THEN "tree" ELSE IF gcall.staged THEN "staged" ELSE "working",
                           root |-> gcall.root, hunks |-> gcall.hunks, revision |-> revision,
                           seen |-> [head |-> r.head, index |-> r.index, work |-> r.work,
                                     commit |-> r.commit, inst |-> r.inst],
                           clean |-> gcall.clean]
               /\ gcall' = NoCall
          ELSE /\ gcall' = IF revision = view.revision THEN [gcall EXCEPT !.step = "write"] ELSE NoCall
               /\ UNCHANGED view
       /\ UNCHANGED <<repo, open, events, gcalls>>

\* The write itself; restore_file looks once more whether the file is tracked, commit whether
\* anything is staged
Write ==
    /\ gcall.step = "write"
    /\ Possible(gcall.op, repo[gcall.root], gcall.hunks, gcall.n)
    /\ repo' = [repo EXCEPT ![gcall.root] = Effect(gcall.op, @, gcall.hunks, gcall.n)]
    /\ gcall' = NoCall
    /\ UNCHANGED <<open, view, events, gcalls>>

\* git_resolve_conflict: checkout --ours or --theirs of an unmerged file, then add
Checkout ==
    LET r == repo[gcall.root]
    IN /\ gcall.step = "checkout" /\ r.index = Unmerged
       /\ repo' = [repo EXCEPT ![gcall.root].work = IF gcall.op = "ours" THEN r.head ELSE Theirs]
       /\ gcall' = [gcall EXCEPT !.step = "add"]
       /\ UNCHANGED <<open, view, events, gcalls>>
AddResolved ==
    /\ gcall.step = "add"
    /\ repo' = [repo EXCEPT ![gcall.root].index = repo[gcall.root].work]
    /\ gcall' = NoCall
    /\ UNCHANGED <<open, view, events, gcalls>>

\* run_git: any command may fail, or say more than the limit; the call ends where it is
GitFails ==
    /\ gcall # NoCall /\ gcall' = NoCall
    /\ UNCHANGED <<repo, open, view, events, gcalls>>

-----------------------------------------------------------------------------
(* What others do *)

\* Bounded: what they do after the last call, or to a repository nobody looks at, no call meets
Other == events < MaxGitEvents /\ events' = events + 1 /\ (gcall # NoCall \/ gcalls < MaxGitCalls)
OthersWrite(p, r) ==
    /\ Other /\ r # repo[p] /\ p \in {open, gcall.root}
    /\ repo' = [repo EXCEPT ![p] = r]
    /\ gcall' = IF gcall.root = p THEN [gcall EXCEPT !.clean = FALSE] ELSE gcall
    /\ UNCHANGED <<open, view, gcalls>>

\* A file is saved, deleted or replaced by a link; the index and the history are changed from
\* a terminal; a merge leaves a conflict; the repository is removed and cloned again
SaveWork(p) == \E c \in FileTexts \cup {NoFile, Link} : OthersWrite(p, [repo[p] EXCEPT !.work = c])
ChangeIndex(p) == \E c \in FileTexts \cup {NoFile} : OthersWrite(p, [repo[p] EXCEPT !.index = c])
CommitOutside(p) ==
    repo[p].index # Unmerged /\ OthersWrite(p, Effect("commit", repo[p], <<>>, 0))
Merge(p) == OthersWrite(p, [repo[p] EXCEPT !.index = Unmerged])
CloneAgain(p) == OthersWrite(p, [repo[p] EXCEPT !.inst = @ + 1])

OpenOther(p) ==
    /\ Other /\ p # open /\ open' = p
    /\ UNCHANGED <<repo, view, gcall, gcalls>>

-----------------------------------------------------------------------------
GitInit ==
    /\ \E h \in {NoFile, Base} : \E i \in FileTexts \cup {NoFile} : \E w \in FileTexts \cup {NoFile} :
          repo = [p \in GitProjects |-> [head |-> h, index |-> i, work |-> w, inst |-> 0,
                                          commit |-> IF h = NoFile THEN 0 ELSE 1]]   \* 0: unborn
    /\ open \in GitProjects
    /\ view = NoView /\ gcall = NoCall /\ events = 0 /\ gcalls = 0

GitNext ==
    \/ \E staged \in BOOLEAN : BeginReviewDiff(staged)
    \/ BeginStagedRevision
    \/ \E op \in GitOps : \E n \in 0 .. Places : BeginWrite(op, n)
    \/ \E how \in {"ours", "theirs", "mark"} : BeginResolve(how)
    \/ ReadDiff \/ ReadRevision \/ Write \/ Checkout \/ AddResolved \/ GitFails
    \/ \E p \in GitProjects :
          \/ SaveWork(p) \/ ChangeIndex(p) \/ CommitOutside(p) \/ Merge(p) \/ CloneAgain(p)
          \/ OpenOther(p)

GitSpec == GitInit /\ [][GitNext]_gitvars

-----------------------------------------------------------------------------
(* Properties *)

\* What a guarded call does when it writes.
WriteIsShown ==
    gcall.step = "write" /\ gcall' = NoCall /\ repo' # repo =>
        LET p == gcall.root
            shown == Effect(gcall.op, view.seen, view.hunks, gcall.n)
        IN /\ p = view.root
           /\ gcall.clean /\ view.clean =>
                 /\ repo[p].inst = view.seen.inst
                 /\ repo'[p].head = shown.head /\ repo'[p].index = shown.index
                 /\ view.kind = "working" => repo'[p].work = shown.work
                 /\ view.kind # "working" => repo'[p].work = repo[p].work

\* A guarded call (stage_hunk ... commit) writes to no other repository than the one the user
\* was shown, even if the project is switched at any moment.  And unless others write while a
\* call runs its git commands, it does to the repository exactly what it would have done to
\* the one that was shown: a change between the view and the call, of the file, the index,
\* the history or the directory itself, is never taken for what was reviewed.
WritesWhatWasShown == [][WriteIsShown]_gitvars

=============================================================================
