----------------------------- MODULE PluginStore -----------------------------
(***************************************************************************)
(* The durable lifecycle of one Workspace plugin in one project            *)
(* (crates/rho-store/src/plugin_lifecycle.rs): the plugin's state row, its *)
(* transitions and the tombstones of uninstalled packages.  Each operation *)
(* is one SQLite transaction.                                              *)
(*                                                                         *)
(* A transition, the trash key it carries and the tombstone it leaves      *)
(* share the suffix of one uuid and are one id here; ids are handed out in *)
(* order.  Projects and plugins never share a row.                         *)
(***************************************************************************)
EXTENDS Naturals, FiniteSets

CONSTANTS
    Digests,          \* package digests
    None,             \* NULL
    MaxTransitions    \* bound on the transitions requested

ASSUME StoreAssumption == None \notin Digests /\ MaxTransitions \in Nat

VARIABLES
    row,        \* workspace_plugin_states
    trans,      \* workspace_plugin_transitions
    tomb,       \* workspace_plugin_package_tombstones
    crashes     \* host_quarantined events of the last ten minutes

storeVars == <<row, trans, tomb, crashes>>

Ids == 1 .. MaxTransitions
Refs == 0 .. MaxTransitions           \* 0 is no transition
Optional == Digests \cup {None}

\* The order of phase_rank
Rank == [requested |-> 1, preflight |-> 2, backup_prepared |-> 3, grants_ready |-> 4,
         candidate_activated |-> 5, routing_closed |-> 6, calls_drained |-> 7,
         handles_revoked |-> 8, contributions_disposed |-> 9, host_disposed |-> 10,
         package_moved |-> 11, pointer_swapped |-> 12, durable_committed |-> 13,
         completed |-> 14]
Phases == DOMAIN Rank

Open == {"pending", "running", "completion_uncertain"}
Terminal == {"completed", "failed"}
Replacements == {"upgrade", "rollback"}
Boundaries == {"project_teardown", "shutdown"}
Kinds == {"enable", "retry", "disable", "uninstall"} \cup Replacements \cup Boundaries
Desired == {"disabled", "enabled", "uninstalled"}
Observed == {"discovered", "disabled", "resolving", "activating", "active", "quiescing",
             "disposing", "stopped", "crashed", "update_pending", "rollback_pending",
             "uninstalled", "blocked"}
Retention == {"none", "recoverable", "expired", "purge_pending"}

Rows == [known : BOOLEAN, accepted : Optional, pending : Optional, rollback : Optional,
         desired : Desired, observed : Observed, gen : Nat, host : Nat, tr : Refs]
Transitions == [kind : Kinds \cup {"none"}, phase : Phases, status : Open \cup Terminal \cup {"none"},
                old : Optional, cand : Optional, reconciled : BOOLEAN]
Tombstones == [digest : Optional, retention : Retention, deleted : BOOLEAN, restored : BOOLEAN]

NoRow == [known |-> FALSE, accepted |-> None, pending |-> None, rollback |-> None,
          desired |-> "disabled", observed |-> "discovered", gen |-> 0, host |-> 0, tr |-> 0]
NoTransition == [kind |-> "none", phase |-> "requested", status |-> "none",
                 old |-> None, cand |-> None, reconciled |-> FALSE]
NoTombstone == [digest |-> None, retention |-> "none", deleted |-> FALSE, restored |-> FALSE]

StoreInit ==
    /\ row = NoRow
    /\ trans = [i \in Ids |-> NoTransition]
    /\ tomb = [i \in Ids |-> NoTombstone]
    /\ crashes = 0

-----------------------------------------------------------------------------
(* Reading *)

IsOpen(i) == i # 0 /\ trans[i].status \in Open
OpenIds == {i \in Ids : trans[i].status \in Open}
Requested == {i \in Ids : trans[i].kind # "none"}
Or(new, old) == IF new = None THEN old ELSE new

\* list_recoverable and the retention filters
Kept(i) == tomb[i].digest # None /\ ~tomb[i].deleted /\ ~tomb[i].restored

DesiredFor(kind, desired) ==
    CASE kind \in Boundaries -> desired
      [] kind = "disable" -> "disabled"
      [] kind = "uninstall" -> "uninstalled"
      [] OTHER -> "enabled"

\* transition_requires_expected_digest
ExpectsDigest(kind) == kind \notin {"enable", "retry"}

-----------------------------------------------------------------------------
(* Operations.  An outcome other than Applied changes nothing: it is the negation of
   the guard. *)

\* upsert_discovered_workspace_plugin
Discover(d) ==
    /\ row' = IF ~row.known
              THEN [row EXCEPT !.known = TRUE, !.pending = d]
              ELSE IF row.pending = d \/ (row.accepted = d /\ row.pending = None)
              THEN row
              ELSE [row EXCEPT !.pending = IF row.accepted = d THEN None ELSE d,
                               !.observed = CASE row.accepted = None -> "discovered"
                                              [] row.accepted = d -> @
                                              [] OTHER -> "update_pending"]
    /\ UNCHANGED <<trans, tomb, crashes>>

\* validate_transition_draft, and neither Stale nor Conflict
Requestable(kind, old, cand) ==
    /\ row.known
    /\ kind \in {"enable", "retry"} => cand # None
    /\ kind \in Replacements => cand # None /\ old # None
    /\ old # None => old # cand
    /\ ExpectsDigest(kind) => row.accepted = old
    /\ OpenIds = {}

\* request_workspace_plugin_transition
Request(i, kind, old, cand) ==
    /\ i \in Ids /\ Requested = 1 .. (i - 1)
    /\ Requestable(kind, old, cand)
    /\ trans' = [trans EXCEPT ![i] = [NoTransition EXCEPT !.kind = kind, !.status = "pending",
                                                          !.old = old, !.cand = cand]]
    /\ row' = [row EXCEPT !.desired = DesiredFor(kind, @), !.tr = i, !.pending = Or(cand, @)]
    /\ UNCHANGED <<tomb, crashes>>

Advanceable(i, from, to) == IsOpen(i) /\ trans[i].phase = from /\ Rank[to] > Rank[from]

\* advance_workspace_plugin_transition; host 0 keeps the recorded session
Advance(i, from, to, status, observed, host) ==
    /\ Advanceable(i, from, to)
    /\ trans' = [trans EXCEPT ![i].phase = to, ![i].status = status]
    /\ row' = [row EXCEPT !.observed = observed, !.host = IF host = 0 THEN @ ELSE host]
    /\ UNCHANGED <<tomb, crashes>>

\* The terminal advance of an enable: the accepted pointer moves
Accept(i, d, host) ==
    /\ Advanceable(i, "pointer_swapped", "completed")
    /\ trans' = [trans EXCEPT ![i].phase = "completed", ![i].status = "completed"]
    /\ row' = [row EXCEPT !.observed = "active", !.accepted = d, !.pending = None, !.host = host]
    /\ UNCHANGED <<tomb, crashes>>

\* fail_enable_transition: a terminal transition is left alone
Fail(i, observed, reconciled) ==
    IF IsOpen(i)
    THEN /\ trans' = [trans EXCEPT ![i].phase = "completed", ![i].status = "failed",
                                   ![i].reconciled = reconciled]
         /\ row' = [row EXCEPT !.observed = observed]
         /\ UNCHANGED <<tomb, crashes>>
    ELSE UNCHANGED storeVars

\* allocate_workspace_plugin_generation, with the generation just read
Allocate(i) ==
    /\ IsOpen(i) /\ row.tr = i
    /\ row' = [row EXCEPT !.gen = @ + 1]
    /\ UNCHANGED <<trans, tomb, crashes>>

Replaceable(i) ==
    /\ trans[i].phase = "pointer_swapped" /\ IsOpen(i)
    /\ row.desired = "enabled" /\ row.tr = i
    /\ row.accepted = trans[i].old /\ row.pending = trans[i].cand

\* complete_workspace_plugin_replacement: candidate becomes accepted, old the rollback target
CompleteReplacement(i, host) ==
    /\ Replaceable(i)
    /\ trans' = [trans EXCEPT ![i].phase = "completed", ![i].status = "completed"]
    /\ row' = [row EXCEPT !.accepted = trans[i].cand, !.pending = None, !.rollback = trans[i].old,
                          !.observed = "active", !.host = host]
    /\ UNCHANGED <<tomb, crashes>>

UninstallReady(i) ==
    /\ trans[i].kind = "uninstall" /\ IsOpen(i) /\ trans[i].phase = "package_moved"
    /\ row.desired = "uninstalled" /\ row.tr = i /\ row.accepted = trans[i].old

\* complete_workspace_plugin_uninstall: tombstone, transition and row in one transaction
CompleteUninstall(i) ==
    /\ UninstallReady(i)
    /\ tomb' = [tomb EXCEPT ![i] = [NoTombstone EXCEPT !.digest = trans[i].old,
                                                       !.retention = "recoverable"]]
    /\ trans' = [trans EXCEPT ![i].phase = "completed", ![i].status = "completed"]
    /\ row' = [row EXCEPT !.observed = "uninstalled", !.pending = None, !.host = 0]
    /\ UNCHANGED crashes

Uninstalled == row.desired = "uninstalled" /\ row.observed = "uninstalled"

\* complete_workspace_plugin_restore
CompleteRestore(i) ==
    /\ Kept(i) /\ tomb[i].retention = "recoverable"
    /\ Uninstalled /\ row.accepted = tomb[i].digest
    /\ tomb' = [tomb EXCEPT ![i].restored = TRUE]
    /\ row' = [row EXCEPT !.desired = "disabled", !.observed = "disabled", !.tr = 0,
                          !.pending = None, !.host = 0]
    /\ UNCHANGED <<trans, crashes>>

\* expire_workspace_plugin_tombstones
Expire(i) ==
    /\ Kept(i) /\ tomb[i].retention = "recoverable"
    /\ tomb' = [tomb EXCEPT ![i].retention = "expired"]
    /\ UNCHANGED <<row, trans, crashes>>

\* request_workspace_plugin_purge; purge_pending is replayed unchanged
RequestPurge(i) ==
    /\ Kept(i) /\ tomb[i].retention \in {"expired", "purge_pending"}
    /\ tomb' = [tomb EXCEPT ![i].retention = "purge_pending"]
    /\ UNCHANGED <<row, trans, crashes>>

\* complete_workspace_plugin_purge
CompletePurge(i) ==
    /\ Kept(i) /\ tomb[i].retention = "purge_pending"
    /\ tomb' = [tomb EXCEPT ![i].retention = "expired", ![i].deleted = TRUE]
    /\ UNCHANGED <<row, trans, crashes>>

\* record_workspace_plugin_recovery_required: blocked, the transition stays open
RequireRecovery(i) ==
    /\ row.tr = i
    /\ row' = [row EXCEPT !.observed = "blocked"]
    /\ UNCHANGED <<trans, tomb, crashes>>

CrashLimit == 3

RecordCrash_AnyHost(d, host) ==
    /\ row.desired = "enabled" /\ row.accepted = d
    /\ crashes' = IF crashes < CrashLimit THEN crashes + 1 ELSE crashes
    /\ row' = [row EXCEPT !.observed = IF crashes + 1 >= CrashLimit THEN "blocked" ELSE "crashed"]
    /\ UNCHANGED <<trans, tomb>>

\* record_workspace_plugin_crash for an exact host
RecordCrash(d, host) ==
    /\ row.desired = "enabled" /\ row.accepted = d /\ row.host = host
    /\ crashes' = IF crashes < CrashLimit THEN crashes + 1 ELSE crashes
    /\ row' = [row EXCEPT !.observed = IF crashes + 1 >= CrashLimit THEN "blocked" ELSE "crashed"]
    /\ UNCHANGED <<trans, tomb>>

\* Ten minutes pass
Forget == crashes # 0 /\ crashes' = 0 /\ UNCHANGED <<row, trans, tomb>>

=============================================================================
