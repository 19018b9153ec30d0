--------------------------- MODULE StoreMigration ---------------------------
(***************************************************************************)
(* Store::open: the bootstrap of an empty database, the backup and the     *)
(* migration of an old one, and the assertions on the current schema       *)
(* (crates/rho-store/src/lib.rs, migration.rs).  Every desktop command     *)
(* that reads the store opens it again (read_store), so several openers    *)
(* meet the same file.                                                     *)
(*                                                                         *)
(* A database is its schema version, the groups of tables, columns and     *)
(* indexes it has, the project identity of each row and the Conversation   *)
(* each Agent turn is mapped to.  SQL statements run in one transaction    *)
(* are one step; the bootstrap runs outside any transaction.               *)
(***************************************************************************)
EXTENDS Naturals, FiniteSets

CONSTANTS
    Openers,      \* threads or processes that call Store::open
    StoreRows,         \* pairs <<table, n>>: the rows of a database that is not empty
    MigProjects,     \* project identities an old row may carry
    Versions,     \* the schema versions the file may start with
    MaxMigFaults     \* bound: crashes and I/O errors

Tables == {"runs", "agent_turns", "approval_requests", "plot_artifacts"}

ASSUME StoreRowsAssumption == \A r \in StoreRows : r[1] \in Tables
ASSUME VersionsAssumption == Versions \subseteq Nat

VARIABLES
    db,        \* the database file
    backup,    \* version -> the file <name>.schema-v<version>.bak
    mpc,        \* opener -> the step of Store::open it is at
    seen,      \* opener -> the schema version it read
    snap,      \* opener -> the database its transaction read
    migFaults,
    origin     \* the database before the first open

migvars == <<db, backup, mpc, seen, snap, migFaults, origin>>

SCHEMA_VERSION == 14
NoVersion == 0
Absent == "absent"        \* a row that does not exist, a file that does not exist
LegacyUnscoped == "legacy_unscoped"
MigTurns == {r \in StoreRows : r[1] = "agent_turns"}
Idents == MigProjects \cup {"null", "blank"}
BackedUp == 7 .. 13

(***************************************************************************)
(* Schema parts                                                            *)
(***************************************************************************)

\* v8_schema_sql without what create_claim_review_schema also creates: base
\* tables, the identity columns and indexes, error ranges, Conversations.
BaseParts == {"base", "identity", "ranges", "conversations"}

\* The two tables of structural claims and their indexes.
ClaimParts == {"claims"}

\* plugin_permission_requests, _grants and _events with their indexes.
PermissionParts == {"permissions"}

\* workspace_plugin_states, _transitions, _lifecycle_events and _tombstones.
LifecycleParts == {"lifecycle"}

CurrentParts == BaseParts \cup ClaimParts \cup PermissionParts \cup LifecycleParts

\* What a store of an older version has; version 10 has the error range
\* columns with the narrow constraint.
PartsOf(v) ==
    IF v < 7 THEN {"base"}
    ELSE {"base"} \cup {p \in CurrentParts \cup {"ranges10"} :
                          \/ p = "identity" /\ v >= 8
                          \/ p = "claims" /\ v >= 9
                          \/ p = "ranges10" /\ v = 10
                          \/ p = "ranges" /\ v >= 11
                          \/ p = "conversations" /\ v >= 12
                          \/ p = "permissions" /\ v >= 13
                          \/ p = "lifecycle" /\ v >= 14}

EmptyDb == [ver |-> NoVersion, parts |-> {}, project |-> [r \in StoreRows |-> Absent],
          conv |-> [t \in MigTurns |-> Absent], kinds |-> TRUE]

(***************************************************************************)
(* Reading the file                                                        *)
(***************************************************************************)

database_is_empty(d) == d.parts = {}

\* None when there is no metadata table, no row, or no number in it.
read_schema_version(d) == d.ver

\* assert_not_null_project_identity on every project-owned table.
IdentityAsserted(d) == "identity" \in d.parts

\* assert_index_exists, assert_column_exists and the range constraint.
RangesAsserted(d) == "ranges" \in d.parts

\* assert_agent_conversation_schema: one mapping per turn, in its project.
ConversationsAsserted(d) ==
    /\ "conversations" \in d.parts
    /\ \A t \in MigTurns : d.conv[t] = d.project[t]

\* assert_plugin_permission_schema on a store without plugin rows.
PermissionsAsserted(d) == PermissionParts \subseteq d.parts

\* assert_plugin_lifecycle_schema on a store without plugin rows.
LifecycleAsserted(d) == LifecycleParts \subseteq d.parts

assert_current_schema(d) ==
    /\ IdentityAsserted(d)
    /\ ClaimParts \subseteq d.parts
    /\ RangesAsserted(d)
    /\ ConversationsAsserted(d)
    /\ PermissionsAsserted(d)
    /\ LifecycleAsserted(d)

(***************************************************************************)
(* The statements of the migrations                                        *)
(***************************************************************************)

\* A migration that gives a row without an owner to some project.
Coalesced_Guessed(d, table) ==
    [r \in StoreRows |-> IF r[1] = table /\ d.project[r] = "null"
                    THEN CHOOSE p \in MigProjects : TRUE ELSE d.project[r]]

\* COALESCE(project_root, 'legacy_unscoped') as a table is copied.
Coalesced(d, table) ==
    [r \in StoreRows |-> IF r[1] = table /\ d.project[r] = "null"
                    THEN LegacyUnscoped ELSE d.project[r]]

rebuild_runs_v8(d) ==
    [d EXCEPT !.project = Coalesced(d, "runs"), !.parts = @ \cup {"ranges"}]

rebuild_agent_turns_v8(d) == [d EXCEPT !.project = Coalesced(d, "agent_turns")]

rebuild_approval_requests_v8(d) == [d EXCEPT !.project = Coalesced(d, "approval_requests")]

\* The last of the four tables: from here every identity is NOT NULL.
rebuild_plot_artifacts_v8(d) ==
    [d EXCEPT !.project = Coalesced(d, "plot_artifacts"), !.parts = @ \cup {"identity"}]

\* runs is copied into a table with the wide constraint.
rebuild_runs_error_range_kind_v11(d) ==
    [d EXCEPT !.parts = (@ \ {"ranges10"}) \cup {"ranges"}]

add_run_error_range_columns(d) == [d EXCEPT !.parts = @ \cup {"ranges"}]

create_claim_review_schema(d) == [d EXCEPT !.parts = @ \cup ClaimParts]

\* Every turn of a project is mapped to that project's legacy Conversation.
create_agent_conversation_schema(d) ==
    [d EXCEPT !.parts = @ \cup {"conversations"}, !.conv = [t \in MigTurns |-> d.project[t]]]

create_plugin_schemas(d) == [d EXCEPT !.parts = @ \cup PermissionParts \cup LifecycleParts]

\* Version 7 and versions 8 and 9, up to the statement that sets the version.
migrate_v7(d) ==
    create_plugin_schemas(create_agent_conversation_schema(create_claim_review_schema(
        rebuild_plot_artifacts_v8(rebuild_approval_requests_v8(
            rebuild_agent_turns_v8(rebuild_runs_v8(d)))))))

migrate_v8(d) ==
    create_plugin_schemas(create_agent_conversation_schema(
        add_run_error_range_columns(create_claim_review_schema(d))))

migrate_v9(d) ==
    create_plugin_schemas(create_agent_conversation_schema(add_run_error_range_columns(d)))

migrate_v10(d) ==
    create_plugin_schemas(create_agent_conversation_schema(
        rebuild_runs_error_range_kind_v11(d)))

migrate_v11(d) == create_plugin_schemas(create_agent_conversation_schema(d))

migrate_v12(d) == create_plugin_schemas(d)

migrate_v13(d) == [d EXCEPT !.parts = @ \cup LifecycleParts]

Migrated(v, d) ==
    [CASE v = 7 -> migrate_v7(d)
       [] v = 8 -> migrate_v8(d)
       [] v = 9 -> migrate_v9(d)
       [] v = 10 -> migrate_v10(d)
       [] v = 11 -> migrate_v11(d)
       [] v = 12 -> migrate_v12(d)
       [] v = 13 -> migrate_v13(d)
     EXCEPT !.ver = SCHEMA_VERSION]

\* CREATE TABLE and ADD COLUMN without IF NOT EXISTS fail on what is there.
Strict(v) ==
    CASE v = 7 -> {"claims", "conversations"}
      [] v = 8 -> {"claims", "ranges", "ranges10", "conversations"}
      [] v = 9 -> {"ranges", "ranges10", "conversations"}
      [] v \in {10, 11} -> {"conversations"}
      [] OTHER -> {}

StatementsRun(v, d) == Strict(v) \cap d.parts = {}

\* The counts a migration refuses before it changes anything.
v7_record_counts(d) == Cardinality({r \in StoreRows : d.project[r] = "blank"})

Refused(v, d) ==
    \/ v = 7 /\ v7_record_counts(d) > 0
    \/ v = 10 /\ ~d.kinds
    \/ v = 11 /\ \E t \in MigTurns : d.project[t] \in {"null", "blank"}

\* Migrations that look at the rows before their first write hold a snapshot.
ReadsFirst(v) == v \in {7, 10, 11}

(***************************************************************************)
(* Store::open, step by step                                               *)
(***************************************************************************)

\* A database of a version has identities from version 8 on and mapped turns
\* from version 12 on; an empty file has no rows.
Databases ==
    {EmptyDb} \cup
    UNION {{[ver |-> v, parts |-> PartsOf(v), project |-> p, kinds |-> k,
             conv |-> IF v >= 12 THEN [t \in MigTurns |-> p[t]] ELSE [t \in MigTurns |-> Absent]] :
                p \in [StoreRows -> IF v = 7 THEN Idents ELSE Idents \ {"null"}],
                k \in (IF v = 10 THEN BOOLEAN ELSE {TRUE})} : v \in Versions}

MigInit ==
    /\ db \in Databases
    /\ origin = db
    /\ backup = [v \in BackedUp |-> EmptyDb]
    /\ mpc = [o \in Openers |-> "idle"]
    /\ seen = [o \in Openers |-> NoVersion]
    /\ snap = [o \in Openers |-> EmptyDb]
    /\ migFaults = 0

OpenerAt(o, step) == mpc' = [mpc EXCEPT ![o] = step]

\* database_is_empty, then the version: the first branch of migrate.
Probe(o) ==
    /\ mpc[o] = "idle"
    /\ seen' = [seen EXCEPT ![o] = read_schema_version(db)]
    /\ OpenerAt(o, IF database_is_empty(db) THEN "tables"
               ELSE IF db.ver = SCHEMA_VERSION THEN "assert"
               ELSE IF db.ver \in BackedUp THEN "remove" ELSE "failed")
    /\ UNCHANGED <<db, backup, snap, migFaults, origin>>

\* execute_batch(v8_schema_sql()): CREATE TABLE fails when another opener was
\* first.
CreateTables(o) ==
    /\ mpc[o] = "tables"
    /\ IF database_is_empty(db)
       THEN /\ db' = [db EXCEPT !.parts = BaseParts \cup ClaimParts]
            /\ OpenerAt(o, "plugins")
       ELSE OpenerAt(o, "failed") /\ UNCHANGED db
    /\ UNCHANGED <<backup, seen, snap, migFaults, origin>>

CreatePlugins(o) ==
    /\ mpc[o] = "plugins"
    /\ db' = create_plugin_schemas(db)
    /\ OpenerAt(o, "version")
    /\ UNCHANGED <<backup, seen, snap, migFaults, origin>>

set_schema_version(o) ==
    /\ mpc[o] = "version"
    /\ db' = [db EXCEPT !.ver = SCHEMA_VERSION]
    /\ OpenerAt(o, "assert")
    /\ UNCHANGED <<backup, seen, snap, migFaults, origin>>

\* create_pre_migration_backup: an old backup is removed, VACUUM INTO writes
\* whatever the database holds now.
RemoveBackup(o) ==
    /\ mpc[o] = "remove"
    /\ backup' = [backup EXCEPT ![seen[o]] = EmptyDb]
    /\ OpenerAt(o, "vacuum")
    /\ UNCHANGED <<db, seen, snap, migFaults, origin>>

\* VACUUM INTO fails when the other opener's backup exists by now.
VacuumInto(o) ==
    /\ mpc[o] = "vacuum"
    /\ IF database_is_empty(backup[seen[o]])
       THEN /\ backup' = [backup EXCEPT ![seen[o]] = db]
            /\ OpenerAt(o, "begin")
       ELSE OpenerAt(o, "failed") /\ UNCHANGED backup
    /\ UNCHANGED <<db, seen, snap, migFaults, origin>>

\* The transaction's first reads; a refusal drops the transaction.
BeginMigration(o) ==
    /\ mpc[o] = "begin" /\ ReadsFirst(seen[o])
    /\ snap' = [snap EXCEPT ![o] = db]
    /\ OpenerAt(o, IF Refused(seen[o], db) THEN "failed" ELSE "write")
    /\ UNCHANGED <<db, backup, seen, migFaults, origin>>

\* The statements and the commit: a transaction that read first fails when the
\* database changed under its snapshot, any other sees the latest database.
Migrate(o) ==
    /\ \/ mpc[o] = "begin" /\ ~ReadsFirst(seen[o])
       \/ mpc[o] = "write"
    /\ IF /\ StatementsRun(seen[o], db)
          /\ mpc[o] = "write" => snap[o] = db
       THEN db' = Migrated(seen[o], db) /\ OpenerAt(o, "assert")
       ELSE OpenerAt(o, "failed") /\ UNCHANGED db
    /\ UNCHANGED <<backup, seen, snap, migFaults, origin>>

AssertCurrent(o) ==
    /\ mpc[o] = "assert"
    /\ OpenerAt(o, IF assert_current_schema(db) THEN "open" ELSE "failed")
    /\ UNCHANGED <<db, backup, seen, snap, migFaults, origin>>

\* An I/O error or the death of the process: the transaction is rolled back,
\* what the bootstrap created stays, a backup may be half written.
MigFault(o) ==
    /\ mpc[o] \notin {"idle", "open", "failed"}
    /\ migFaults < MaxMigFaults
    /\ migFaults' = migFaults + 1
    /\ OpenerAt(o, "failed")
    /\ UNCHANGED <<db, backup, seen, snap, origin>>

\* The command is called again, or the store is dropped and opened again.
Reopen(o) ==
    /\ mpc[o] \in {"open", "failed"}
    /\ OpenerAt(o, "idle")
    /\ seen' = [seen EXCEPT ![o] = NoVersion]
    /\ snap' = [snap EXCEPT ![o] = EmptyDb]
    /\ UNCHANGED <<db, backup, migFaults, origin>>

MigNext ==
    \E o \in Openers :
        \/ Probe(o)
        \/ CreateTables(o)
        \/ CreatePlugins(o)
        \/ set_schema_version(o)
        \/ RemoveBackup(o)
        \/ VacuumInto(o)
        \/ BeginMigration(o)
        \/ Migrate(o)
        \/ AssertCurrent(o)
        \/ MigFault(o)
        \/ Reopen(o)

MigSpec == MigInit /\ [][MigNext]_migvars

(***************************************************************************)
(* Properties                                                              *)
(***************************************************************************)

\* The identity a row of the first database must have after the migration.
Owner(r) == IF origin.project[r] = "null" THEN LegacyUnscoped ELSE origin.project[r]

\* A database that was not empty is, at every moment and whatever dies, the one
\* the user had or that one completely migrated: all parts, the current
\* version, each row under its own project and none guessed, each turn mapped
\* to a Conversation of its project.
MigrationIsWhole ==
    ~database_is_empty(origin) =>
        \/ db = origin
        \/ /\ db.ver = SCHEMA_VERSION
           /\ CurrentParts \subseteq db.parts
           /\ \A r \in StoreRows : db.project[r] = Owner(r)
           /\ \A t \in MigTurns : db.conv[t] = Owner(t)
=============================================================================
