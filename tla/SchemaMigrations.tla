--------------------------- MODULE SchemaMigrations ---------------------------
(***************************************************************************)
(* The schema of the database: its creation and check when a process starts      *)
(* (services/schema_version.py) and its upgrade from the page                     *)
(* (services/migrations.py).                                                       *)
(*                                                                          *)
(* The structure is a set of parts: items, the other tables of the catalogue,      *)
(* item_sources, its tracking columns with their index, the media index, the task  *)
(* tables, the provider runtime and schema_migrations; a table is there with its   *)
(* columns and constraints or missing.  An upgrade runs under BEGIN IMMEDIATE;     *)
(* the tables of a new database are created before the driver begins a              *)
(* transaction, so each of them is durable at once.                                 *)
(***************************************************************************)
EXTENDS Naturals, FiniteSets, FiniteSetsExt

CONSTANTS
    Starter,        \* processes that start on this database
    MaxUpgrades     \* bound: upgrades confirmed

ASSUME MigrationAssumption == MaxUpgrades \in Nat

CURRENT_SCHEMA_VERSION == 6
Parts == {"items", "catalogue", "sources", "tracking", "index", "tasks", "runtime", "versions"}

\* What the step from version v adds and what it must find: the first looks for
\* items only, the second for every table of before it.
AddedBy == <<"sources", "index", "tracking", "tasks", "runtime">>
NeededBy == <<{"items"}, {"items", "catalogue", "sources", "versions"}, {"sources"},
              {"sources", "tracking"}, {"tasks"}>>

Structure(v) == {"items", "catalogue", "versions"} \cup {AddedBy[w] : w \in 1..(v - 1)}
WholeSchema == Structure(CURRENT_SCHEMA_VERSION)

VARIABLES
    schema,     \* parts in the database
    recorded,   \* versions in schema_migrations
    boot,       \* what each process is doing, and the tables it found missing
    upgrade,    \* the running upgrade: the transaction's parts and versions
    toldUpgrade, \* what the page says of the last upgrade
    upgrades,   \* how many were confirmed
    damaged     \* history: a part was dropped by someone

schemaVars == <<schema, recorded, boot, upgrade, toldUpgrade, upgrades, damaged>>

NoUpgrade == [pc |-> "idle"]
Boot(pc) == [pc |-> pc, todo |-> {}]
Newest(versions) == IF versions = {} THEN 0 ELSE Max(versions)

----------------------------------------------------------------------------
(* initialize_database                                                      *)

\* get_schema_status
StatusOf(parts, versions) ==
    IF "versions" \notin parts \/ versions = {} THEN "unknown"
    ELSE CASE Newest(versions) = CURRENT_SCHEMA_VERSION -> "current"
           [] Newest(versions) < CURRENT_SCHEMA_VERSION -> "upgrade_required"
           [] OTHER -> "application_outdated"

\* _structure_problems: every business table and column, the identity index.
StructureSound(parts) == WholeSchema \ {"versions"} \subseteq parts

\* A database with tables is judged; one without them is filled, and so is one
\* that is whole and only lacks schema_migrations.
Judged ==
    CASE StatusOf(schema, recorded) = "upgrade_required" -> "restricted"
      [] StatusOf(schema, recorded) = "current" /\ StructureSound(schema) -> "running"
      [] OTHER -> "refused"

\* create_all adds tables, never a column to a table that is there.
Creatable == Parts \ (schema \cup IF "sources" \in schema THEN {"tracking"} ELSE {})

MayFill == schema = {} \/ ("versions" \notin schema /\ StructureSound(schema))

StartProcess(p) ==
    /\ boot[p].pc = "down"
    /\ boot' = [boot EXCEPT ![p] = IF MayFill THEN [pc |-> "create", todo |-> Creatable]
                                   ELSE Boot(Judged)]
    /\ UNCHANGED <<schema, recorded, upgrade, toldUpgrade, upgrades, damaged>>

\* Base.metadata.create_all decides what is missing once and then creates it: a
\* table that another process made meanwhile, or a locked database, ends it.
CreateTable(p) ==
    /\ boot[p].pc = "create" /\ boot[p].todo # {}
    /\ \E part \in boot[p].todo :
          IF part \in schema \/ upgrade.pc # "idle"
          THEN /\ boot' = [boot EXCEPT ![p] = Boot("refused")]
               /\ UNCHANGED schema
          ELSE /\ schema' = schema \cup {part}
               /\ boot' = [boot EXCEPT ![p].todo = @ \ {part}]
    /\ UNCHANGED <<recorded, upgrade, toldUpgrade, upgrades, damaged>>

\* The baseline row is unique.  The status is read again after the commit.
RegisterBaseline(p) ==
    /\ boot[p].pc = "create" /\ boot[p].todo = {}
    /\ \/ /\ CURRENT_SCHEMA_VERSION \notin recorded /\ upgrade.pc = "idle" /\ "versions" \in schema
          /\ recorded' = recorded \cup {CURRENT_SCHEMA_VERSION}
          /\ boot' = [boot EXCEPT ![p] = Boot("running")]
       \/ /\ boot' = [boot EXCEPT ![p] = Boot("refused")]
          /\ UNCHANGED recorded
    /\ UNCHANGED <<schema, upgrade, toldUpgrade, upgrades, damaged>>

\* A process that refused ends; any may stop.
StopProcess(p) ==
    /\ boot[p].pc # "down"
    /\ boot' = [boot EXCEPT ![p] = Boot("down")]
    /\ UNCHANGED <<schema, recorded, upgrade, toldUpgrade, upgrades, damaged>>

----------------------------------------------------------------------------
(* build_upgrade_plan, preview_upgrade, apply_upgrade                        *)

\* MigrationRegistry.resolve: the continuous chain from a version to the current one.
Resolvable(version) == version \in 1..(CURRENT_SCHEMA_VERSION - 1)

PrecheckMutant(v, parts, versions) ==
    NeededBy[v] \subseteq parts /\ AddedBy[v] \notin parts /\ Newest(versions) <= 3
Precheck(v, parts, versions) ==
    /\ NeededBy[v] \subseteq parts
    /\ AddedBy[v] \notin parts
    /\ v >= 3 => Newest(versions) = v

\* The steps from 4 on check their version record as well.
Postcheck(v, parts, versions) ==
    /\ AddedBy[v] \in parts
    /\ v >= 3 => Newest(versions) = v + 1

\* A dry run checks the first step; the checks of the others are deferred.
CanUpgrade ==
    /\ StatusOf(schema, recorded) = "upgrade_required"
    /\ Resolvable(Newest(recorded))
    /\ Precheck(Newest(recorded), schema, recorded)

ConfirmUpgrade ==
    /\ \E p \in Starter : boot[p].pc \in {"running", "restricted"}
    /\ upgrade.pc = "idle" /\ upgrades < MaxUpgrades
    /\ upgrades' = upgrades + 1
    /\ IF StatusOf(schema, recorded) = "upgrade_required" /\ Resolvable(Newest(recorded))
       THEN /\ upgrade' = [pc |-> "step", parts |-> schema, versions |-> recorded]
            /\ toldUpgrade' = "none"
       ELSE /\ toldUpgrade' = "refused"
            /\ UNCHANGED upgrade
    /\ UNCHANGED <<schema, recorded, boot, damaged>>

Cursor == Newest(upgrade.versions)
EndUpgrade(told) == upgrade' = NoUpgrade /\ toldUpgrade' = told

\* One step of the chain: precheck, apply, version record, postcheck.
MigrateStep ==
    LET parts == upgrade.parts \cup {AddedBy[Cursor]}
        versions == upgrade.versions \cup {Cursor + 1}
    IN  /\ upgrade.pc = "step" /\ Cursor < CURRENT_SCHEMA_VERSION
        /\ IF /\ Precheck(Cursor, upgrade.parts, upgrade.versions)
              /\ Postcheck(Cursor, parts, versions)
           THEN \/ /\ upgrade' = [upgrade EXCEPT !.parts = parts, !.versions = versions]
                   /\ UNCHANGED toldUpgrade
                \/ EndUpgrade("apply_failed")
           ELSE EndUpgrade("refused")
        /\ UNCHANGED <<schema, recorded, boot, upgrades, damaged>>

\* The commit takes effect or not, and may raise in both cases.
CommittedMutant(versions) == versions \ {Newest(versions) - 1}
Committed(versions) == versions

CommitUpgrade ==
    /\ upgrade.pc = "step" /\ Cursor = CURRENT_SCHEMA_VERSION
    /\ \/ /\ schema' = upgrade.parts
          /\ recorded' = Committed(upgrade.versions)
          /\ \E told \in {"applied", "apply_failed"} : EndUpgrade(told)
       \/ EndUpgrade("apply_failed") /\ UNCHANGED <<schema, recorded>>
    /\ UNCHANGED <<boot, upgrades, damaged>>

CrashUpgrade ==
    /\ upgrade.pc = "step"
    /\ EndUpgrade("none")
    /\ boot' = [p \in Starter |-> Boot("down")]
    /\ UNCHANGED <<schema, recorded, upgrades, damaged>>

\* Someone drops a part of the schema by hand; the columns go with their table.
DropPart(part) ==
    /\ ~damaged /\ upgrade.pc = "idle" /\ part \in schema
    /\ schema' = schema \ (IF part = "sources" THEN {part, "tracking"} ELSE {part})
    /\ recorded' = IF part = "versions" THEN {} ELSE recorded
    /\ damaged' = TRUE
    /\ UNCHANGED <<boot, upgrade, toldUpgrade, upgrades>>

\* A new database, one of any version, one from before schema_migrations, one
\* of a later application.
SchemaInit ==
    /\ \/ schema = {} /\ recorded = {}
       \/ \E v \in 1..CURRENT_SCHEMA_VERSION :
             schema = Structure(v) /\ \E w \in 1..v : recorded = w..v
       \/ \E v \in 1..CURRENT_SCHEMA_VERSION : schema = Structure(v) \ {"versions"} /\ recorded = {}
       \/ schema = WholeSchema /\ recorded = {CURRENT_SCHEMA_VERSION + 1}
    /\ boot = [p \in Starter |-> Boot("down")]
    /\ upgrade = NoUpgrade
    /\ toldUpgrade = "none"
    /\ upgrades = 0
    /\ damaged = FALSE

SchemaNext ==
    \/ \E p \in Starter : StartProcess(p) \/ CreateTable(p) \/ RegisterBaseline(p) \/ StopProcess(p)
    \/ ConfirmUpgrade \/ MigrateStep \/ CommitUpgrade \/ CrashUpgrade
    \/ \E part \in Parts : DropPart(part)

SchemaSpec == SchemaInit /\ [][SchemaNext]_schemaVars

----------------------------------------------------------------------------
(* Properties                                                               *)

SchemaTypeOK ==
    /\ schema \subseteq Parts
    /\ recorded \subseteq 1..CURRENT_SCHEMA_VERSION \/ recorded = {CURRENT_SCHEMA_VERSION + 1}
    /\ recorded # {} => "versions" \in schema
    /\ \A p \in Starter : boot[p].pc \in {"down", "create", "running", "restricted", "refused"}

\* The recorded version is the structure that is there, no more and no less,
\* whatever step of an upgrade failed and whenever a process crashed
\* (apply_upgrade in one transaction; README: any exception rolls back the chain).
RecordedIsBuilt ==
    ~damaged /\ recorded # {} /\ Newest(recorded) <= CURRENT_SCHEMA_VERSION
        => schema = Structure(Newest(recorded))

\* No version between the first recorded one and the newest is ever missing: a
\* chain is recorded step by step and never partly (schema_migrations).
RecordedChain == \A v \in recorded : \A w \in v..Newest(recorded) : w \in recorded

\* The recorded versions and the tables agree, as a chain without a gap, after any
\* failed step, raising commit or crash.
RecordTruthful == RecordedIsBuilt /\ RecordedChain

\* What the dry run calls upgradable the upgrade never refuses at the step the dry
\* run checked, and at a later one, whose check the dry run defers, only when the
\* database was damaged by hand: each step leaves what the next one asks for
\* (preview_upgrade; a schema 1 without one of its tables passes the first check
\* and is refused at the second step).
PreviewKeepsWord ==
    CanUpgrade /\ upgrade.pc = "step" /\ toldUpgrade' = "refused"
        => damaged /\ Cursor > Newest(recorded)

\* What the page says of an upgrade: applied means the whole chain is durable, and
\* a refusal means nothing of it is; only a raising commit leaves it open.
UpgradeTold ==
    /\ toldUpgrade' = "applied" /\ toldUpgrade # "applied" =>
          /\ Newest(recorded') = CURRENT_SCHEMA_VERSION
          /\ {AddedBy[v] : v \in Newest(recorded)..(CURRENT_SCHEMA_VERSION - 1)} \subseteq schema'
    /\ toldUpgrade' = "refused" /\ toldUpgrade # "refused" => UNCHANGED <<schema, recorded>>

\* A process runs normally only on the whole current schema: no start is let
\* through by the version record alone, and one that filled the database is let
\* through unless the database is damaged meanwhile (initialize_database).
RunsOnWholeSchema ==
    \A p \in Starter :
        /\ boot'[p].pc = "running" /\ boot[p].pc # "running"
        /\ damaged => boot[p].pc = "down"
        => WholeSchema = schema' /\ CURRENT_SCHEMA_VERSION \in recorded'

\* What is said of a database holds: by the dry run of the upgrade, by the upgrade
\* of its result, and by a normal start of the schema it found.
UpgradesTruthful == [][PreviewKeepsWord /\ UpgradeTold /\ RunsOnWholeSchema]_schemaVars
=============================================================================
