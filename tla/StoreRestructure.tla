-------------------------- MODULE StoreRestructure --------------------------
(***************************************************************************)
(* The upgrade of an old metric database (pkg/metric/restructure.go) and    *)
(* the guide that an administrator runs it from (web/migration).  The old   *)
(* tables hold points and rollups; the new schema holds rollups only.  The  *)
(* upgrade fills a second set of tables (prefix rebuild_), then switches:   *)
(* in one transaction on SQLite and PostgreSQL, and on MySQL, whose DDL     *)
(* takes part in no transaction, by one atomic rename that keeps the old    *)
(* tables as backups.  Any step may fail and the process may stop between   *)
(* any two; the administrator then starts again, or discards the history.   *)
(*                                                                         *)
(* A row of history is an id; that a copied point lives on in the rollups   *)
(* is the subject of MetricRollup.  Two kinds of rows do not outlive an     *)
(* upgrade by design: those past their metric's retention, which its        *)
(* compaction deletes, and the points beside tables whose columns are       *)
(* already the new ones, which count as obsolete and are dropped unread.    *)
(***************************************************************************)
EXTENDS Integers, FiniteSets

CONSTANTS
  Points,     \* rows of metric_points
  Rollups,    \* rows of metric_rollups
  Orphans,    \* rows whose metric has no definition: not copied
  Recent,     \* points of the minute in progress: they wait in memory
  Expired,    \* rows that no tier of their metric keeps any longer
  Unrolled,   \* points that an earlier version's new rollups do not hold
  Metrics,    \* definitions
  Drivers,    \* "mysql" and "transactional" (SQLite, PostgreSQL)
  BatchSize,  \* rows read at a time
  MaxFailures \* bound: failed steps and crashes

Rows == Points \cup Rollups

ASSUME RestructureAssumption ==
  /\ Points \cap Rollups = {} /\ Orphans \subseteq Rows /\ Recent \subseteq Points
  /\ Expired \subseteq Rows /\ Unrolled \subseteq Points
  /\ Drivers \subseteq {"mysql", "transactional"}
  /\ BatchSize \in Nat \ {0} /\ MaxFailures \in Nat

-----------------------------------------------------------------------------
(* The schema. *)

\* What inspectSchema tells apart: the layout of each table, "none" when it
\* is missing and "other" when its columns are unknown; dict stands for the
\* series, label and resolution tables together.
Layouts == [defs : {"none", "legacy", "normalized", "other"}, dict : BOOLEAN,
            rollups : {"none", "legacy", "normalized", "other"}, keys : BOOLEAN,
            points : {"none", "legacy", "other"}, watermarks : BOOLEAN]

NewLayout == [defs |-> "normalized", dict |-> TRUE, rollups |-> "normalized", keys |-> TRUE,
              points |-> "none", watermarks |-> FALSE]
OldLayout == [defs |-> "legacy", dict |-> FALSE, rollups |-> "legacy", keys |-> FALSE,
              points |-> "legacy", watermarks |-> TRUE]

ColumnsComplete(l) == l.defs = "normalized" /\ l.dict /\ l.rollups = "normalized"
Complete(l) == ColumnsComplete(l) /\ l.keys

HasAnyTable(l, b) ==
  l.defs # "none" \/ l.dict \/ l.rollups # "none" \/ l.points # "none" \/ l.watermarks \/ b # {}

\* Faulty variant: backup tables are not looked for.
NeedsIgnoringBackups(l, b) ==
  IF Complete(l) THEN l.points # "none" \/ l.watermarks ELSE HasAnyTable(l, b)

NeedsRestructure(l, b) ==
  IF Complete(l) THEN l.points # "none" \/ l.watermarks \/ b # {} ELSE HasAnyTable(l, b)

\* Restructure stops before it changes anything.
Refuses(l) ==
  /\ ~ColumnsComplete(l)
  /\ l.defs \in {"none", "other"} \/ l.points = "other" \/ l.rollups \in {"normalized", "other"}

\* An upgrade may find any mixture of shapes, since a migration of several
\* tables may have failed half-way; foreign keys are looked for only among
\* tables with all the new columns.
Found == {l \in Layouts : l.keys => ColumnsComplete(l)}

\* The rows that a layout holds.  Rows of the new rollups have a definition:
\* validateNormalizedRestructure refuses a database where one has not.
PointRows(l)  == IF l.points = "none" THEN {} ELSE Points
RollupRows(l) == CASE l.rollups = "none" -> {}
                   [] l.rollups = "normalized" -> (Rows \ Unrolled) \ Orphans
                   [] OTHER -> Rollups

\* The rows an upgrade sets out to keep.
Wanted(l) ==
  (RollupRows(l) \cup (IF ColumnsComplete(l) THEN {} ELSE PointRows(l))) \ (Orphans \cup Expired)

-----------------------------------------------------------------------------
VARIABLES
  driver,   \* the database
  live,     \* the layout of the tables in use
  points,   \* rows of the points table in use
  rollups,  \* rows of the rollups table in use
  metrics,  \* definitions in use
  backups,  \* MySQL's _legacy tables
  shadow,   \* the rebuild_ tables: rollup rows, definitions
  memory,   \* rows that the store of the rebuild_ tables holds in memory
  unread,   \* rows the copy has not read yet
  server,   \* "booting", "guide" or "serving"
  status,   \* the guide's status.State
  step,     \* where the operation in progress is
  kind,     \* "structure" or "discard"
  failures, \* bound: failed steps and crashes
  history,  \* history: the rows an upgrade sets out to keep
  discarded \* history: the administrator's discard took effect

tables == <<live, points, rollups, metrics>>
copying == <<shadow, memory, unread>>
guide == <<server, status, kind>>
vars == <<driver, tables, backups, copying, guide, step, failures, history, discarded>>

NoShadow == [rollups |-> {}, metrics |-> {}]
Active == {"copying", "discarding", "reclaiming"}

Init ==
  /\ driver \in Drivers
  /\ live \in Found
  /\ points = PointRows(live) /\ rollups = RollupRows(live)
  /\ metrics = Metrics /\ backups = {}
  /\ shadow = NoShadow /\ memory = {} /\ unread = {}
  /\ server = "booting" /\ status = "idle" /\ kind = "structure" /\ step = "none"
  /\ failures = 0
  /\ history = Wanted(live)
  /\ discarded = FALSE

-----------------------------------------------------------------------------
(* The guide. *)

\* DatabaseMigrationRequired decides what is served.
Boot ==
  /\ server = "booting"
  /\ server' = IF NeedsRestructure(live, backups) THEN "guide" ELSE "serving"
  /\ status' = "idle"
  /\ UNCHANGED <<driver, tables, backups, copying, kind, step, failures, history, discarded>>

\* start and discard: not while an operation runs, nor after one is done.
Start(k) ==
  /\ server = "guide"
  /\ status \notin Active \cup {"completed"}
  /\ status' = IF k = "discard" THEN "discarding" ELSE "copying"
  /\ kind' = k /\ step' = "inspect"
  /\ UNCHANGED <<driver, tables, backups, copying, server, failures, history, discarded>>

\* An operation returns an error; what it wrote so far stays.
Fail ==
  /\ step # "none" /\ failures < MaxFailures
  /\ failures' = failures + 1
  /\ step' = "none" /\ status' = "failed" /\ memory' = {}
  /\ UNCHANGED <<driver, tables, backups, shadow, unread, server, kind, history, discarded>>

Crash ==
  /\ server = "guide" /\ failures < MaxFailures
  /\ failures' = failures + 1
  /\ server' = "booting"
  /\ step' = "none" /\ memory' = {}
  /\ UNCHANGED <<driver, tables, backups, shadow, unread, status, kind, history, discarded>>

\* completeLater: the guide ends and the start is repeated.
CompleteLater ==
  /\ server = "guide" /\ status = "completed"
  /\ server' = "booting"
  /\ UNCHANGED <<driver, tables, backups, copying, status, kind, step, failures, history, discarded>>

-----------------------------------------------------------------------------
(* An operation: Restructure or DiscardHistory, then ReclaimSpace. *)

Goto(s) == step' = s

Inspect ==
  /\ step = "inspect"
  /\ CASE ~HasAnyTable(live, backups) -> Goto("reclaim")
       [] Complete(live) /\ kind = "discard" -> Goto("clear")
       [] Complete(live) /\ kind = "structure" -> Goto("purge")
       [] OTHER -> Goto("rebuild")
  /\ kind = "structure" => ~Refuses(live)
  /\ kind = "discard" => live.defs \in {"legacy", "normalized"} \/ ~HasAnyTable(live, backups)
  /\ UNCHANGED <<driver, tables, backups, copying, guide, failures, history, discarded>>

Refuse ==
  /\ step = "inspect"
  /\ HasAnyTable(live, backups)
  /\ \/ kind = "structure" /\ Refuses(live)
     \/ kind = "discard" /\ live.defs \in {"none", "other"}
  /\ Goto("none") /\ status' = "failed"
  /\ UNCHANGED <<driver, tables, backups, copying, server, kind, failures, history, discarded>>

\* The rebuild_ tables of an earlier attempt are dropped and the definitions
\* written to new ones.
DropShadow ==
  /\ step = "rebuild"
  /\ shadow' = NoShadow
  /\ Goto("migrate")
  /\ UNCHANGED <<driver, tables, backups, memory, unread, guide, failures, history, discarded>>

\* rebuildNormalizedSchema copies rollups only, copyLegacyPoints every point.
CopiedPoints == IF ColumnsComplete(live) THEN {} ELSE points

\* Faulty variant: a discard leaves the definitions behind.
MigrateForStructure ==
  /\ step = "migrate"
  /\ shadow' = [rollups |-> {}, metrics |-> IF kind = "discard" THEN {} ELSE metrics]
  /\ unread' = IF kind = "discard" THEN {} ELSE rollups \cup CopiedPoints
  /\ Goto(IF kind = "discard" THEN "switch" ELSE "copy")
  /\ UNCHANGED <<driver, tables, backups, memory, guide, failures, history, discarded>>

MigrateShadow ==
  /\ step = "migrate"
  /\ shadow' = [rollups |-> {}, metrics |-> metrics]
  /\ unread' = IF kind = "discard" THEN {} ELSE rollups \cup CopiedPoints
  /\ Goto(IF kind = "discard" THEN "switch" ELSE "copy")
  /\ UNCHANGED <<driver, tables, backups, memory, guide, failures, history, discarded>>

\* Rows are read by id, points before rollups; WriteBatch keeps the minute in
\* progress in memory.
Batch(b) ==
  LET table == IF unread \cap CopiedPoints # {} THEN unread \cap CopiedPoints ELSE unread
  IN  /\ b \subseteq table /\ b # {}
      /\ Cardinality(b) = BatchSize \/ (Cardinality(b) < BatchSize /\ b = table)

CopyBatch(b) ==
  /\ step = "copy"
  /\ Batch(b)
  /\ LET new == b \ Orphans
         hot == new \cap CopiedPoints \cap Recent
     IN  memory' = memory \cup hot /\ shadow' = [shadow EXCEPT !.rollups = @ \cup (new \ hot)]
  /\ unread' = unread \ b
  /\ UNCHANGED <<driver, tables, backups, guide, step, failures, history, discarded>>

\* Faulty variant: the minute in progress is left in memory.
ValidateOnly ==
  /\ step = "copy" /\ unread = {}
  /\ shadow' = IF ColumnsComplete(live) THEN shadow
               ELSE [shadow EXCEPT !.rollups = @ \ Expired]
  /\ memory' = {}
  /\ Goto("switch")
  /\ UNCHANGED <<driver, tables, backups, unread, guide, failures, history, discarded>>

\* After points and old rollups were copied: flushAllHotRollups, the daily
\* rollups, Compact with its CleanupExpired, and the validation; after new
\* rollups were copied only the validation.
FlushShadow ==
  /\ step = "copy" /\ unread = {}
  /\ shadow' = IF ColumnsComplete(live) THEN shadow
               ELSE [shadow EXCEPT !.rollups = (@ \cup memory) \ Expired]
  /\ memory' = {}
  /\ Goto("switch")
  /\ UNCHANGED <<driver, tables, backups, unread, guide, failures, history, discarded>>

Adopt ==
  /\ live' = NewLayout
  /\ points' = {} /\ rollups' = shadow.rollups /\ metrics' = shadow.metrics
  /\ shadow' = NoShadow
  /\ discarded' = (discarded \/ kind = "discard")

\* replaceLegacyTables: drop and rename in one transaction.
SwitchInTransaction ==
  /\ step = "switch" /\ driver = "transactional"
  /\ Adopt
  /\ Goto("reclaim")
  /\ UNCHANGED <<driver, backups, memory, unread, guide, failures, history>>

\* replaceLegacyMySQLTables: the backups of an earlier switch go first, one
\* by one; then one statement renames the old tables away and the new ones in.
OldTables(l) ==
  {t \in {"points", "watermarks", "rollups", "dict", "defs"} :
     CASE t = "points" -> l.points # "none" [] t = "watermarks" -> l.watermarks
       [] t = "rollups" -> l.rollups # "none" [] t = "dict" -> l.dict
       [] t = "defs" -> l.defs # "none"}

DropBackup(t) ==
  /\ step \in {"switch", "purge"} /\ driver = "mysql"
  /\ step = "purge" => live.points = "none" /\ ~live.watermarks
  /\ t \in backups
  /\ backups' = backups \ {t}
  /\ UNCHANGED <<driver, tables, copying, guide, step, failures, history, discarded>>

RenameTables ==
  /\ step = "switch" /\ driver = "mysql" /\ backups = {}
  /\ Adopt
  /\ backups' = OldTables(live)
  /\ Goto("purge")
  /\ UNCHANGED <<driver, memory, unread, guide, failures, history>>

\* removeObsoleteRawTables, the end of discardNormalizedHistory and the end of
\* replaceLegacyMySQLTables: DROP TABLE, one statement at a time.
DropPoints ==
  /\ step = "purge" /\ live.points # "none"
  /\ live' = [live EXCEPT !.points = "none"] /\ points' = {}
  /\ UNCHANGED <<driver, rollups, metrics, backups, copying, guide, step, failures, history, discarded>>

DropWatermarks ==
  /\ step = "purge" /\ live.points = "none" /\ live.watermarks
  /\ live' = [live EXCEPT !.watermarks = FALSE]
  /\ UNCHANGED <<driver, points, rollups, metrics, backups, copying, guide, step, failures, history, discarded>>

\* Faulty variant: the switch is taken for finished while backups are left.
PurgedEarly ==
  /\ step = "purge" /\ live.points = "none"
  /\ Goto("reclaim")
  /\ UNCHANGED <<driver, tables, backups, copying, guide, failures, history, discarded>>

Purged ==
  /\ step = "purge" /\ live.points = "none" /\ ~live.watermarks /\ backups = {}
  /\ Goto("reclaim")
  /\ UNCHANGED <<driver, tables, backups, copying, guide, failures, history, discarded>>

\* discardNormalizedHistory: all rows in one transaction.
ClearRows ==
  /\ step = "clear"
  /\ points' = {} /\ rollups' = {}
  /\ discarded' = TRUE
  /\ Goto("purge")
  /\ UNCHANGED <<driver, live, metrics, backups, copying, guide, failures, history>>

Reclaim ==
  /\ step = "reclaim"
  /\ status' = "reclaiming"
  /\ Goto("report")
  /\ UNCHANGED <<driver, tables, backups, copying, server, kind, failures, history, discarded>>

Report ==
  /\ step = "report"
  /\ status' = "completed"
  /\ Goto("none")
  /\ UNCHANGED <<driver, tables, backups, copying, server, kind, failures, history, discarded>>

-----------------------------------------------------------------------------
Purge == DropPoints \/ DropWatermarks \/ (\E t \in backups : DropBackup(t)) \/ Purged

Operation ==
  \/ Inspect \/ Refuse
  \/ DropShadow \/ MigrateShadow
  \/ (\E b \in SUBSET unread : CopyBatch(b)) \/ FlushShadow
  \/ SwitchInTransaction \/ RenameTables \/ Purge
  \/ ClearRows \/ Reclaim \/ Report

Next ==
  \/ Boot \/ CompleteLater \/ Crash \/ Fail
  \/ \E k \in {"structure", "discard"} : Start(k)
  \/ Operation

Spec == Init /\ [][Next]_vars

\* An operation goes on until it ends or fails, the process is started again,
\* and the administrator who waits for the server presses a button again.
FairSpec ==
  /\ Spec
  /\ WF_vars(Operation) /\ WF_vars(Boot) /\ WF_vars(CompleteLater)
  /\ WF_vars(\E k \in {"structure", "discard"} : Start(k))

-----------------------------------------------------------------------------
TypeOK ==
  /\ driver \in {"mysql", "transactional"}
  /\ live \in Layouts
  /\ points \subseteq Rows /\ rollups \subseteq Rows /\ metrics \subseteq Metrics
  /\ backups \subseteq {"points", "watermarks", "rollups", "dict", "defs"}
  /\ shadow \in [rollups : SUBSET Rows, metrics : SUBSET Metrics]
  /\ memory \subseteq Rows /\ unread \subseteq Rows /\ history \subseteq Rows
  /\ server \in {"booting", "guide", "serving"}
  /\ status \in Active \cup {"idle", "failed", "completed"}
  /\ step \in {"none", "inspect", "rebuild", "migrate", "copy", "switch", "purge", "clear",
               "reclaim", "report"}
  /\ kind \in {"structure", "discard"}
  /\ failures \in 0..MaxFailures /\ discarded \in BOOLEAN

\* Whatever fails and whenever the process stops, the tables in use hold every
\* row that the upgrade sets out to keep, until the administrator discards the
\* history (replaceLegacyTables, replaceLegacyMySQLTables, copyLegacyPoints):
\* those with a definition and within its retention, obsolete points apart.
HistorySurvives == discarded \/ history \subseteq points \cup rollups

\* No failure, no crash and no discard loses a metric's definition.
DefinitionsSurvive == metrics = Metrics

\* The server only starts on a store that is wholly upgraded: the new layout,
\* with all the history in its rollups, and no table of an interrupted switch left
\* (StructureUpgradeRequired).
ServedIsUpgraded ==
  server = "serving" =>
    \/ Complete(live) /\ live.points = "none" /\ ~live.watermarks /\ backups = {}
       /\ (discarded \/ history \subseteq rollups)
    \/ ~HasAnyTable(live, backups)

\* Unless Restructure refuses the layout, the server is back at last, however
\* far earlier attempts got: each one starts from what they left.
UpgradeCompletes == ~Refuses(live) ~> server = "serving"
=============================================================================
