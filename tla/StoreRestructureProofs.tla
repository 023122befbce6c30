----------------------- MODULE StoreRestructureProofs -----------------------
(***************************************************************************)
(* Proofs about StoreRestructure, for any rows, any batch size and any      *)
(* number of failures: the upgrade keeps the history and the definitions,   *)
(* and what is served is wholly upgraded.                                   *)
(*                                                                         *)
(* Argument.  Only two steps take rows away, the switch and the dropping of *)
(* the point tables.  Before the switch every row of history is unread, in  *)
(* memory or in the new rollups (Copied), and after the copy only the last  *)
(* is left; the point tables are dropped only from a complete layout, whose *)
(* rollups already hold everything (Held).  The compaction of the new       *)
(* tables takes expired rows only, and history has none.                    *)
(***************************************************************************)
EXTENDS StoreRestructure, TLAPS

\* An operation is under way only while the guide shows it as active, and rows
\* are in memory only during the copy of old tables.
Place ==
  /\ step # "none" => server = "guide" /\ status \in Active
  /\ step # "copy" \/ ColumnsComplete(live) => memory = {}
  /\ step = "copy" => kind = "structure"
  /\ step \in {"purge", "clear"} => Complete(live)

\* Tables in the new layout hold the history in their rollups.
Held ==
  /\ history \cap (Orphans \cup Expired) = {}
  /\ discarded \/ history \subseteq points \cup rollups
  /\ ColumnsComplete(live) => discarded \/ history \subseteq rollups

\* What is copied, and what is still to be copied.
Copied ==
  /\ step = "copy" => discarded \/ history \subseteq shadow.rollups \cup memory \cup unread
  /\ step = "switch" /\ kind = "structure" => discarded \/ history \subseteq shadow.rollups

Defined ==
  /\ metrics = Metrics
  /\ step \in {"copy", "switch"} => shadow.metrics = Metrics

\* Serving starts only from Boot's decision.
Served ==
  server = "serving" =>
    \/ Complete(live) /\ live.points = "none" /\ ~live.watermarks /\ backups = {}
    \/ ~HasAnyTable(live, backups)

Inv == TypeOK /\ Place /\ Held /\ Copied /\ Defined /\ Served

-----------------------------------------------------------------------------
LEMMA InitInv == Init => Inv
<1> USE RestructureAssumption DEF RestructureAssumption, Rows
<1> SUFFICES ASSUME Init PROVE Inv
  OBVIOUS
<1>1. live \in Layouts
  BY DEF Init, Found
<1>2. TypeOK
  <2>1. PointRows(live) \subseteq Rows
    BY DEF PointRows
  <2>2. RollupRows(live) \subseteq Rows
    <3>1. (Rows \ Unrolled) \ Orphans \subseteq Rows /\ Rollups \subseteq Rows /\ {} \subseteq Rows
      OBVIOUS
    <3>2. RollupRows(live) \in {{}, (Rows \ Unrolled) \ Orphans, Rollups}
      BY DEF RollupRows
    <3> QED
      BY <3>1, <3>2
  <2> QED
    <3>1. shadow \in [rollups : SUBSET Rows, metrics : SUBSET Metrics]
      BY DEF Init, NoShadow
    <3>2. history \subseteq Rows /\ points \subseteq Rows /\ rollups \subseteq Rows
      BY <2>1, <2>2 DEF Init, Wanted
    <3>3. driver \in {"mysql", "transactional"} /\ failures \in 0..MaxFailures
      BY DEF Init
    <3> QED
      BY <1>1, <3>1, <3>2, <3>3 DEF Init, TypeOK, Active
<1>3. Held
  <2>1. history \cap (Orphans \cup Expired) = {}
    BY DEF Init, Wanted
  <2>2. history \subseteq points \cup rollups
    BY DEF Init, Wanted
  <2>3. ColumnsComplete(live) => history \subseteq rollups
    BY DEF Init, Wanted
  <2> QED
    BY <2>1, <2>2, <2>3 DEF Held
<1> QED
  BY <1>2, <1>3 DEF Init, Inv, Place, Copied, Defined, Served

LEMMA TypeOKStep ==
  ASSUME Inv, [Next]_vars PROVE TypeOK'
<1> USE RestructureAssumption DEF RestructureAssumption, Inv, Rows, Active, tables, copying, guide
<1>1. CASE Boot
  BY <1>1 DEF Boot, TypeOK, Layouts
<1>2. CASE CompleteLater
  BY <1>2 DEF CompleteLater, TypeOK, Layouts
<1>3. CASE Crash
  BY <1>3 DEF Crash, TypeOK, Layouts
<1>4. CASE Fail
  BY <1>4 DEF Fail, TypeOK, Layouts
<1>5. ASSUME NEW k \in {"structure", "discard"}, Start(k) PROVE TypeOK'
  BY <1>5 DEF Start, Goto, TypeOK, Layouts
<1>6. CASE Inspect
  BY <1>6 DEF Inspect, Goto, TypeOK, Layouts
<1>7. CASE Refuse
  BY <1>7 DEF Refuse, Goto, TypeOK, Layouts
<1>8. CASE DropShadow
  BY <1>8 DEF DropShadow, Goto, NoShadow, TypeOK, Layouts
<1>9. CASE MigrateShadow
  BY <1>9 DEF MigrateShadow, CopiedPoints, Goto, TypeOK, Layouts
<1>10. ASSUME NEW b \in SUBSET unread, CopyBatch(b) PROVE TypeOK'
  BY <1>10 DEF CopyBatch, Batch, TypeOK, Layouts
<1>11. CASE FlushShadow
  BY <1>11 DEF FlushShadow, Goto, TypeOK, Layouts
<1>12. CASE SwitchInTransaction
  BY <1>12 DEF SwitchInTransaction, Adopt, Goto, NoShadow, NewLayout, TypeOK, Layouts
<1>13. CASE RenameTables
  BY <1>13 DEF RenameTables, Adopt, Goto, NoShadow, NewLayout, OldTables, TypeOK, Layouts
<1>14. CASE DropPoints
  BY <1>14 DEF DropPoints, TypeOK, Layouts
<1>15. CASE DropWatermarks
  BY <1>15 DEF DropWatermarks, TypeOK, Layouts
<1>16. ASSUME NEW t \in backups, DropBackup(t) PROVE TypeOK'
  BY <1>16 DEF DropBackup, TypeOK, Layouts
<1>17. CASE Purged
  BY <1>17 DEF Purged, Goto, TypeOK, Layouts
<1>18. CASE ClearRows
  BY <1>18 DEF ClearRows, Goto, TypeOK, Layouts
<1>19. CASE Reclaim
  BY <1>19 DEF Reclaim, Goto, TypeOK, Layouts
<1>20. CASE Report
  BY <1>20 DEF Report, Goto, TypeOK, Layouts
<1>21. CASE UNCHANGED vars
  BY <1>21 DEF vars, TypeOK, Layouts
<1> QED
  BY <1>1, <1>2, <1>3, <1>4, <1>5, <1>6, <1>7, <1>8, <1>9, <1>10, <1>11, <1>12, <1>13, <1>14, <1>15, <1>16, <1>17, <1>18, <1>19, <1>20, <1>21 DEF Next, Operation, Purge

LEMMA PlaceStep ==
  ASSUME Inv, [Next]_vars PROVE Place'
<1> USE RestructureAssumption DEF RestructureAssumption, Inv, Rows, Active, tables, copying, guide
<1>1. CASE Boot
  BY <1>1 DEF Boot, Place, Complete, ColumnsComplete
<1>2. CASE CompleteLater
  BY <1>2 DEF CompleteLater, Place, Complete, ColumnsComplete
<1>3. CASE Crash
  BY <1>3 DEF Crash, Place, Complete, ColumnsComplete
<1>4. CASE Fail
  BY <1>4 DEF Fail, Place, Complete, ColumnsComplete
<1>5. ASSUME NEW k \in {"structure", "discard"}, Start(k) PROVE Place'
  BY <1>5 DEF Start, Goto, Place, Complete, ColumnsComplete
<1>6. CASE Inspect
  BY <1>6 DEF Inspect, Goto, Place, Complete, ColumnsComplete
<1>7. CASE Refuse
  BY <1>7 DEF Refuse, Goto, Place, Complete, ColumnsComplete
<1>8. CASE DropShadow
  BY <1>8 DEF DropShadow, Goto, NoShadow, Place, Complete, ColumnsComplete
<1>9. CASE MigrateShadow
  BY <1>9 DEF MigrateShadow, Goto, Place, TypeOK, Complete, ColumnsComplete
<1>10. ASSUME NEW b \in SUBSET unread, CopyBatch(b) PROVE Place'
  BY <1>10 DEF CopyBatch, CopiedPoints, Place, Complete
<1>11. CASE FlushShadow
  BY <1>11 DEF FlushShadow, Goto, Place, Complete, ColumnsComplete
<1>12. CASE SwitchInTransaction
  BY <1>12 DEF SwitchInTransaction, Adopt, Goto, NoShadow, NewLayout, Place, Complete, ColumnsComplete
<1>13. CASE RenameTables
  BY <1>13 DEF RenameTables, Adopt, Goto, NoShadow, NewLayout, OldTables, Place, Complete, ColumnsComplete
<1>14. CASE DropPoints
  BY <1>14 DEF DropPoints, Place, Complete, ColumnsComplete
<1>15. CASE DropWatermarks
  BY <1>15 DEF DropWatermarks, Place, Complete, ColumnsComplete
<1>16. ASSUME NEW t \in backups, DropBackup(t) PROVE Place'
  BY <1>16 DEF DropBackup, Place, Complete, ColumnsComplete
<1>17. CASE Purged
  BY <1>17 DEF Purged, Goto, Place, Complete, ColumnsComplete
<1>18. CASE ClearRows
  BY <1>18 DEF ClearRows, Goto, Place, Complete, ColumnsComplete
<1>19. CASE Reclaim
  BY <1>19 DEF Reclaim, Goto, Place, Complete, ColumnsComplete
<1>20. CASE Report
  BY <1>20 DEF Report, Goto, Place, Complete, ColumnsComplete
<1>21. CASE UNCHANGED vars
  BY <1>21 DEF vars, Place, Complete, ColumnsComplete
<1> QED
  BY <1>1, <1>2, <1>3, <1>4, <1>5, <1>6, <1>7, <1>8, <1>9, <1>10, <1>11, <1>12, <1>13, <1>14, <1>15, <1>16, <1>17, <1>18, <1>19, <1>20, <1>21 DEF Next, Operation, Purge

LEMMA HeldStep ==
  ASSUME Inv, [Next]_vars PROVE Held'
<1> USE RestructureAssumption DEF RestructureAssumption, Inv, Rows, Active, tables, copying, guide
<1>1. CASE Boot
  BY <1>1 DEF Boot, Held, Place, TypeOK, Complete, ColumnsComplete, Copied
<1>2. CASE CompleteLater
  BY <1>2 DEF CompleteLater, Held, Place, TypeOK, Complete, ColumnsComplete, Copied
<1>3. CASE Crash
  BY <1>3 DEF Crash, Held, Place, TypeOK, Complete, ColumnsComplete, Copied
<1>4. CASE Fail
  BY <1>4 DEF Fail, Held, Place, TypeOK, Complete, ColumnsComplete, Copied
<1>5. ASSUME NEW k \in {"structure", "discard"}, Start(k) PROVE Held'
  BY <1>5 DEF Start, Goto, Held, Place, TypeOK, Complete, ColumnsComplete, Copied
<1>6. CASE Inspect
  BY <1>6 DEF Inspect, Goto, Held, Place, TypeOK, Complete, ColumnsComplete, Copied
<1>7. CASE Refuse
  BY <1>7 DEF Refuse, Goto, Held, Place, TypeOK, Complete, ColumnsComplete, Copied
<1>8. CASE DropShadow
  BY <1>8 DEF DropShadow, Goto, NoShadow, Held, Place, TypeOK, Complete, ColumnsComplete, Copied
<1>9. CASE MigrateShadow
  BY <1>9 DEF MigrateShadow, Goto, Held, Place, TypeOK, Complete, ColumnsComplete, Copied
<1>10. ASSUME NEW b \in SUBSET unread, CopyBatch(b) PROVE Held'
  BY <1>10 DEF CopyBatch, Batch, Held, Place, TypeOK, Complete, ColumnsComplete, Copied
<1>11. CASE FlushShadow
  BY <1>11 DEF FlushShadow, Goto, Held, Place, TypeOK, Complete, ColumnsComplete, Copied
<1>12. CASE SwitchInTransaction
  BY <1>12 DEF SwitchInTransaction, Adopt, Goto, NoShadow, NewLayout, Held, Place, TypeOK, Complete, ColumnsComplete, Copied
<1>13. CASE RenameTables
  BY <1>13 DEF RenameTables, Adopt, Goto, NoShadow, NewLayout, OldTables, Held, Place, TypeOK, Complete, ColumnsComplete, Copied
<1>14. CASE DropPoints
  BY <1>14 DEF DropPoints, Held, Place, TypeOK, Complete, ColumnsComplete, Copied
<1>15. CASE DropWatermarks
  BY <1>15 DEF DropWatermarks, Held, Place, TypeOK, Complete, ColumnsComplete, Copied
<1>16. ASSUME NEW t \in backups, DropBackup(t) PROVE Held'
  BY <1>16 DEF DropBackup, Held, Place, TypeOK, Complete, ColumnsComplete, Copied
<1>17. CASE Purged
  BY <1>17 DEF Purged, Goto, Held, Place, TypeOK, Complete, ColumnsComplete, Copied
<1>18. CASE ClearRows
  BY <1>18 DEF ClearRows, Goto, Held, Place, TypeOK, Complete, ColumnsComplete, Copied
<1>19. CASE Reclaim
  BY <1>19 DEF Reclaim, Goto, Held, Place, TypeOK, Complete, ColumnsComplete, Copied
<1>20. CASE Report
  BY <1>20 DEF Report, Goto, Held, Place, TypeOK, Complete, ColumnsComplete, Copied
<1>21. CASE UNCHANGED vars
  BY <1>21 DEF vars, Held, Place, TypeOK, Complete, ColumnsComplete, Copied
<1> QED
  BY <1>1, <1>2, <1>3, <1>4, <1>5, <1>6, <1>7, <1>8, <1>9, <1>10, <1>11, <1>12, <1>13, <1>14, <1>15, <1>16, <1>17, <1>18, <1>19, <1>20, <1>21 DEF Next, Operation, Purge

LEMMA CopiedStep ==
  ASSUME Inv, [Next]_vars PROVE Copied'
<1> USE RestructureAssumption DEF RestructureAssumption, Inv, Rows, Active, tables, copying, guide
<1>1. CASE Boot
  BY <1>1 DEF Boot, Copied, Place, TypeOK, Held
<1>2. CASE CompleteLater
  BY <1>2 DEF CompleteLater, Copied, Place, TypeOK, Held
<1>3. CASE Crash
  BY <1>3 DEF Crash, Copied, Place, TypeOK, Held
<1>4. CASE Fail
  BY <1>4 DEF Fail, Copied, Place, TypeOK, Held
<1>5. ASSUME NEW k \in {"structure", "discard"}, Start(k) PROVE Copied'
  BY <1>5 DEF Start, Goto, Copied, Place, TypeOK, Held
<1>6. CASE Inspect
  BY <1>6 DEF Inspect, Goto, Copied, Place, TypeOK, Held
<1>7. CASE Refuse
  BY <1>7 DEF Refuse, Goto, Copied, Place, TypeOK, Held
<1>8. CASE DropShadow
  BY <1>8 DEF DropShadow, Goto, NoShadow, Copied, Place, TypeOK, Held
<1>9. CASE MigrateShadow
  <2>1. discarded \/ history \subseteq rollups \cup CopiedPoints
    BY DEF Held, CopiedPoints
  <2> QED
    BY <1>9, <2>1 DEF MigrateShadow, Goto, Copied
<1>10. ASSUME NEW b \in SUBSET unread, CopyBatch(b) PROVE Copied'
  BY <1>10 DEF CopyBatch, Batch, Copied, Place, TypeOK, Held
<1>11. CASE FlushShadow
  <2>1. step = "copy" /\ unread = {} /\ step' = "switch"
    BY <1>11 DEF FlushShadow, Goto
  <2>2. discarded \/ history \subseteq shadow.rollups \cup memory
    BY <2>1 DEF Copied
  <2>3. discarded \/ history \subseteq shadow'.rollups
    <3>1. CASE ColumnsComplete(live)
      BY <1>11, <2>2, <3>1 DEF FlushShadow, Place
    <3>2. CASE ~ColumnsComplete(live)
      <4>1. shadow'.rollups = (shadow.rollups \cup memory) \ Expired
        BY <1>11, <3>2 DEF FlushShadow, TypeOK
      <4>2. history \cap Expired = {}
        BY DEF Held
      <4> QED
        BY <2>2, <4>1, <4>2
    <3> QED
      BY <3>1, <3>2
  <2>4. history' = history /\ discarded' = discarded
    BY <1>11 DEF FlushShadow
  <2> QED
    BY <2>1, <2>3, <2>4 DEF Copied
<1>12. CASE SwitchInTransaction
  BY <1>12 DEF SwitchInTransaction, Adopt, Goto, NoShadow, NewLayout, Copied, Place, TypeOK, Held
<1>13. CASE RenameTables
  BY <1>13 DEF RenameTables, Adopt, Goto, NoShadow, NewLayout, OldTables, Copied, Place, TypeOK, Held
<1>14. CASE DropPoints
  BY <1>14 DEF DropPoints, Copied, Place, TypeOK, Held
<1>15. CASE DropWatermarks
  BY <1>15 DEF DropWatermarks, Copied, Place, TypeOK, Held
<1>16. ASSUME NEW t \in backups, DropBackup(t) PROVE Copied'
  BY <1>16 DEF DropBackup, Copied, Place, TypeOK, Held
<1>17. CASE Purged
  BY <1>17 DEF Purged, Goto, Copied, Place, TypeOK, Held
<1>18. CASE ClearRows
  BY <1>18 DEF ClearRows, Goto, Copied, Place, TypeOK, Held
<1>19. CASE Reclaim
  BY <1>19 DEF Reclaim, Goto, Copied, Place, TypeOK, Held
<1>20. CASE Report
  BY <1>20 DEF Report, Goto, Copied, Place, TypeOK, Held
<1>21. CASE UNCHANGED vars
  BY <1>21 DEF vars, Copied, Place, TypeOK, Held
<1> QED
  BY <1>1, <1>2, <1>3, <1>4, <1>5, <1>6, <1>7, <1>8, <1>9, <1>10, <1>11, <1>12, <1>13, <1>14, <1>15, <1>16, <1>17, <1>18, <1>19, <1>20, <1>21 DEF Next, Operation, Purge

LEMMA DefinedStep ==
  ASSUME Inv, [Next]_vars PROVE Defined'
<1> USE RestructureAssumption DEF RestructureAssumption, Inv, Rows, Active, tables, copying, guide
<1>1. CASE Boot
  BY <1>1 DEF Boot, Defined, TypeOK
<1>2. CASE CompleteLater
  BY <1>2 DEF CompleteLater, Defined, TypeOK
<1>3. CASE Crash
  BY <1>3 DEF Crash, Defined, TypeOK
<1>4. CASE Fail
  BY <1>4 DEF Fail, Defined, TypeOK
<1>5. ASSUME NEW k \in {"structure", "discard"}, Start(k) PROVE Defined'
  BY <1>5 DEF Start, Goto, Defined, TypeOK
<1>6. CASE Inspect
  BY <1>6 DEF Inspect, Goto, Defined, TypeOK
<1>7. CASE Refuse
  BY <1>7 DEF Refuse, Goto, Defined, TypeOK
<1>8. CASE DropShadow
  BY <1>8 DEF DropShadow, Goto, NoShadow, Defined, TypeOK
<1>9. CASE MigrateShadow
  BY <1>9 DEF MigrateShadow, Goto, Defined, TypeOK
<1>10. ASSUME NEW b \in SUBSET unread, CopyBatch(b) PROVE Defined'
  BY <1>10 DEF CopyBatch, Batch, Defined, TypeOK
<1>11. CASE FlushShadow
  BY <1>11 DEF FlushShadow, Goto, Defined, TypeOK
<1>12. CASE SwitchInTransaction
  BY <1>12 DEF SwitchInTransaction, Adopt, Goto, NoShadow, NewLayout, Defined, TypeOK
<1>13. CASE RenameTables
  BY <1>13 DEF RenameTables, Adopt, Goto, NoShadow, NewLayout, OldTables, Defined, TypeOK
<1>14. CASE DropPoints
  BY <1>14 DEF DropPoints, Defined, TypeOK
<1>15. CASE DropWatermarks
  BY <1>15 DEF DropWatermarks, Defined, TypeOK
<1>16. ASSUME NEW t \in backups, DropBackup(t) PROVE Defined'
  BY <1>16 DEF DropBackup, Defined, TypeOK
<1>17. CASE Purged
  BY <1>17 DEF Purged, Goto, Defined, TypeOK
<1>18. CASE ClearRows
  BY <1>18 DEF ClearRows, Goto, Defined, TypeOK
<1>19. CASE Reclaim
  BY <1>19 DEF Reclaim, Goto, Defined, TypeOK
<1>20. CASE Report
  BY <1>20 DEF Report, Goto, Defined, TypeOK
<1>21. CASE UNCHANGED vars
  BY <1>21 DEF vars, Defined, TypeOK
<1> QED
  BY <1>1, <1>2, <1>3, <1>4, <1>5, <1>6, <1>7, <1>8, <1>9, <1>10, <1>11, <1>12, <1>13, <1>14, <1>15, <1>16, <1>17, <1>18, <1>19, <1>20, <1>21 DEF Next, Operation, Purge

LEMMA ServedStep ==
  ASSUME Inv, [Next]_vars PROVE Served'
<1> USE RestructureAssumption DEF RestructureAssumption, Inv, Rows, Active, tables, copying, guide
<1>1. CASE Boot
  BY <1>1 DEF Boot, Served, Place, NeedsRestructure, HasAnyTable, Complete, ColumnsComplete
<1>2. CASE CompleteLater
  BY <1>2 DEF CompleteLater, Served, Place, NeedsRestructure, HasAnyTable, Complete, ColumnsComplete
<1>3. CASE Crash
  BY <1>3 DEF Crash, Served, Place, NeedsRestructure, HasAnyTable, Complete, ColumnsComplete
<1>4. CASE Fail
  BY <1>4 DEF Fail, Served, Place, NeedsRestructure, HasAnyTable, Complete, ColumnsComplete
<1>5. ASSUME NEW k \in {"structure", "discard"}, Start(k) PROVE Served'
  BY <1>5 DEF Start, Goto, Served, Place, NeedsRestructure, HasAnyTable, Complete, ColumnsComplete
<1>6. CASE Inspect
  BY <1>6 DEF Inspect, Goto, Served, Place, NeedsRestructure, HasAnyTable, Complete, ColumnsComplete
<1>7. CASE Refuse
  BY <1>7 DEF Refuse, Goto, Served, Place, NeedsRestructure, HasAnyTable, Complete, ColumnsComplete
<1>8. CASE DropShadow
  BY <1>8 DEF DropShadow, Goto, NoShadow, Served, Place, NeedsRestructure, HasAnyTable, Complete, ColumnsComplete
<1>9. CASE MigrateShadow
  BY <1>9 DEF MigrateShadow, Goto, Served, Place, NeedsRestructure, HasAnyTable, Complete, ColumnsComplete
<1>10. ASSUME NEW b \in SUBSET unread, CopyBatch(b) PROVE Served'
  BY <1>10 DEF CopyBatch, Batch, Served, Place, NeedsRestructure, HasAnyTable, Complete, ColumnsComplete
<1>11. CASE FlushShadow
  BY <1>11 DEF FlushShadow, Goto, Served, Place, NeedsRestructure, HasAnyTable, Complete, ColumnsComplete
<1>12. CASE SwitchInTransaction
  BY <1>12 DEF SwitchInTransaction, Adopt, Goto, NoShadow, NewLayout, Served, Place, NeedsRestructure, HasAnyTable, Complete, ColumnsComplete
<1>13. CASE RenameTables
  BY <1>13 DEF RenameTables, Adopt, Goto, NoShadow, NewLayout, OldTables, Served, Place, NeedsRestructure, HasAnyTable, Complete, ColumnsComplete
<1>14. CASE DropPoints
  BY <1>14 DEF DropPoints, Served, Place, NeedsRestructure, HasAnyTable, Complete, ColumnsComplete
<1>15. CASE DropWatermarks
  BY <1>15 DEF DropWatermarks, Served, Place, NeedsRestructure, HasAnyTable, Complete, ColumnsComplete
<1>16. ASSUME NEW t \in backups, DropBackup(t) PROVE Served'
  BY <1>16 DEF DropBackup, Served, Place, NeedsRestructure, HasAnyTable, Complete, ColumnsComplete
<1>17. CASE Purged
  BY <1>17 DEF Purged, Goto, Served, Place, NeedsRestructure, HasAnyTable, Complete, ColumnsComplete
<1>18. CASE ClearRows
  BY <1>18 DEF ClearRows, Goto, Served, Place, NeedsRestructure, HasAnyTable, Complete, ColumnsComplete
<1>19. CASE Reclaim
  BY <1>19 DEF Reclaim, Goto, Served, Place, NeedsRestructure, HasAnyTable, Complete, ColumnsComplete
<1>20. CASE Report
  BY <1>20 DEF Report, Goto, Served, Place, NeedsRestructure, HasAnyTable, Complete, ColumnsComplete
<1>21. CASE UNCHANGED vars
  BY <1>21 DEF vars, Served, Place, NeedsRestructure, HasAnyTable, Complete, ColumnsComplete
<1> QED
  BY <1>1, <1>2, <1>3, <1>4, <1>5, <1>6, <1>7, <1>8, <1>9, <1>10, <1>11, <1>12, <1>13, <1>14, <1>15, <1>16, <1>17, <1>18, <1>19, <1>20, <1>21 DEF Next, Operation, Purge

-----------------------------------------------------------------------------
THEOREM Invariance == Spec => []Inv
<1>1. Inv /\ [Next]_vars => Inv'
  BY TypeOKStep, PlaceStep, HeldStep, CopiedStep, DefinedStep, ServedStep DEF Inv
<1> QED
  BY InitInv, <1>1, PTL DEF Spec

\* The variables keep their types.
THEOREM TypeCorrect == Spec => []TypeOK
<1>1. Inv => TypeOK
  BY DEF Inv
<1> QED
  BY Invariance, <1>1, PTL

\* Whatever mixture of shapes the upgrade finds, whatever fails and whenever
\* the process stops: no row that has a definition and is within its retention
\* is lost before a discard, except the points beside tables whose columns are
\* already the new ones (Restructure, Compact, replaceLegacyTables).
THEOREM HistoryKept == Spec => []HistorySurvives
<1>1. Inv => HistorySurvives
  BY DEF Inv, Held, HistorySurvives
<1> QED
  BY Invariance, <1>1, PTL

\* No definition is lost, by an upgrade or a discard (MigrateShadow, the switch).
THEOREM DefinitionsKept == Spec => []DefinitionsSurvive
<1>1. Inv => DefinitionsSurvive
  BY DEF Inv, Defined, DefinitionsSurvive
<1> QED
  BY Invariance, <1>1, PTL

\* What is served is wholly upgraded or empty (NeedsRestructure at each start).
THEOREM ServedUpgraded == Spec => []ServedIsUpgraded
<1>1. Inv => ServedIsUpgraded
  BY DEF Inv, Held, Served, ServedIsUpgraded, Complete
<1> QED
  BY Invariance, <1>1, PTL
=============================================================================
