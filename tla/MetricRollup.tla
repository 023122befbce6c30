---------------------------- MODULE MetricRollup ----------------------------
(***************************************************************************)
(* The write path of one series of a metric store (pkg/metric): the exact  *)
(* raw window, the in-memory minute buckets ("hot"), their persistence as  *)
(* minute rows, and the cascade that seals coarser rows from them.         *)
(*                                                                         *)
(* A rollup bucket is modelled as the set of samples it counts.  Count,    *)
(* sum and digest are additive, so merging two buckets is their union as   *)
(* long as they share no sample; that they never do is NoDoubleCount.      *)
(*                                                                         *)
(* The store's ingestMu serialises WriteBatch, Flush and FlushCoarse;      *)
(* `op' is the call that holds it.  Each database transaction inside a     *)
(* call is one step, so the process may crash between two of them.         *)
(***************************************************************************)
EXTENDS Integers, Sequences, FiniteSets

CONSTANTS
  Labels,          \* label sets a sample of the series may carry
  TicksPerMinute,  \* clock resolution: ticks in one minute bucket
  RawMinutes,      \* rawMemoryRetention, in minutes
  GraceMinutes,    \* coarseRollupGrace, in minutes
  Interval,        \* tier intervals in minutes, finest first
  MaxNow,          \* bound: last tick of the clock
  MaxSamples,      \* bound: samples ever accepted
  MaxBatch,        \* bound: samples in one WriteBatch
  MaxWait          \* bound: ticks a compaction waits with the clock it read

ASSUME RollupAssumption ==
  /\ TicksPerMinute \in Nat \ {0}
  /\ RawMinutes \in Nat \ {0}
  /\ GraceMinutes \in Nat
  /\ Interval \in Seq(Nat \ {0}) /\ Len(Interval) >= 1 /\ Interval[1] = 1
  /\ \A l \in 1..(Len(Interval) - 1) :
        Interval[l] < Interval[l + 1] /\ Interval[l + 1] % Interval[l] = 0
  /\ MaxNow \in Nat /\ MaxSamples \in Nat /\ MaxBatch \in Nat /\ MaxWait \in Nat

-----------------------------------------------------------------------------
Time      == 0..MaxNow
Minute(t) == t \div TicksPerMinute
Cell      == [minute : 0..Minute(MaxNow), label : Labels]
Tiers     == 1..Len(Interval)
Sample    == [ts : Time, label : Labels]
Ids       == 1..MaxSamples

VARIABLES
  now,      \* the wall clock
  open,     \* the Store accepts calls (not closed, process alive)
  log,      \* history: every accepted sample, in order; its index is its id
  base,     \* history: how many samples were accepted before the last open
  cut,      \* history: how many samples were accepted before the last deletion
  purged,   \* history: and before the last one that covered unsealed parents too
  live,     \* history: samples neither deleted nor replaced by a later sample
            \* with the same timestamp
  withheld, \* history: samples that reached their row after their parent was due
  outrun,   \* history: parents, by tier, that a write sealed while a compaction
            \* waited with a clock at which they were not due
  raw,      \* raw: the exact samples held in memory
  hot,      \* hot: minute buckets not yet persisted
  replace,  \* hotReplace: buckets rebuilt from raw, to overwrite their row
  rows,     \* persisted rollup rows of every tier; rows of tiers 2.. are sealed
  pend,     \* coarse: children, by tier, waiting for their parent to seal
  op,       \* the call holding ingestMu: its phase, its clock, who made it
  comp      \* the scheduled compaction: its stage and the clock it read

memory  == <<raw, hot, replace, pend>>
history == <<log, base, cut, purged, live, withheld, outrun>>
vars    == <<now, open, history, memory, rows, op, comp>>

NoOp   == [phase |-> "idle", by |-> "none", t |-> 0]
NoComp == [stage |-> "idle", t |-> 0]

Empty == [c \in Cell |-> {}]

CellOf(s) == [minute |-> Minute(s.ts), label |-> s.label]

\* bucketStartMillis: the tier-l bucket that a finer bucket falls into.
BucketOf(l, c) ==
  [c EXCEPT !.minute = (c.minute \div Interval[l]) * Interval[l]]

\* The end of a parent plus the late-arrival grace has passed at time t.
Due(l, p, t) == (p.minute + Interval[l] + GraceMinutes) * TicksPerMinute <= t

\* takeClosedCoarseRollups: unsealed tier-l parents that are due.
DueParents(l, t) ==
  {BucketOf(l, c) : c \in {d \in Cell : pend[l - 1][d] # {}
                                        /\ Due(l, BucketOf(l, d), t)}}

\* addMinuteParents leaves out a minute whose parent may have sealed at time t.
ParentDue(c, t) == Len(Interval) < 2 \/ Due(2, BucketOf(2, c), t)

\* rawMemoryCutoff, as a minute: the retained window always starts on one.
RawCut(t) == Minute(t) - RawMinutes

-----------------------------------------------------------------------------
(* Faulty variants of the definitions below: each is a plausible slip in the *)
(* code, and the property named with it notices it.                          *)

\* DeleteSeries and Close forget everything but the unsealed parents.
ForgetMemoryButParents ==
  /\ raw' = {} /\ hot' = Empty /\ replace' = {} /\ pend' = pend

\* A rebuilt minute takes every raw sample of the minute, whatever its labels.
HotAfterAnyLabel(lg, new, rawAfter, rebuild) ==
  [c \in Cell |-> IF c \in rebuild
                     THEN {i \in rawAfter : Minute(lg[i].ts) = c.minute}
                     ELSE hot[c] \cup {i \in new : CellOf(lg[i]) = c}]

\* The raw window ends exactly RawMinutes ago, in the middle of a minute.
KeptRawExactly(t) ==
  {i \in raw : log[i].ts >= t - RawMinutes * TicksPerMinute}

\* A rebuilt minute is merged into its row instead of overwriting it.
MinuteRowsMerging(cells) ==
  [c \in Cell |-> IF c \in cells THEN rows[1][c] \cup hot[c] ELSE rows[1][c]]

\* A late minute is staged although its parent may have sealed.
ChildrenOfSealed(cells, t) ==
  [c \in Cell |-> IF c \in cells /\ Len(Interval) > 1 THEN hot[c] ELSE pend[1][c]]

\* Only minutes before the last closed one are persisted.
ClosedCellsButLast(t) == {c \in Cell : /\ c.minute < Minute(t) - 1
                                       /\ hot[c] # {} \/ c \in replace}

\* Compact returns after Flush.
FlushCoarseSkipped ==
  /\ open /\ op.phase = "idle" /\ comp.stage = "flushed"
  /\ comp' = NoComp
  /\ UNCHANGED <<now, open, history, memory, rows, op>>

-----------------------------------------------------------------------------
\* pruneRawBeforeLocked at time t.
KeptRaw(t) == {i \in raw : Minute(log[i].ts) >= RawCut(t)}

-----------------------------------------------------------------------------
Init ==
  /\ now = 0 /\ open = TRUE
  /\ log = <<>> /\ base = 0 /\ cut = 0 /\ purged = 0 /\ live = {} /\ withheld = {}
  /\ outrun = {}
  /\ raw = {} /\ hot = Empty /\ replace = {}
  /\ rows = [l \in Tiers |-> Empty]
  /\ pend = [l \in Tiers |-> Empty]
  /\ op = NoOp /\ comp = NoComp

Tick ==
  /\ now < MaxNow
  /\ comp.stage = "waiting" => now + 1 - comp.t <= MaxWait
  /\ now' = now + 1
  /\ UNCHANGED <<open, history, memory, rows, op, comp>>

-----------------------------------------------------------------------------
(* WriteBatch *)

\* The report batcher hands each series strictly increasing timestamps.
Batches ==
  {b \in UNION {[1..n -> {s \in Sample : s.ts <= now}] : n \in 1..MaxBatch} :
     \A i, j \in DOMAIN b : i < j => b[i].ts < b[j].ts}

\* Samples of `ids' that replace an exact sample still in `kept', or arrive
\* after their timestamp left the directly addressable minute.
LateOrReplacing(lg, ids, kept) ==
  {i \in ids : \/ lg[i].ts < now - TicksPerMinute
               \/ \E j \in kept : lg[j].ts = lg[i].ts}

Replaced(lg, ids, kept) == {j \in kept : \E i \in ids : lg[i].ts = lg[j].ts}

\* writePreparedHotRollups: points are added to their minute, then every
\* minute to rebuild is recomputed from the raw samples alone.
HotAfter(lg, new, rawAfter, rebuild) ==
  [c \in Cell |-> IF c \in rebuild THEN {i \in rawAfter : CellOf(lg[i]) = c}
                                   ELSE hot[c] \cup {i \in new : CellOf(lg[i]) = c}]

WriteBatch(batch) ==
  LET lg       == log \o batch
      new      == (Len(log) + 1)..Len(lg)
      kept     == KeptRaw(now)
      exact    == {i \in new : Minute(lg[i].ts) >= RawCut(now)}
      replaced == Replaced(lg, exact, kept)
      rawAfter == (kept \ replaced) \cup exact
      rebuild  == {CellOf(lg[i]) : i \in replaced \cup LateOrReplacing(lg, exact, kept)}
  IN
  /\ open /\ op.phase = "idle"
  /\ Len(lg) <= MaxSamples
  /\ log' = lg
  /\ live' = (live \ {j \in live : \E i \in exact : lg[i].ts = lg[j].ts}) \cup new
  /\ raw' = rawAfter
  /\ hot' = HotAfter(lg, new, rawAfter, rebuild)
  /\ replace' = replace \cup rebuild
  /\ op' = [phase |-> "hot", by |-> "write", t |-> now]
  /\ UNCHANGED <<now, open, base, cut, purged, withheld, outrun, rows, pend, comp>>

-----------------------------------------------------------------------------
(* The scheduled compaction: Flush, then FlushCoarse with the same clock. *)

\* compactMetricStore reads the clock before Compact waits for its locks.
CompactStart ==
  /\ open /\ comp.stage = "idle"
  /\ comp' = [stage |-> "waiting", t |-> now]
  /\ UNCHANGED <<now, open, history, memory, rows, op>>

Flush ==
  /\ open /\ op.phase = "idle" /\ comp.stage = "waiting"
  /\ raw' = KeptRaw(comp.t)
  /\ op' = [phase |-> "hot", by |-> "compact", t |-> comp.t]
  /\ comp' = [comp EXCEPT !.stage = "flushing"]
  /\ UNCHANGED <<now, open, history, hot, replace, rows, pend>>

FlushCoarse ==
  /\ open /\ op.phase = "idle" /\ comp.stage = "flushed"
  /\ op' = [phase |-> "coarse", by |-> "compact", t |-> comp.t]
  /\ comp' = [comp EXCEPT !.stage = "sealing"]
  /\ UNCHANGED <<now, open, history, memory, rows>>

\* The call in progress returns; an error ends the compaction it belongs to.
Return(stage) ==
  /\ op' = NoOp
  /\ comp' = IF op.by # "compact" THEN comp
             ELSE IF stage = "idle" THEN NoComp ELSE [comp EXCEPT !.stage = stage]

-----------------------------------------------------------------------------
(* flushClosedHotRollups *)

ClosedCells(t) == {c \in Cell : /\ c.minute < Minute(t)
                                /\ hot[c] # {} \/ c \in replace}

\* persistHotRollups: rebuilt minutes overwrite their row, others merge into it.
MinuteRows(cells) ==
  [c \in Cell |-> IF c \notin cells THEN rows[1][c]
                  ELSE IF c \in replace THEN hot[c] ELSE rows[1][c] \cup hot[c]]

\* addMinuteParents, addCoarseChildren: a child is overwritten by the bucket
\* just persisted (removed when that is empty); a due parent is left alone.
Children(cells, t) ==
  [c \in Cell |-> IF c \in cells /\ ~ParentDue(c, t) THEN hot[c] ELSE pend[1][c]]

\* takeClosedHotRollups removes the buckets it hands to the transaction.
HotWithout(cells) == [c \in Cell |-> IF c \in cells THEN {} ELSE hot[c]]

PersistHot ==
  LET closed == ClosedCells(op.t) IN
  /\ op.phase = "hot"
  /\ rows' = [rows EXCEPT ![1] = MinuteRows(closed)]
  /\ pend' = [pend EXCEPT ![1] = Children(closed, op.t)]
  /\ hot' = HotWithout(closed)
  /\ replace' = replace \ closed
  /\ withheld' = withheld \cup UNION {hot[c] : c \in {d \in closed : ParentDue(d, op.t)}}
  /\ IF op.by = "write" THEN op' = [op EXCEPT !.phase = "coarse"] /\ comp' = comp
                        ELSE Return("flushed")
  /\ UNCHANGED <<now, open, log, base, cut, purged, live, outrun, raw>>

\* The transaction fails: restoreHotRollups puts every bucket back.
PersistHotFails ==
  /\ op.phase = "hot" /\ ClosedCells(op.t) # {}
  /\ Return("idle")
  /\ UNCHANGED <<now, open, history, memory, rows>>

-----------------------------------------------------------------------------
(* flushClosedCoarseRollups: one transaction per tier, finest due tier first *)

DueTiers(t) == {l \in Tiers \ {1} : DueParents(l, t) # {}}

\* The merge of a parent's children.
Merged(l, p) == UNION {pend[l - 1][c] : c \in {d \in Cell : BucketOf(l, d) = p}}

Seal(l) ==
  LET due == DueParents(l, op.t) IN
  /\ rows' = [rows EXCEPT ![l] = [p \in Cell |-> IF p \in due THEN Merged(l, p)
                                                              ELSE rows[l][p]]]
  /\ pend' = [k \in Tiers |->
       [c \in Cell |-> IF k = l - 1 /\ BucketOf(l, c) \in due THEN {}
                       ELSE IF k = l /\ l < Len(Interval) /\ c \in due THEN Merged(l, c)
                       ELSE pend[k][c]]]

\* The parents just sealed that a waiting compaction still takes for unsealed.
Overtaken(l) ==
  {<<l, p>> : p \in {q \in DueParents(l, op.t) :
                       comp.stage = "waiting" /\ ~Due(l, q, comp.t)}}

PersistCoarse ==
  /\ op.phase = "coarse"
  /\ \E l \in DueTiers(op.t) :
       /\ \A k \in DueTiers(op.t) : l <= k
       /\ Seal(l)
       /\ outrun' = outrun \cup Overtaken(l)
  /\ UNCHANGED <<now, open, log, base, cut, purged, live, withheld, raw, hot, replace,
                 op, comp>>

\* restoreClosedCoarseRollups: the failing tier goes back, sealed tiers stay.
PersistCoarseFails ==
  /\ op.phase = "coarse" /\ DueTiers(op.t) # {}
  /\ Return("idle")
  /\ UNCHANGED <<now, open, history, memory, rows>>

CoarseDone ==
  /\ op.phase = "coarse" /\ DueTiers(op.t) = {}
  /\ Return("idle")
  /\ UNCHANGED <<now, open, history, memory, rows>>

-----------------------------------------------------------------------------
(* Close, crash, reopen, delete *)

ForgetMemory ==
  /\ raw' = {} /\ hot' = Empty /\ replace' = {}
  /\ pend' = [l \in Tiers |-> Empty]

\* Close persists every hot bucket, the current minute's included, or reports
\* the error; either way raw samples and unsealed parents are dropped.
Close ==
  /\ open /\ op.phase = "idle" /\ comp.stage = "idle"
  /\ open' = FALSE
  /\ rows' \in {rows, [rows EXCEPT ![1] = MinuteRows(Cell)]}
  /\ ForgetMemory
  /\ UNCHANGED <<now, history, op, comp>>

Crash ==
  /\ open
  /\ open' = FALSE
  /\ ForgetMemory
  /\ op' = NoOp /\ comp' = NoComp
  /\ UNCHANGED <<now, history, rows>>

Open ==
  /\ ~open
  /\ open' = TRUE
  /\ base' = Len(log)
  /\ UNCHANGED <<now, log, cut, purged, live, withheld, outrun, memory, rows, op, comp>>

\* DeleteSeries (DeleteEntity, DeleteMetric and the others alike): the rows in one
\* transaction, then every trace in memory.  It needs retentionMu, so no call is
\* in progress.
DeleteSeries ==
  /\ open /\ op.phase = "idle"
  /\ rows' = [l \in Tiers |-> Empty]
  /\ ForgetMemory
  /\ cut' = Len(log) /\ purged' = Len(log) /\ live' = {}
  /\ UNCHANGED <<now, open, log, base, withheld, outrun, op, comp>>

\* DeleteBefore with a cutoff in the future (DeleteAllRecords): the rows, the raw
\* samples and the minute buckets, but no unsealed parent.
DeleteBefore ==
  /\ open /\ op.phase = "idle"
  /\ rows' = [l \in Tiers |-> Empty]
  /\ raw' = {} /\ hot' = Empty /\ replace' = {}
  /\ cut' = Len(log) /\ live' = {}
  /\ UNCHANGED <<now, open, log, base, purged, withheld, outrun, pend, op, comp>>

-----------------------------------------------------------------------------
Next ==
  \/ Tick
  \/ \E b \in Batches : WriteBatch(b)
  \/ CompactStart \/ Flush \/ FlushCoarse
  \/ PersistHot \/ PersistHotFails
  \/ PersistCoarse \/ PersistCoarseFails \/ CoarseDone
  \/ Close \/ Crash \/ Open \/ DeleteSeries \/ DeleteBefore

Spec == Init /\ [][Next]_vars

\* The scheduler keeps calling Compact (runtime.go, every five minutes), a call
\* that holds the lock finishes, the database does not fail for ever, and a
\* closed store is reopened.
Fairness ==
  /\ WF_vars(Tick) /\ WF_vars(Open)
  /\ WF_vars(CompactStart) /\ SF_vars(Flush) /\ SF_vars(FlushCoarse)
  /\ SF_vars(PersistHot) /\ SF_vars(PersistCoarse) /\ WF_vars(CoarseDone)

FairSpec == Spec /\ Fairness

-----------------------------------------------------------------------------
(* Properties *)

\* Type invariant; a closed store holds nothing in memory and no call is in it.
TypeOK ==
  /\ now \in Time /\ open \in BOOLEAN
  /\ log \in Seq(Sample) /\ Len(log) <= MaxSamples
  /\ base \in 0..Len(log) /\ cut \in 0..Len(log) /\ purged \in 0..cut
  /\ live \subseteq 1..Len(log) /\ raw \subseteq 1..Len(log) /\ withheld \subseteq Ids
  /\ outrun \subseteq Tiers \X Cell
  /\ hot \in [Cell -> SUBSET Ids] /\ replace \subseteq Cell
  /\ rows \in [Tiers -> [Cell -> SUBSET Ids]]
  /\ pend \in [Tiers -> [Cell -> SUBSET Ids]]
  /\ op \in [phase : {"idle", "hot", "coarse"}, by : {"none", "write", "compact"},
             t : Time]
  /\ comp \in [stage : {"idle", "waiting", "flushing", "flushed", "sealing"}, t : Time]
  /\ ~open => raw = {} /\ hot = Empty /\ replace = {} /\ op.phase = "idle"

\* What a query of the minute tier counts: the stored row with the memory
\* bucket on top, or the rebuilt bucket alone.
Visible(c) == IF c \in replace THEN hot[c] ELSE rows[1][c] \cup hot[c]

\* Buckets about to be merged share no sample.
MergeDisjoint == \A c \in Cell \ replace : hot[c] \cap rows[1][c] = {}

\* A minute bucket holds samples of its own minute and label set.
HotInCell ==
  \A c \in Cell : \A i \in hot[c] : i \in 1..Len(log) /\ CellOf(log[i]) = c

\* So does every row and every child waiting for its parent, of any tier.
TiersInBucket ==
  \A l \in Tiers, c \in Cell : \A i \in pend[l][c] \cup rows[l][c] :
     i \in 1..Len(log) /\ BucketOf(l, CellOf(log[i])) = c

\* No merge (minute row with memory bucket, children into a parent) ever adds a
\* sample twice, through retries after a failed transaction, rebuilds of late
\* minutes, crashes and restarts: buckets about to be merged are disjoint, and
\* every sample sits only in the bucket of its own minute and label.
NoDoubleCount == MergeDisjoint /\ HotInCell /\ TiersInBucket

\* While the store is open, raw holds the live samples of its whole window and no
\* sample that was deleted, replaced or accepted before the store was opened, so
\* that a minute can be rebuilt from it (rawMemoryCutoff keeps whole minutes).
RawWindowComplete ==
  open => /\ raw \subseteq live
          /\ \A i \in raw : i > base
          /\ \A i \in live : i > base /\ Minute(log[i].ts) >= RawCut(now) => i \in raw

\* A minute none of whose samples predates the last open shows exactly its live
\* samples: late samples, replacements (which may move a sample to another label
\* set), failed flushes and partial flushes neither lose nor resurrect one.
MinuteConserved ==
  open => \A c \in Cell :
    (\A i \in 1..base : CellOf(log[i]) # c) =>
      Visible(c) = {i \in live : CellOf(log[i]) = c}

\* Deleted data does not come back from any buffer: not from the raw window by a
\* later rebuild, not from a minute bucket, and, when the deletion was one of a
\* series, an entity or a metric, not from an unsealed parent.
DeletedStaysDeleted ==
  \A c \in Cell :
    /\ \A i \in raw \cup hot[c] \cup rows[1][c] : i > cut
    /\ \A l \in Tiers : \A i \in rows[l][c] \cup pend[l][c] : i > purged

\* "DeleteBefore deletes retained raw points and summaries older than a cutoff
\* across every resolution" (store.go:1196): no row of any tier shows a sample
\* that was accepted before the last deletion.
DeletedEverywhere == \A l \in Tiers, c \in Cell : \A i \in rows[l][c] : i > cut

\* "A parent that has already sealed must remain immutable"
\* (coarse_rollup.go:47): only deletion changes a sealed coarse row.
SealedImmutable ==
  [][\A l \in Tiers \ {1}, p \in Cell :
       rows[l][p] # {} => rows'[l][p] = rows[l][p] \/ DeleteSeries \/ DeleteBefore]_vars

\* A sealed row is written again only when a write sealed it while a compaction
\* was waiting with an older clock (runtime.go:227 reads it before the locks).  No
\* other order of late samples, rebuilds, failed transactions, crashes, restarts
\* and compactions, however long they wait, reaches a sealed row of any tier.
SealedUnlessOutrun ==
  [][\A l \in Tiers \ {1}, p \in Cell :
       rows[l][p] # {} => \/ rows'[l][p] = rows[l][p]
                          \/ <<l, p>> \in outrun
                          \/ DeleteSeries \/ DeleteBefore]_vars

\* "tier i+1 buckets are built by merging the tier i rows they span"
\* (rollup.go:272), in a store that was never reopened and apart from the
\* samples deliberately kept out of a parent that was due when they came.
SealMergesStoredRows ==
  [][\A l \in Tiers \ {1}, p \in Cell :
       (base = 0 /\ PersistCoarse /\ rows'[l][p] # rows[l][p]) =>
         UNION {rows[l - 1][c] : c \in {d \in Cell : BucketOf(l, d) = p}}
           \subseteq rows'[l][p] \cup withheld]_vars

\* A live sample of a closed minute reaches its minute row, unless it is
\* replaced or deleted first or the store goes down before.
SamplesReachRows ==
  \A i \in Ids :
    (i \in live /\ i > base /\ Minute(log[i].ts) < Minute(MaxNow)) ~>
      (i \notin live \/ ~open \/ i \in rows[1][CellOf(log[i])])

\* The ledger this store keeps: `shown' is what a query of the minute tier counts.
Ledger == INSTANCE SeriesLedger WITH
            up <- open, shown <- [c \in Cell |-> Visible(c)]

\* The write path implements the ledger: every flush, failed flush, pruning and
\* seal leaves what is shown unchanged, and a write changes exactly what it
\* accepts, replaces and (in a minute older than the running store) forgets.
ImplementsLedger == Ledger!Spec

\* Every parent that falls due before the clock's bound is sealed, also when
\* its series stops reporting (FlushCoarse's comment, coarse_rollup.go:321).
ParentsSeal ==
  \A l \in 1..(Len(Interval) - 1), c \in Cell :
    (pend[l][c] # {} /\ Due(l + 1, BucketOf(l + 1, c), MaxNow)) ~> pend[l][c] = {}

=============================================================================
