------------------------- MODULE MetricRollupProofs -------------------------
(***************************************************************************)
(* Theorems about MetricRollup, for every number of labels, tiers, ticks   *)
(* and samples: its type invariant, that nothing deleted comes back, that  *)
(* no sample is ever counted twice, that every minute shows exactly its    *)
(* live samples, that it implements SeriesLedger, and when a sealed parent *)
(* may be written again.                                                   *)
(***************************************************************************)
EXTENDS MetricRollup, TLAPS, WellFoundedInduction

-----------------------------------------------------------------------------
(* Division and buckets *)

\* Integer division as a pair of inequalities.
LEMMA DivFact ==
  ASSUME NEW n \in Int, NEW d \in Nat \ {0}
  PROVE  n \div d \in Int /\ d * (n \div d) <= n /\ n < d * (n \div d) + d
OBVIOUS

\* Multiples of d are at least d apart.
LEMMA MultiplesApart ==
  ASSUME NEW a \in Int, NEW b \in Int, NEW d \in Nat \ {0}, a < b
  PROVE  d * a + d <= d * b
OBVIOUS

\* Division is monotone in the dividend.
LEMMA DivMono ==
  ASSUME NEW m \in Int, NEW n \in Int, NEW d \in Nat \ {0}, m <= n
  PROVE  m \div d <= n \div d
<1> SUFFICES ASSUME n \div d < m \div d PROVE FALSE  BY DivFact
<1>1. d * (n \div d) + d <= d * (m \div d)  BY MultiplesApart, DivFact
<1> QED BY <1>1, DivFact

\* The quotient is the only integer between those inequalities.
LEMMA DivUnique ==
  ASSUME NEW n \in Int, NEW d \in Nat \ {0}, NEW q \in Int, d * q <= n, n < d * q + d
  PROVE  n \div d = q
<1>1. ~(n \div d < q)
  <2> SUFFICES ASSUME n \div d < q PROVE FALSE  OBVIOUS
  <2>1. d * (n \div d) + d <= d * q  BY MultiplesApart, DivFact
  <2> QED BY <2>1, DivFact
<1>2. ~(q < n \div d)
  <2> SUFFICES ASSUME q < n \div d PROVE FALSE  OBVIOUS
  <2>1. d * q + d <= d * (n \div d)  BY MultiplesApart, DivFact
  <2> QED BY <2>1, DivFact
<1> QED BY <1>1, <1>2, DivFact

\* Rounding to a multiple of a first does not change the quotient by a
\* multiple of a: a coarser bucket is a union of finer ones.
LEMMA DivNested ==
  ASSUME NEW m \in Int, NEW a \in Int, NEW k \in Int, NEW b \in Int, NEW r \in Int,
         a > 0, k > 0, b > 0
  PROVE  b = a * k /\ r = (m \div a) * a => r \div b = m \div b
<1>1. PICK q \in Int : q = m \div b /\ b * q <= m /\ m < b * q + b  BY DivFact
<1>2. PICK p \in Int : p = m \div a /\ a * p <= m /\ m < a * p + a  BY DivFact
<1>3. PICK s \in Int : s = k * q  OBVIOUS
<1>4. p < s => a * p + a <= a * s  BY MultiplesApart
<1>5. s < p => a * s + a <= a * p  BY MultiplesApart
<1>6. b * q <= r /\ r < b * q + b => r \div b = q  BY DivUnique
<1>7. SUFFICES ASSUME b = a * k, r = (m \div a) * a
               PROVE  r \div b = m \div b
  OBVIOUS
<1>8. b * q = a * s  BY <1>3, <1>7
<1>9. r = a * p  BY <1>2, <1>7
<1> HIDE <1>7
<1> QED BY <1>1, <1>2, <1>4, <1>5, <1>6, <1>8, <1>9

-----------------------------------------------------------------------------
(* Samples, cells and buckets *)

\* A sample taken while the clock runs belongs to a minute bucket of the model.
LEMMA CellOfType ==
  ASSUME NEW s \in Sample
  PROVE  CellOf(s) \in Cell
<1>1. s.ts \in Int /\ 0 <= s.ts /\ s.ts <= MaxNow /\ MaxNow \in Int /\ s.label \in Labels
  BY RollupAssumption DEF Sample, Time
<1>2. TicksPerMinute \in Nat \ {0}  BY RollupAssumption
<1>3. 0 \div TicksPerMinute = 0  BY <1>2, DivUnique
<1>4. 0 <= Minute(s.ts) /\ Minute(s.ts) <= Minute(MaxNow)
  BY <1>1, <1>2, <1>3, DivMono DEF Minute
<1>5. Minute(s.ts) \in Int /\ Minute(MaxNow) \in Int
  BY <1>1, <1>2, DivFact DEF Minute
<1> QED BY <1>1, <1>4, <1>5 DEF CellOf, Cell

\* A batch appended to the log: its ids are fresh, the older samples stay.
LEMMA LogGrows ==
  ASSUME log \in Seq(Sample), NEW batch \in Batches, NEW lg, lg = log \o batch
  PROVE  /\ lg \in Seq(Sample) /\ Len(lg) \in Nat /\ Len(log) \in Nat
         /\ Len(log) < Len(lg)
         /\ \A i \in 1..Len(log) : lg[i] = log[i]
         /\ \A i \in 1..Len(lg) : lg[i] \in Sample
<1>1. PICK n \in 1..MaxBatch : batch \in [1..n -> {s \in Sample : s.ts <= now}]
  BY DEF Batches
<1>2. n \in Nat /\ n >= 1  BY RollupAssumption
<1>3. batch \in Seq(Sample) /\ Len(batch) = n
  BY <1>1, <1>2
<1> QED BY <1>2, <1>3

-----------------------------------------------------------------------------
(* Buckets of coarser tiers *)

\* A tier's interval is a multiple of the next finer one's.
LEMMA Multiple ==
  ASSUME NEW n \in Nat \ {0}, NEW d \in Nat \ {0}, n % d = 0
  PROVE  \E k \in Nat \ {0} : n = d * k
<1>1. n = d * (n \div d) + (n % d)  OBVIOUS
<1>2. n \div d \in Int  OBVIOUS
<1>3. PICK k \in Int : k = n \div d  BY <1>2
<1>4. n = d * k  BY <1>1, <1>3
<1>5. k > 0  BY <1>4
<1> QED BY <1>4, <1>5

LEMMA IntervalType ==
  ASSUME NEW l \in Tiers
  PROVE  /\ Interval[l] \in Nat \ {0}
         /\ l # 1 => /\ l - 1 \in Tiers
                     /\ \E k \in Nat \ {0} : Interval[l] = Interval[l - 1] * k
<1>1. l \in 1..Len(Interval) /\ Len(Interval) \in Nat  BY RollupAssumption DEF Tiers
<1>2. \A k \in Tiers : Interval[k] \in Nat \ {0}  BY RollupAssumption DEF Tiers
<1>3. ASSUME l # 1
      PROVE  l - 1 \in Tiers /\ \E k \in Nat \ {0} : Interval[l] = Interval[l - 1] * k
  <2>1. l - 1 \in 1..(Len(Interval) - 1) /\ l - 1 \in Tiers /\ (l - 1) + 1 = l
    BY <1>1, <1>3 DEF Tiers
  <2>2. Interval[l] % Interval[l - 1] = 0  BY <2>1, RollupAssumption
  <2> QED BY <2>1, <2>2, <1>2, Multiple
<1> QED BY <1>2, <1>3

\* The minute of a cell, as a number.
LEMMA CellMinute ==
  ASSUME NEW c \in Cell
  PROVE  c.minute \in Nat /\ c.minute <= Minute(MaxNow) /\ Minute(MaxNow) \in Int
         /\ c = [minute |-> c.minute, label |-> c.label] /\ c.label \in Labels
<1>1. Minute(MaxNow) \in Int  BY RollupAssumption, DivFact DEF Minute
<1> QED BY <1>1 DEF Cell

\* Buckets of the minute tier are the minutes themselves.
LEMMA BucketOfMinute ==
  ASSUME NEW c \in Cell
  PROVE  BucketOf(1, c) = c
<1>1. Interval[1] = 1  BY RollupAssumption
<1>2. (c.minute \div 1) * 1 = c.minute  BY CellMinute, DivUnique
<1> QED BY <1>1, <1>2, CellMinute DEF BucketOf

\* The bucket of a finer tier's bucket is the bucket of the minute itself.
LEMMA BucketNested ==
  ASSUME NEW l \in Tiers, l # 1, NEW c \in Cell
  PROVE  BucketOf(l, BucketOf(l - 1, c)) = BucketOf(l, c)
<1>1. PICK m \in Nat : m = c.minute  BY CellMinute
<1>2. PICK a \in Int, b \in Int, k \in Int :
        /\ a = Interval[l - 1] /\ b = Interval[l] /\ a > 0 /\ b > 0 /\ k > 0
        /\ b = a * k
  BY IntervalType
<1>3. PICK r \in Int : r = (m \div a) * a  BY <1>1, <1>2
<1>4. /\ m \in Int /\ a \in Int /\ k \in Int /\ b \in Int /\ r \in Int
      /\ a > 0 /\ k > 0 /\ b > 0 /\ b = a * k /\ r = (m \div a) * a
  BY <1>1, <1>2, <1>3
<1>5. r \div b = m \div b  BY <1>4, DivNested
<1>6. BucketOf(l - 1, c) = [minute |-> r, label |-> c.label]
  BY <1>1, <1>2, <1>3, CellMinute DEF BucketOf
<1>7. DEFINE f == BucketOf(l - 1, c)
<1>8. BucketOf(l, f) = [minute |-> (r \div b) * b, label |-> c.label]
  <2>1. BucketOf(l, f) = [f EXCEPT !.minute = (f.minute \div b) * b]
    BY <1>2 DEF BucketOf
  <2>2. f = [minute |-> r, label |-> c.label]  BY <1>6
  <2> HIDE DEF f
  <2> QED BY <2>1, <2>2
<1>9. BucketOf(l, c) = [minute |-> (m \div b) * b, label |-> c.label]
  BY <1>1, <1>2, CellMinute DEF BucketOf
<1> QED BY <1>5, <1>8, <1>9

LEMMA BucketType ==
  ASSUME NEW l \in Tiers, NEW c \in Cell
  PROVE  BucketOf(l, c) \in Cell
<1> DEFINE d == Interval[l]
           m == c.minute
<1>1. d \in Nat \ {0} /\ m \in Nat  BY IntervalType, CellMinute
<1> HIDE DEF d, m
<1>2. PICK q \in Int : q = m \div d /\ d * q <= m /\ m < d * q + d  BY <1>1, DivFact
<1>3. 0 <= d * q /\ d * q = q * d
  <2>1. q >= 0
    <3>1. q < 0 => d * q + d <= d * 0  BY <1>1, MultiplesApart
    <3> QED BY <3>1, <1>1, <1>2
  <2> QED BY <2>1, <1>1
<1>4. (m \div d) * d \in 0..m
  BY <1>1, <1>2, <1>3
<1> USE DEF d, m
<1> QED BY <1>4, CellMinute DEF BucketOf, Cell

-----------------------------------------------------------------------------
(* The type invariant *)

LEMMA InitType == Init => TypeOK
<1> SUFFICES ASSUME Init PROVE TypeOK  OBVIOUS
<1> USE DEF Init
<1>1. now \in Time  BY RollupAssumption DEF Time
<1>2. log \in Seq(Sample) /\ Len(log) = 0 /\ Len(log) <= MaxSamples
  BY RollupAssumption
<1>3. Empty \in [Cell -> SUBSET Ids]  BY DEF Empty
<1>4. op \in [phase : {"idle", "hot", "coarse"}, by : {"none", "write", "compact"}, t : Time]
  BY <1>1 DEF NoOp
<1>5. comp \in [stage : {"idle", "waiting", "flushing", "flushed", "sealing"}, t : Time]
  BY <1>1 DEF NoComp
<1> QED BY <1>1, <1>2, <1>3, <1>4, <1>5 DEF TypeOK

\* The call that ends leaves a well-formed lock and compaction behind.
LEMMA ReturnType ==
  ASSUME TypeOK, NEW stage \in {"idle", "flushed"}, Return(stage)
  PROVE  /\ op' \in [phase : {"idle", "hot", "coarse"}, by : {"none", "write", "compact"}, t : Time]
         /\ comp' \in [stage : {"idle", "waiting", "flushing", "flushed", "sealing"}, t : Time]
<1>1. 0 \in Time  BY RollupAssumption DEF Time
<1>2. op' = NoOp  BY DEF Return
<1>3. comp' \in {comp, NoComp, [comp EXCEPT !.stage = stage]}  BY DEF Return
<1> QED BY <1>1, <1>2, <1>3 DEF TypeOK, NoOp, NoComp

\* The operators that compute bucket tables compute bucket tables.
LEMMA TableTypes ==
  ASSUME TypeOK, NEW cells, NEW t
  PROVE  /\ MinuteRows(cells) \in [Cell -> SUBSET Ids]
         /\ Children(cells, t) \in [Cell -> SUBSET Ids]
         /\ HotWithout(cells) \in [Cell -> SUBSET Ids]
         /\ Empty \in [Cell -> SUBSET Ids]
<1>1. 1 \in Tiers  BY RollupAssumption DEF Tiers
<1>2. rows[1] \in [Cell -> SUBSET Ids] /\ pend[1] \in [Cell -> SUBSET Ids]
  BY <1>1 DEF TypeOK
<1>3. hot \in [Cell -> SUBSET Ids]  BY DEF TypeOK
<1>4. \A c \in Cell : rows[1][c] \subseteq Ids /\ pend[1][c] \subseteq Ids /\ hot[c] \subseteq Ids
  BY <1>2, <1>3
<1>5. MinuteRows(cells) \in [Cell -> SUBSET Ids]  BY <1>4 DEF MinuteRows
<1>6. Children(cells, t) \in [Cell -> SUBSET Ids]  BY <1>4 DEF Children
<1>7. HotWithout(cells) \in [Cell -> SUBSET Ids]  BY <1>4 DEF HotWithout
<1>8. Empty \in [Cell -> SUBSET Ids]  BY DEF Empty
<1> QED BY <1>5, <1>6, <1>7, <1>8

LEMMA WriteBatchType ==
  ASSUME TypeOK, NEW batch \in Batches, WriteBatch(batch)
  PROVE  TypeOK'
<1> DEFINE lg       == log \o batch
           new      == (Len(log) + 1)..Len(lg)
           kept     == KeptRaw(now)
           exact    == {i \in new : Minute(lg[i].ts) >= RawCut(now)}
           replaced == Replaced(lg, exact, kept)
           rebuild  == {CellOf(lg[i]) : i \in replaced \cup LateOrReplacing(lg, exact, kept)}
<1>1. /\ log' = lg /\ Len(lg) <= MaxSamples
      /\ raw' = (kept \ replaced) \cup exact
      /\ live' \subseteq live \cup new
      /\ hot' = HotAfter(lg, new, raw', rebuild)
      /\ replace' = replace \cup rebuild
      /\ op' = [phase |-> "hot", by |-> "write", t |-> now]
      /\ open /\ UNCHANGED <<now, open, base, cut, purged, withheld, outrun, rows, pend, comp>>
  BY DEF WriteBatch
<1>2. /\ lg \in Seq(Sample) /\ Len(lg) \in Nat /\ Len(log) \in Nat
      /\ Len(log) < Len(lg) /\ \A i \in 1..Len(lg) : lg[i] \in Sample
  BY LogGrows DEF TypeOK
<1>3. kept \subseteq raw /\ replaced \subseteq kept /\ exact \subseteq new
  BY DEF KeptRaw, Replaced
<1>4. \A i \in rebuild : \E j \in replaced \cup exact : i = CellOf(lg[j])
  BY DEF LateOrReplacing
<1> HIDE DEF lg, kept, exact, replaced, rebuild
<1>5. /\ raw \subseteq 1..Len(log) /\ live \subseteq 1..Len(log)
      /\ base \in 0..Len(log) /\ cut \in 0..Len(log) /\ purged \in 0..cut /\ now \in Time
      /\ hot \in [Cell -> SUBSET Ids] /\ replace \subseteq Cell
  BY DEF TypeOK
<1>6. 1..Len(log) \subseteq 1..Len(lg) /\ new \subseteq 1..Len(lg) /\ 1..Len(lg) \subseteq Ids
  BY <1>1, <1>2, RollupAssumption DEF Ids
<1>7. base \in 0..Len(lg) /\ cut \in 0..Len(lg)  BY <1>2, <1>5
<1> HIDE DEF new
<1>8. raw' \subseteq 1..Len(lg) /\ live' \subseteq 1..Len(lg)
  BY <1>1, <1>3, <1>5, <1>6
<1>9. replace' \subseteq Cell
  <2>1. rebuild \subseteq Cell  BY <1>2, <1>3, <1>4, <1>5, <1>6, CellOfType
  <2> QED BY <2>1, <1>1, <1>5
<1>10. hot' \in [Cell -> SUBSET Ids]
  <2>1. \A c \in Cell : hot[c] \subseteq Ids  BY <1>5
  <2> QED BY <2>1, <1>1, <1>6, <1>8 DEF HotAfter
<1>11. op' \in [phase : {"idle", "hot", "coarse"}, by : {"none", "write", "compact"}, t : Time]
  BY <1>1, <1>5
<1> QED BY <1>1, <1>2, <1>7, <1>8, <1>9, <1>10, <1>11 DEF TypeOK

LEMMA PersistHotType ==
  ASSUME TypeOK, PersistHot
  PROVE  TypeOK'
<1> DEFINE closed == ClosedCells(op.t)
<1>1. /\ rows' = [rows EXCEPT ![1] = MinuteRows(closed)]
      /\ pend' = [pend EXCEPT ![1] = Children(closed, op.t)]
      /\ hot' = HotWithout(closed)
      /\ replace' = replace \ closed
      /\ withheld' = withheld \cup UNION {hot[c] : c \in {d \in closed : ParentDue(d, op.t)}}
      /\ UNCHANGED <<now, open, log, base, cut, purged, live, outrun, raw>>
      /\ op.phase = "hot"
  BY DEF PersistHot
<1>2. closed \subseteq Cell  BY DEF ClosedCells
<1> HIDE DEF closed
<1>3. rows' \in [Tiers -> [Cell -> SUBSET Ids]] /\ pend' \in [Tiers -> [Cell -> SUBSET Ids]]
  BY <1>1, TableTypes DEF TypeOK
<1>4. withheld' \subseteq Ids
  <2>1. \A c \in Cell : hot[c] \subseteq Ids  BY DEF TypeOK
  <2>2. withheld \subseteq Ids  BY DEF TypeOK
  <2> QED BY <1>1, <1>2, <2>1, <2>2
<1>5. /\ op' \in [phase : {"idle", "hot", "coarse"}, by : {"none", "write", "compact"}, t : Time]
      /\ comp' \in [stage : {"idle", "waiting", "flushing", "flushed", "sealing"}, t : Time]
  <2>1. CASE op' = [op EXCEPT !.phase = "coarse"] /\ comp' = comp
    BY <2>1 DEF TypeOK
  <2>2. CASE Return("flushed")  BY <2>2, ReturnType
  <2> QED BY <2>1, <2>2 DEF PersistHot
<1>6. open
  BY <1>1 DEF TypeOK, NoOp
<1> QED BY <1>1, <1>3, <1>4, <1>5, <1>6, TableTypes DEF TypeOK

\* Whatever a tier merges is a set of sample ids.
LEMMA MergedType ==
  ASSUME TypeOK, NEW l \in Tiers \ {1}, NEW p \in Cell
  PROVE  Merged(l, p) \subseteq Ids
<1>1. l - 1 \in Tiers  BY RollupAssumption DEF Tiers
<1> QED BY <1>1 DEF Merged, TypeOK

LEMMA SealType ==
  ASSUME TypeOK, PersistCoarse
  PROVE  TypeOK'
<1>1. PICK l \in Tiers \ {1} : Seal(l) /\ outrun' = outrun \cup Overtaken(l)
  BY DEF PersistCoarse, DueTiers
<1>2. UNCHANGED <<now, open, log, base, cut, purged, live, withheld, raw, hot, replace, op, comp>>
  BY DEF PersistCoarse
<1>3. rows' \in [Tiers -> [Cell -> SUBSET Ids]]
  <2> DEFINE row == [p \in Cell |-> IF p \in DueParents(l, op.t) THEN Merged(l, p)
                                                                ELSE rows[l][p]]
  <2>1. rows' = [rows EXCEPT ![l] = row]  BY <1>1 DEF Seal
  <2>2. row \in [Cell -> SUBSET Ids]  BY <1>1, MergedType DEF TypeOK
  <2> HIDE DEF row
  <2> QED BY <2>1, <2>2 DEF TypeOK
<1>4. pend' \in [Tiers -> [Cell -> SUBSET Ids]]
  <2>1. \A k \in Tiers, c \in Cell : pend[k][c] \subseteq Ids  BY DEF TypeOK
  <2>2. \A c \in Cell : Merged(l, c) \subseteq Ids  BY MergedType
  <2> QED BY <1>1, <2>1, <2>2 DEF Seal
<1>5. outrun' \subseteq Tiers \X Cell
  <2>1. Overtaken(l) \subseteq Tiers \X Cell  BY BucketType DEF Overtaken, DueParents
  <2> QED BY <1>1, <2>1 DEF TypeOK
<1> QED BY <1>2, <1>3, <1>4, <1>5 DEF TypeOK

LEMMA ForgottenType ==
  ASSUME TypeOK, ForgetMemory
  PROVE  /\ raw' \subseteq 1..Len(log) /\ replace' \subseteq Cell
         /\ hot' \in [Cell -> SUBSET Ids] /\ pend' \in [Tiers -> [Cell -> SUBSET Ids]]
         /\ raw' = {} /\ hot' = Empty /\ replace' = {}
BY TableTypes DEF ForgetMemory

LEMMA DownType ==
  ASSUME TypeOK, Close \/ Crash
  PROVE  TypeOK'
<1>1. ForgetMemory /\ ~open' /\ UNCHANGED <<now, log, base, cut, purged, live, withheld, outrun>>
  BY DEF Close, Crash, history
<1>2. rows' \in [Tiers -> [Cell -> SUBSET Ids]]
  <2>1. CASE rows' = rows  BY <2>1 DEF TypeOK
  <2>2. CASE rows' = [rows EXCEPT ![1] = MinuteRows(Cell)]
    BY <2>2, TableTypes DEF TypeOK
  <2> QED BY <2>1, <2>2 DEF Close, Crash
<1>3. /\ op' \in [phase : {"idle", "hot", "coarse"}, by : {"none", "write", "compact"}, t : Time]
      /\ comp' \in [stage : {"idle", "waiting", "flushing", "flushed", "sealing"}, t : Time]
      /\ op'.phase = "idle"
  <2>1. CASE Close  BY <2>1 DEF Close, TypeOK
  <2>2. CASE Crash
    <3>1. 0 \in Time  BY RollupAssumption DEF Time
    <3> QED BY <2>2, <3>1 DEF Crash, NoOp, NoComp
  <2> QED BY <2>1, <2>2
<1>4. /\ raw' \subseteq 1..Len(log) /\ replace' \subseteq Cell
      /\ hot' \in [Cell -> SUBSET Ids] /\ pend' \in [Tiers -> [Cell -> SUBSET Ids]]
      /\ raw' = {} /\ hot' = Empty' /\ replace' = {}
  BY <1>1, ForgottenType DEF Empty
<1>5. UNCHANGED <<now, log, base, cut, purged, live, withheld, outrun>> /\ open' = FALSE
  BY DEF Close, Crash, history
<1> QED BY <1>2, <1>3, <1>4, <1>5 DEF TypeOK

\* Every step of the write path keeps the type invariant.
LEMMA TypeStep ==
  ASSUME TypeOK, [Next]_vars
  PROVE  TypeOK'
<1>1. CASE Tick
  <2>1. now' \in Time  BY <1>1, RollupAssumption DEF Tick, Time, TypeOK
  <2>2. UNCHANGED <<open, history, memory, rows, op, comp>>  BY <1>1 DEF Tick
  <2> QED BY <2>1, <2>2 DEF TypeOK, history, memory
<1>2. ASSUME NEW b \in Batches, WriteBatch(b) PROVE TypeOK'
  BY <1>2, WriteBatchType
<1>3. CASE CompactStart  BY <1>3 DEF CompactStart, TypeOK, history, memory
<1>4. CASE Flush
  <2>1. raw' \subseteq 1..Len(log)  BY <1>4 DEF Flush, KeptRaw, TypeOK
  <2> QED BY <1>4, <2>1 DEF Flush, TypeOK, history
<1>5. CASE FlushCoarse  BY <1>5 DEF FlushCoarse, TypeOK, history, memory
<1>6. CASE PersistHot  BY <1>6, PersistHotType
<1>7. CASE PersistHotFails \/ PersistCoarseFails \/ CoarseDone
  <2>1. /\ Return("idle") /\ op'.phase = "idle"
        /\ UNCHANGED <<now, open, log, base, cut, purged, live, withheld, outrun, raw, hot, replace, pend, rows>>
    BY <1>7 DEF PersistHotFails, PersistCoarseFails, CoarseDone, history, memory, Return, NoOp
  <2> QED BY <2>1, ReturnType DEF TypeOK
<1>8. CASE PersistCoarse  BY <1>8, SealType
<1>9. CASE Close \/ Crash  BY <1>9, DownType
<1>10. CASE Open
  <2>1. base' \in 0..Len(log)  BY <1>10 DEF Open, TypeOK
  <2> QED BY <1>10, <2>1 DEF Open, TypeOK, memory
<1>11. CASE DeleteSeries \/ DeleteBefore
  <2>1. /\ raw' = {} /\ hot' = Empty /\ replace' = {} /\ live' = {}
        /\ cut' = Len(log) /\ purged' \in {purged, Len(log)} /\ rows' = [l \in Tiers |-> Empty]
        /\ UNCHANGED <<now, open, log, base, withheld, outrun, op, comp>> /\ open
    BY <1>11 DEF DeleteSeries, DeleteBefore, ForgetMemory
  <2>2. cut' \in 0..Len(log) /\ purged' \in 0..cut'
    BY <2>1 DEF TypeOK
  <2>3. rows' \in [Tiers -> [Cell -> SUBSET Ids]] /\ hot' \in [Cell -> SUBSET Ids]
    BY <2>1, TableTypes
  <2>4. pend' \in [Tiers -> [Cell -> SUBSET Ids]]
    BY <1>11, ForgottenType DEF DeleteSeries, DeleteBefore, TypeOK
  <2> QED BY <2>1, <2>2, <2>3, <2>4 DEF TypeOK
<1>12. CASE UNCHANGED vars  BY <1>12 DEF vars, history, memory, TypeOK
<1> QED BY <1>1, <1>2, <1>3, <1>4, <1>5, <1>6, <1>7, <1>8, <1>9, <1>10, <1>11, <1>12
    DEF Next

\* The write path never leaves its state space: buckets of every tier hold ids of
\* accepted samples and a closed store holds nothing in memory.
THEOREM TypeCorrect == Spec => []TypeOK
BY InitType, TypeStep, PTL DEF Spec

-----------------------------------------------------------------------------
(* Where a step takes the samples of each bucket from *)

\* A write puts its fresh samples and those still raw into memory, no others.
LEMMA WriteSources ==
  ASSUME TypeOK, NEW batch \in Batches, WriteBatch(batch)
  PROVE  /\ raw' \subseteq raw \cup (Len(log) + 1)..Len(log')
         /\ \A c \in Cell : hot'[c] \subseteq hot[c] \cup raw \cup (Len(log) + 1)..Len(log')
         /\ Len(log) \in Nat /\ Len(log') \in Nat
         /\ \A i \in 1..Len(log) : log'[i] = log[i]
         /\ Len(log) < Len(log')
         /\ UNCHANGED <<base, cut, purged, rows, pend>>
<1>1. /\ log' = log \o batch
      /\ \E rebuild : hot' = HotAfter(log', (Len(log) + 1)..Len(log'), raw', rebuild)
      /\ UNCHANGED <<base, cut, purged, rows, pend>>
  BY DEF WriteBatch
<1>2. raw' \subseteq raw \cup (Len(log) + 1)..Len(log')
  BY DEF WriteBatch, KeptRaw
<1>3. \A c \in Cell : hot'[c] \subseteq hot[c] \cup raw' \cup (Len(log) + 1)..Len(log')
  BY <1>1 DEF HotAfter
<1>4. /\ Len(log) \in Nat /\ Len(log') \in Nat /\ Len(log) < Len(log')
      /\ \A i \in 1..Len(log) : log'[i] = log[i]
  BY <1>1, LogGrows DEF TypeOK
<1> QED BY <1>1, <1>2, <1>3, <1>4

\* Persisting minute buckets moves samples from memory to the minute rows and the
\* children of their parents, bucket by bucket.
LEMMA PersistSources ==
  ASSUME TypeOK, PersistHot
  PROVE  /\ \A c \in Cell : /\ hot'[c] \subseteq hot[c]
                            /\ rows'[1][c] \subseteq rows[1][c] \cup hot[c]
                            /\ pend'[1][c] \subseteq pend[1][c] \cup hot[c]
         /\ \A l \in Tiers \ {1} : rows'[l] = rows[l] /\ pend'[l] = pend[l]
         /\ UNCHANGED <<log, base, cut, purged, live, raw, now, open>>
<1>1. 1 \in Tiers  BY RollupAssumption DEF Tiers
<1>2. rows'[1] = MinuteRows(ClosedCells(op.t)) /\ pend'[1] = Children(ClosedCells(op.t), op.t)
  BY <1>1 DEF PersistHot, TypeOK
<1>3. hot' = HotWithout(ClosedCells(op.t))  BY DEF PersistHot
<1>4. \A l \in Tiers \ {1} : rows'[l] = rows[l] /\ pend'[l] = pend[l]
  BY DEF PersistHot, TypeOK
<1> QED BY <1>2, <1>3, <1>4 DEF MinuteRows, Children, HotWithout, PersistHot

\* Sealing moves samples of one tier's children into their parents.
LEMMA SealSources ==
  ASSUME TypeOK, NEW l \in Tiers \ {1}, Seal(l)
  PROVE  \A k \in Tiers, c \in Cell :
           /\ rows'[k][c] \subseteq rows[k][c] \cup (IF k = l THEN Merged(l, c) ELSE {})
           /\ pend'[k][c] \subseteq pend[k][c] \cup (IF k = l THEN Merged(l, c) ELSE {})
<1> SUFFICES ASSUME NEW k \in Tiers, NEW c \in Cell
             PROVE  /\ rows'[k][c] \subseteq rows[k][c] \cup (IF k = l THEN Merged(l, c) ELSE {})
                    /\ pend'[k][c] \subseteq pend[k][c] \cup (IF k = l THEN Merged(l, c) ELSE {})
  OBVIOUS
<1> DEFINE row == [p \in Cell |-> IF p \in DueParents(l, op.t) THEN Merged(l, p)
                                                              ELSE rows[l][p]]
<1>1. rows' = [rows EXCEPT ![l] = row]  BY DEF Seal
<1>2. row[c] \subseteq rows[l][c] \cup Merged(l, c)  OBVIOUS
<1> HIDE DEF row
<1>3. rows'[k][c] \subseteq rows[k][c] \cup (IF k = l THEN Merged(l, c) ELSE {})
  BY <1>1, <1>2 DEF TypeOK
<1>4. pend'[k][c] \subseteq pend[k][c] \cup (IF k = l THEN Merged(l, c) ELSE {})
  BY DEF Seal
<1> QED BY <1>3, <1>4

\* Closing and crashing forget the memory; only Close may store it first.
LEMMA DownSources ==
  ASSUME TypeOK, Close \/ Crash
  PROVE  /\ raw' = {} /\ \A c \in Cell, l \in Tiers : hot'[c] = {} /\ pend'[l][c] = {}
         /\ \A c \in Cell : rows'[1][c] \subseteq rows[1][c] \cup hot[c]
         /\ \A l \in Tiers \ {1} : rows'[l] = rows[l]
         /\ replace' = {} /\ UNCHANGED <<log, base, cut, purged, live, now>> /\ ~open'
<1>1. ForgetMemory /\ UNCHANGED <<log, base, cut, purged, live, now>> /\ ~open'
  BY DEF Close, Crash, history
<1>2. 1 \in Tiers  BY RollupAssumption DEF Tiers
<1>3. rows' = rows \/ rows' = [rows EXCEPT ![1] = MinuteRows(Cell)]  BY DEF Close, Crash
<1>4. \A l \in Tiers \ {1} : rows'[l] = rows[l]  BY <1>3 DEF TypeOK
<1>5. rows'[1] = rows[1] \/ rows'[1] = MinuteRows(Cell)  BY <1>2, <1>3 DEF TypeOK
<1>6. \A c \in Cell : rows'[1][c] \subseteq rows[1][c] \cup hot[c]
  BY <1>5 DEF MinuteRows
<1> QED BY <1>1, <1>4, <1>6 DEF ForgetMemory, Empty

-----------------------------------------------------------------------------
(* What was deleted stays deleted *)

LEMMA DeletedStep ==
  ASSUME TypeOK, DeletedStaysDeleted, [Next]_vars
  PROVE  DeletedStaysDeleted'
<1> SUFFICES ASSUME NEW c \in Cell, NEW l \in Tiers, NEW i
             PROVE  /\ i \in raw' \cup hot'[c] \cup rows'[1][c] => i > cut'
                    /\ i \in rows'[l][c] \cup pend'[l][c] => i > purged'
  BY RollupAssumption DEF Tiers, DeletedStaysDeleted
<1> DEFINE Later == /\ i \in raw' \cup hot'[c] \cup rows'[1][c] => i > cut'
                    /\ i \in rows'[l][c] \cup pend'[l][c] => i > purged'
<1>1. /\ 1 \in Tiers /\ Len(log) \in Nat
      /\ cut \in Int /\ cut <= Len(log) /\ purged \in Int /\ purged <= cut
  BY RollupAssumption DEF Tiers, TypeOK
<1>2. \A d \in Cell : \A j \in raw \cup hot[d] \cup rows[1][d] : j > cut
  BY DEF DeletedStaysDeleted
<1>3. \A k \in Tiers, d \in Cell : \A j \in rows[k][d] \cup pend[k][d] : j > purged
  BY DEF DeletedStaysDeleted
<1>4. \A d \in Cell : \A j \in raw \cup hot[d] : j > purged
  <2>1. \A d \in Cell : \A j \in raw \cup hot[d] : j \in Int
    BY <1>1 DEF TypeOK, Ids
  <2> QED BY <1>1, <1>2, <2>1
<1>5. \A k \in Tiers \ {1}, d \in Cell : \A j \in Merged(k, d) : j > purged
  <2>1. \A k \in Tiers \ {1} : k - 1 \in Tiers  BY RollupAssumption DEF Tiers
  <2> QED BY <1>3, <2>1 DEF Merged
<1>6. ASSUME NEW b \in Batches, WriteBatch(b) PROVE Later
  BY <1>1, <1>2, <1>3, <1>4, <1>6, WriteSources
<1>7. CASE PersistHot  BY <1>1, <1>2, <1>3, <1>4, <1>7, PersistSources
<1>8. CASE PersistCoarse
  <2>1. PICK k \in Tiers \ {1} : Seal(k)  BY <1>8 DEF PersistCoarse, DueTiers
  <2>2. UNCHANGED <<raw, hot, cut, purged>>  BY <1>8 DEF PersistCoarse, history
  <2> QED BY <1>1, <1>2, <1>3, <1>5, <2>1, <2>2, SealSources
<1>9. CASE Close \/ Crash
  <2>1. rows'[l] = rows[l] \/ l = 1  BY <1>9, DownSources
  <2> QED BY <1>1, <1>2, <1>3, <1>4, <1>9, <2>1, DownSources
<1>10. CASE DeleteSeries \/ DeleteBefore
  <2>1. raw' = {} /\ hot'[c] = {} /\ rows'[l][c] = {} /\ rows'[1][c] = {}
    BY <1>1, <1>10 DEF DeleteSeries, DeleteBefore, ForgetMemory, Empty
  <2>2. pend'[l][c] = {} \/ UNCHANGED <<pend, purged>>
    BY <1>10 DEF DeleteSeries, DeleteBefore, ForgetMemory, Empty
  <2> QED BY <1>3, <2>1, <2>2
<1>11. CASE Flush  BY <1>2, <1>3, <1>11 DEF Flush, KeptRaw, history
<1>12. CASE \/ Tick \/ CompactStart \/ FlushCoarse \/ PersistHotFails \/ PersistCoarseFails
            \/ CoarseDone \/ Open \/ UNCHANGED vars
  <2>1. UNCHANGED <<raw, hot, rows, pend, cut, purged>>
    BY <1>12 DEF Tick, CompactStart, FlushCoarse, PersistHotFails, PersistCoarseFails,
                 CoarseDone, Open, vars, history, memory
  <2> QED BY <1>2, <1>3, <2>1
<1> QED BY <1>6, <1>7, <1>8, <1>9, <1>10, <1>11, <1>12 DEF Next

\* Nothing a deletion covered is ever found again in any buffer it reaches, or in a
\* row fed from one, through every interleaving of writes, flushes and restarts.
THEOREM DeletedForGood == Spec => []DeletedStaysDeleted
<1>1. Init => DeletedStaysDeleted
  BY RollupAssumption DEF Init, DeletedStaysDeleted, Empty, Tiers
<1> QED BY <1>1, TypeCorrect, DeletedStep, PTL DEF Spec

-----------------------------------------------------------------------------
(* No sample is counted twice *)

LEMMA WriteOwn ==
  ASSUME TypeOK, NoDoubleCount, NEW batch \in Batches, WriteBatch(batch)
  PROVE  NoDoubleCount'
<1> DEFINE new == (Len(log) + 1)..Len(log')
<1>1. PICK rebuild : hot' = HotAfter(log', new, raw', rebuild) /\ replace' = replace \cup rebuild
  BY DEF WriteBatch
<1>2. /\ Len(log) \in Nat /\ Len(log') \in Nat /\ Len(log) < Len(log')
      /\ \A i \in 1..Len(log) : log'[i] = log[i]
      /\ UNCHANGED <<rows, pend>>
  BY WriteSources
<1>3. raw' \subseteq 1..Len(log') /\ new \subseteq 1..Len(log')
      /\ 1..Len(log) \subseteq 1..Len(log')
  BY <1>2, WriteBatchType DEF TypeOK
<1>4. /\ \A c \in Cell : \A i \in hot[c] : i \in 1..Len(log) /\ CellOf(log[i]) = c
      /\ \A l \in Tiers, c \in Cell : \A i \in pend[l][c] \cup rows[l][c] :
            i \in 1..Len(log) /\ BucketOf(l, CellOf(log[i])) = c
      /\ \A c \in Cell \ replace : hot[c] \cap rows[1][c] = {}
  BY DEF NoDoubleCount, HotInCell, TiersInBucket, MergeDisjoint
<1>5. HotInCell'
  <2> SUFFICES ASSUME NEW c \in Cell, NEW i \in hot'[c]
               PROVE  i \in 1..Len(log') /\ CellOf(log'[i]) = c
    BY DEF HotInCell
  <2>1. \/ i \in raw' /\ CellOf(log'[i]) = c
        \/ i \in hot[c]
        \/ i \in new /\ CellOf(log'[i]) = c
    BY <1>1 DEF HotAfter
  <2>2. i \in hot[c] => log'[i] = log[i] /\ i \in 1..Len(log) /\ CellOf(log[i]) = c
    BY <1>2, <1>4
  <2> HIDE DEF new
  <2> QED BY <2>1, <2>2, <1>3
<1>6. TiersInBucket'
  <2> SUFFICES ASSUME NEW l \in Tiers, NEW c \in Cell, NEW i \in pend'[l][c] \cup rows'[l][c]
               PROVE  i \in 1..Len(log') /\ BucketOf(l, CellOf(log'[i])) = c
    BY DEF TiersInBucket
  <2>1. i \in 1..Len(log) /\ BucketOf(l, CellOf(log[i])) = c  BY <1>2, <1>4
  <2>2. log'[i] = log[i] /\ i \in 1..Len(log')  BY <2>1, <1>2
  <2> QED BY <2>1, <2>2
<1>7. MergeDisjoint'
  <2> SUFFICES ASSUME NEW c \in Cell \ replace', NEW i \in hot'[c], i \in rows'[1][c]
               PROVE  FALSE
    BY DEF MergeDisjoint
  <2>1. c \notin replace /\ (i \in hot[c] \/ i \in new)  BY <1>1 DEF HotAfter
  <2>2. i \in rows[1][c] /\ 1 \in Tiers  BY <1>2, RollupAssumption DEF Tiers
  <2> QED BY <2>1, <2>2, <1>2, <1>4
<1> QED BY <1>5, <1>6, <1>7 DEF NoDoubleCount

LEMMA PersistOwn ==
  ASSUME TypeOK, NoDoubleCount, PersistHot
  PROVE  NoDoubleCount'
<1> DEFINE closed == ClosedCells(op.t)
<1>1. 1 \in Tiers  BY RollupAssumption DEF Tiers
<1>2. rows'[1] = MinuteRows(closed) /\ hot' = HotWithout(closed) /\ replace' = replace \ closed
  BY <1>1 DEF PersistHot, TypeOK
<1>3. MergeDisjoint'
  BY <1>2 DEF NoDoubleCount, MergeDisjoint, MinuteRows, HotWithout
<1>4. HotInCell'
  BY PersistSources DEF NoDoubleCount, HotInCell
<1>5. TiersInBucket'
  <2> SUFFICES ASSUME NEW l \in Tiers, NEW c \in Cell, NEW i \in pend'[l][c] \cup rows'[l][c]
               PROVE  i \in 1..Len(log) /\ BucketOf(l, CellOf(log[i])) = c
    BY PersistSources DEF TiersInBucket
  <2>1. i \in pend[l][c] \cup rows[l][c] \/ (l = 1 /\ i \in hot[c])  BY PersistSources
  <2>2. CASE i \in pend[l][c] \cup rows[l][c]  BY <2>2 DEF NoDoubleCount, TiersInBucket
  <2>3. CASE l = 1 /\ i \in hot[c]
    BY <2>3, BucketOfMinute DEF NoDoubleCount, HotInCell
  <2> QED BY <2>1, <2>2, <2>3
<1> QED BY <1>3, <1>4, <1>5 DEF NoDoubleCount

LEMMA SealOwn ==
  ASSUME TypeOK, NoDoubleCount, PersistCoarse
  PROVE  NoDoubleCount'
<1>1. PICK l \in Tiers \ {1} : Seal(l)  BY DEF PersistCoarse, DueTiers
<1>2. UNCHANGED <<log, hot, replace>>  BY DEF PersistCoarse, history
<1>3. rows'[1] = rows[1]  BY <1>1 DEF Seal, TypeOK
<1>4. MergeDisjoint' /\ HotInCell'
  BY <1>2, <1>3 DEF NoDoubleCount, MergeDisjoint, HotInCell
<1>5. TiersInBucket'
  <2> SUFFICES ASSUME NEW k \in Tiers, NEW c \in Cell, NEW i \in pend'[k][c] \cup rows'[k][c]
               PROVE  i \in 1..Len(log) /\ BucketOf(k, CellOf(log[i])) = c
    BY <1>2 DEF TiersInBucket
  <2>1. i \in pend[k][c] \cup rows[k][c] \/ (k = l /\ i \in Merged(l, c))
    BY <1>1, SealSources
  <2>2. CASE i \in pend[k][c] \cup rows[k][c]  BY <2>2 DEF NoDoubleCount, TiersInBucket
  <2>3. CASE k = l /\ i \in Merged(l, c)
    <3>1. PICK d \in Cell : BucketOf(l, d) = c /\ i \in pend[l - 1][d]  BY <2>3 DEF Merged
    <3>2. i \in 1..Len(log) /\ BucketOf(l - 1, CellOf(log[i])) = d
      BY <3>1, IntervalType DEF NoDoubleCount, TiersInBucket
    <3>3. CellOf(log[i]) \in Cell  BY <3>2, CellOfType DEF TypeOK
    <3> QED BY <2>3, <3>1, <3>2, <3>3, BucketNested
  <2> QED BY <2>1, <2>2, <2>3
<1> QED BY <1>4, <1>5 DEF NoDoubleCount

LEMMA OwnStep ==
  ASSUME TypeOK, NoDoubleCount, [Next]_vars
  PROVE  NoDoubleCount'
<1> USE DEF NoDoubleCount, MergeDisjoint, HotInCell, TiersInBucket
<1>1. ASSUME NEW b \in Batches, WriteBatch(b) PROVE NoDoubleCount'
  BY <1>1, WriteOwn
<1>2. CASE PersistHot  BY <1>2, PersistOwn
<1>3. CASE PersistCoarse  BY <1>3, SealOwn
<1>4. CASE Close \/ Crash
  <2>1. MergeDisjoint' /\ HotInCell'  BY <1>4, DownSources, IntervalType, RollupAssumption DEF Tiers
  <2>2. TiersInBucket'
    <3> SUFFICES ASSUME NEW l \in Tiers, NEW c \in Cell, NEW i \in pend'[l][c] \cup rows'[l][c]
                 PROVE  i \in 1..Len(log) /\ BucketOf(l, CellOf(log[i])) = c
      BY <1>4, DownSources
    <3>1. i \in rows[l][c] \/ (l = 1 /\ i \in hot[c])  BY <1>4, DownSources
    <3> QED BY <3>1, BucketOfMinute
  <2> QED BY <2>1, <2>2
<1>5. CASE DeleteSeries \/ DeleteBefore
  <2>1. /\ \A c \in Cell, l \in Tiers : hot'[c] = {} /\ rows'[l][c] = {}
        /\ \A c \in Cell, l \in Tiers : pend'[l][c] \subseteq pend[l][c]
        /\ log' = log
    BY <1>5 DEF DeleteSeries, DeleteBefore, ForgetMemory, Empty
  <2> QED BY <2>1, RollupAssumption DEF Tiers
<1>6. CASE \/ Tick \/ CompactStart \/ Flush \/ FlushCoarse \/ PersistHotFails
           \/ PersistCoarseFails \/ CoarseDone \/ Open \/ UNCHANGED vars
  <2>1. UNCHANGED <<log, hot, replace, rows, pend>>
    BY <1>6 DEF Tick, CompactStart, Flush, FlushCoarse, PersistHotFails, PersistCoarseFails,
                CoarseDone, Open, vars, history, memory
  <2> QED BY <2>1
<1> QED BY <1>1, <1>2, <1>3, <1>4, <1>5, <1>6 DEF Next

\* Through retries, rebuilds, crashes and restarts, no merge of the write path adds
\* a sample to a bucket that has it already or that is not its own.
THEOREM CountedOnce == Spec => []NoDoubleCount
<1>1. Init => NoDoubleCount
  BY DEF Init, NoDoubleCount, MergeDisjoint, HotInCell, TiersInBucket, Empty
<1> QED BY <1>1, TypeCorrect, OwnStep, PTL DEF Spec

-----------------------------------------------------------------------------
(* Minutes show exactly their live samples *)

\* A compaction's clock was read from the wall clock.
CompactionClock == comp.t <= now

LEMMA RawCutMono ==
  ASSUME NEW t \in Int, NEW u \in Int, t <= u
  PROVE  RawCut(t) \in Int /\ RawCut(u) \in Int /\ RawCut(t) <= RawCut(u)
<1>1. /\ TicksPerMinute \in Nat \ {0} /\ RawMinutes \in Int  BY RollupAssumption
<1>2. t \div TicksPerMinute <= u \div TicksPerMinute  BY <1>1, DivMono
<1>3. t \div TicksPerMinute \in Int /\ u \div TicksPerMinute \in Int  BY <1>1, DivFact
<1> QED BY <1>1, <1>2, <1>3 DEF RawCut, Minute

\* What a write does to the history and the memory, its local definitions named.
WriteDetail(lg, new, kept, exact, replaced, rebuild) ==
  /\ lg = log' /\ new = (Len(log) + 1)..Len(log')
  /\ kept = KeptRaw(now)
  /\ exact = {i \in new : Minute(lg[i].ts) >= RawCut(now)}
  /\ replaced = Replaced(lg, exact, kept)
  /\ rebuild = {CellOf(lg[i]) : i \in replaced \cup LateOrReplacing(lg, exact, kept)}
  /\ raw' = (kept \ replaced) \cup exact
  /\ live' = (live \ {j \in live : \E i \in exact : lg[i].ts = lg[j].ts}) \cup new
  /\ hot' = HotAfter(lg, new, raw', rebuild)
  /\ replace' = replace \cup rebuild
  /\ open /\ UNCHANGED <<now, open, base, rows>>

LEMMA WriteDetails ==
  ASSUME NEW batch \in Batches, WriteBatch(batch)
  PROVE  \E lg, new, kept, exact, replaced, rebuild :
           WriteDetail(lg, new, kept, exact, replaced, rebuild)
<1> DEFINE lg       == log \o batch
           new      == (Len(log) + 1)..Len(lg)
           kept     == KeptRaw(now)
           exact    == {i \in new : Minute(lg[i].ts) >= RawCut(now)}
           replaced == Replaced(lg, exact, kept)
           rebuild  == {CellOf(lg[i]) : i \in replaced \cup LateOrReplacing(lg, exact, kept)}
<1>1. WriteDetail(lg, new, kept, exact, replaced, rebuild)
  BY DEF WriteDetail, WriteBatch
<1> QED BY <1>1

\* An exact sample of the window is replaced exactly when a fresh sample has its
\* timestamp, so raw and live keep agreeing on the window; no minute outside the
\* window is rebuilt.
LEMMA WriteWindow ==
  ASSUME TypeOK, RawWindowComplete,
         NEW lg, NEW new, NEW kept, NEW exact, NEW replaced, NEW rebuild,
         WriteDetail(lg, new, kept, exact, replaced, rebuild),
         NEW batch \in Batches, WriteBatch(batch)
  PROVE  /\ raw' \subseteq live'
         /\ \A i \in raw' : i > base
         /\ \A i \in live' : i > base /\ Minute(lg[i].ts) >= RawCut(now) => i \in raw'
         /\ \A j \in live : j > base /\ j \notin live' => CellOf(lg[j]) \in rebuild
         /\ \A c \in rebuild : c.minute >= RawCut(now)
<1> USE DEF WriteDetail
<1>1. /\ Len(log) \in Nat /\ Len(log) < Len(log')
      /\ \A i \in 1..Len(log) : lg[i] = log[i]
  BY WriteSources
<1>2. base \in Int /\ base <= Len(log) /\ live \subseteq 1..Len(log)
  BY <1>1 DEF TypeOK
<1>3. /\ kept \subseteq live /\ \A i \in kept : i > base /\ Minute(lg[i].ts) >= RawCut(now)
      /\ \A i \in live : i > base /\ Minute(lg[i].ts) >= RawCut(now) => i \in kept
  <2>1. /\ raw \subseteq live /\ \A i \in raw : i > base
        /\ \A i \in live : i > base /\ Minute(log[i].ts) >= RawCut(now) => i \in raw
    BY DEF RawWindowComplete
  <2>2. \A i \in live : lg[i] = log[i]  BY <1>1, <1>2
  <2> QED BY <2>1, <2>2 DEF KeptRaw
<1>4. \A i \in new : i > base /\ i > Len(log)  BY <1>1, <1>2
<1>5. replaced = {j \in kept : \E i \in exact : lg[i].ts = lg[j].ts}  BY DEF Replaced
<1>6. \A j \in live : j > base /\ (\E i \in exact : lg[i].ts = lg[j].ts) => j \in replaced
  BY <1>3, <1>5
<1>7. raw' \subseteq live'  BY <1>3, <1>5
<1>8. \A i \in raw' : i > base  BY <1>3, <1>4
<1>9. \A i \in live' : i > base /\ Minute(lg[i].ts) >= RawCut(now) => i \in raw'
  BY <1>3, <1>5
<1>10. \A j \in live : j > base /\ j \notin live' => CellOf(lg[j]) \in rebuild
  BY <1>6
<1>11. \A c \in rebuild : c.minute >= RawCut(now)
  <2>1. \A i \in replaced \cup LateOrReplacing(lg, exact, kept) : Minute(lg[i].ts) >= RawCut(now)
    BY <1>3, <1>5 DEF LateOrReplacing
  <2> QED BY <2>1 DEF CellOf
<1> QED BY <1>7, <1>8, <1>9, <1>10, <1>11

LEMMA WindowStep ==
  ASSUME TypeOK, CompactionClock, RawWindowComplete, [Next]_vars
  PROVE  CompactionClock' /\ RawWindowComplete'
<1>1. now \in Int /\ comp.t \in Int /\ RawCut(now) \in Int
  BY RawCutMono, RollupAssumption DEF TypeOK, Time
<1>2. Len(log) \in Nat /\ live \subseteq 1..Len(log)  BY DEF TypeOK
<1>3. \A i \in live : Minute(log[i].ts) \in Int
  <2> SUFFICES ASSUME NEW i \in live PROVE Minute(log[i].ts) \in Int  OBVIOUS
  <2>1. log[i] \in Sample  BY <1>2 DEF TypeOK
  <2>2. log[i].ts \in Int  BY <2>1, RollupAssumption DEF Sample, Time
  <2>3. TicksPerMinute \in Nat \ {0}  BY RollupAssumption
  <2> QED BY <2>2, <2>3, DivFact DEF Minute
<1>4. ASSUME NEW b \in Batches, WriteBatch(b) PROVE CompactionClock' /\ RawWindowComplete'
  <2>1. PICK lg, new, kept, exact, replaced, rebuild :
          WriteDetail(lg, new, kept, exact, replaced, rebuild)
    BY <1>4, WriteDetails
  <2>2. lg = log' /\ UNCHANGED <<now, open, base, comp>>
    BY <1>4, <2>1 DEF WriteDetail, WriteBatch
  <2>3. /\ raw' \subseteq live' /\ \A i \in raw' : i > base
        /\ \A i \in live' : i > base /\ Minute(lg[i].ts) >= RawCut(now) => i \in raw'
    BY <1>4, <2>1, WriteWindow
  <2> QED BY <2>2, <2>3 DEF RawWindowComplete, CompactionClock, RawCut
<1>5. CASE Tick
  <2>1. now' \in Int /\ now <= now' /\ UNCHANGED <<open, log, base, live, raw, comp>>
    BY <1>1, <1>5 DEF Tick, history, memory
  <2>2. RawCut(now') \in Int /\ RawCut(now) <= RawCut(now')  BY <1>1, <2>1, RawCutMono
  <2>3. CompactionClock'  BY <1>1, <2>1 DEF CompactionClock
  <2>4. RawWindowComplete'
    BY <1>1, <1>3, <2>1, <2>2 DEF RawWindowComplete, RawCut, Minute
  <2> QED BY <2>3, <2>4
<1>6. CASE Flush
  <2>1. /\ raw' = KeptRaw(comp.t) /\ comp'.t = comp.t
        /\ UNCHANGED <<now, open, log, base, live>>
    BY <1>6 DEF Flush, history, TypeOK
  <2>2. RawCut(comp.t) \in Int /\ RawCut(comp.t) <= RawCut(now)
    BY <1>1, RawCutMono DEF CompactionClock
  <2>3. RawWindowComplete'
    BY <1>1, <1>3, <2>1, <2>2 DEF RawWindowComplete, KeptRaw
  <2> QED BY <2>1, <2>3 DEF CompactionClock
<1>7. CASE Open
  <2>1. /\ raw' = {} /\ base' = Len(log) /\ UNCHANGED <<now, log, live, comp>>
    BY <1>7 DEF Open, memory, TypeOK
  <2> QED BY <1>2, <2>1 DEF RawWindowComplete, CompactionClock
<1>8. CASE DeleteSeries \/ DeleteBefore
  BY <1>8 DEF DeleteSeries, DeleteBefore, ForgetMemory, RawWindowComplete, CompactionClock
<1>9. CASE Close \/ Crash
  <2>1. ~open' /\ now' = now /\ comp' \in {comp, NoComp}  BY <1>9 DEF Close, Crash
  <2>2. comp'.t <= now'  BY <1>1, <2>1, RollupAssumption DEF CompactionClock, NoComp, TypeOK, Time
  <2> QED BY <2>1, <2>2 DEF RawWindowComplete, CompactionClock
<1>10. CASE \/ CompactStart \/ FlushCoarse \/ PersistHot \/ PersistHotFails \/ PersistCoarse
            \/ PersistCoarseFails \/ CoarseDone \/ UNCHANGED vars
  <2>1. UNCHANGED <<now, open, log, base, live, raw>>
    BY <1>10 DEF CompactStart, FlushCoarse, PersistHot, PersistHotFails, PersistCoarse,
                 PersistCoarseFails, CoarseDone, vars, history, memory
  <2>2. comp'.t \in {now, comp.t, 0}
    BY <1>10 DEF CompactStart, FlushCoarse, PersistHot, PersistHotFails, PersistCoarse,
                 PersistCoarseFails, CoarseDone, vars, history, memory, Return, NoComp, TypeOK
  <2>3. comp'.t <= now'
    BY <1>1, <2>1, <2>2, RollupAssumption DEF CompactionClock, TypeOK, Time
  <2> QED BY <2>1, <2>3 DEF RawWindowComplete, CompactionClock, RawCut
<1> QED BY <1>4, <1>5, <1>6, <1>7, <1>8, <1>9, <1>10 DEF Next

\* What the raw window promises a rebuild: all live samples of the minutes it
\* reaches, and none that was deleted, replaced or accepted by an earlier process.
THEOREM WindowComplete == Spec => []RawWindowComplete
<1>1. Init => CompactionClock /\ RawWindowComplete
  BY DEF Init, CompactionClock, NoComp, RawWindowComplete
<1> QED BY <1>1, TypeCorrect, WindowStep, PTL DEF Spec

\* A minute row holds accepted samples of its own minute and label set.
LEMMA MinuteRowOwn ==
  ASSUME TypeOK, NoDoubleCount, NEW c \in Cell, NEW i \in rows[1][c]
  PROVE  i \in 1..Len(log) /\ CellOf(log[i]) = c
<1>1. i \in 1..Len(log) /\ BucketOf(1, CellOf(log[i])) = c
  BY RollupAssumption DEF NoDoubleCount, TiersInBucket, Tiers
<1>2. CellOf(log[i]) \in Cell  BY <1>1, CellOfType DEF TypeOK
<1> QED BY <1>1, <1>2, BucketOfMinute

\* Persisting minute buckets changes no minute's visible samples.
LEMMA PersistShows ==
  ASSUME TypeOK, PersistHot
  PROVE  \A c \in Cell : Visible(c)' = Visible(c)
<1>1. 1 \in Tiers  BY RollupAssumption DEF Tiers
<1>2. /\ rows'[1] = MinuteRows(ClosedCells(op.t)) /\ hot' = HotWithout(ClosedCells(op.t))
      /\ replace' = replace \ ClosedCells(op.t)
  BY <1>1 DEF PersistHot, TypeOK
<1> QED BY <1>2 DEF Visible, MinuteRows, HotWithout

\* Nor does any step but a write, a deletion and a stop.
LEMMA QuietSteps ==
  ASSUME TypeOK,
         \/ Tick \/ CompactStart \/ Flush \/ FlushCoarse \/ PersistHot \/ PersistHotFails
         \/ PersistCoarse \/ PersistCoarseFails \/ CoarseDone \/ UNCHANGED vars
  PROVE  /\ \A c \in Cell : Visible(c)' = Visible(c)
         /\ raw' \subseteq raw /\ UNCHANGED <<open, log, base, cut, live>>
<1>1. CASE PersistHot  BY <1>1, PersistShows DEF PersistHot
<1>2. CASE PersistCoarse
  <2>1. PICK l \in Tiers \ {1} : Seal(l)  BY <1>2 DEF PersistCoarse, DueTiers
  <2>2. rows'[1] = rows[1]  BY <2>1 DEF Seal, TypeOK
  <2> QED BY <1>2, <2>2 DEF PersistCoarse, history, Visible
<1>3. CASE \/ Tick \/ CompactStart \/ Flush \/ FlushCoarse \/ PersistHotFails
           \/ PersistCoarseFails \/ CoarseDone \/ UNCHANGED vars
  BY <1>3 DEF Tick, CompactStart, Flush, FlushCoarse, PersistHotFails, PersistCoarseFails,
              CoarseDone, vars, history, memory, KeptRaw, Visible
<1> QED BY <1>1, <1>2, <1>3

LEMMA ConservedStep ==
  ASSUME TypeOK, NoDoubleCount, RawWindowComplete, MinuteConserved, [Next]_vars
  PROVE  MinuteConserved'
<1>1. ASSUME NEW b \in Batches, WriteBatch(b) PROVE MinuteConserved'
  <2>1. PICK lg, new, kept, exact, replaced, rebuild :
          WriteDetail(lg, new, kept, exact, replaced, rebuild)
    BY <1>1, WriteDetails
  <2>2. /\ raw' \subseteq live'
        /\ \A i \in live' : i > base /\ Minute(lg[i].ts) >= RawCut(now) => i \in raw'
        /\ \A j \in live : j > base /\ j \notin live' => CellOf(lg[j]) \in rebuild
        /\ \A c \in rebuild : c.minute >= RawCut(now)
    BY <1>1, <2>1, WriteWindow
  <2>3. /\ Len(log) \in Nat /\ Len(lg) \in Nat /\ Len(log) < Len(lg)
        /\ \A i \in 1..Len(log) : lg[i] = log[i]
    BY <1>1, <2>1, WriteSources DEF WriteDetail
  <2>4. /\ base \in Nat /\ base <= Len(log) /\ live \subseteq 1..Len(log)
        /\ live' \subseteq 1..Len(lg)
    <3>1. base \in Nat /\ base <= Len(log) /\ live \subseteq 1..Len(log)
      BY <2>3 DEF TypeOK
    <3>2. TypeOK' /\ lg = log'  BY <1>1, <2>1, WriteBatchType DEF WriteDetail
    <3> QED BY <3>1, <3>2 DEF TypeOK
  <2> SUFFICES ASSUME NEW c \in Cell, \A i \in 1..base : CellOf(lg[i]) # c
               PROVE  Visible(c)' = {i \in live' : CellOf(lg[i]) = c}
    BY <2>1 DEF MinuteConserved, WriteDetail
  <2>5. \A i \in live' : CellOf(lg[i]) = c => i > base  BY <2>4
  <2>6. CASE c \in rebuild
    <3>1. Visible(c)' = {i \in raw' : CellOf(lg[i]) = c}
      BY <2>1, <2>6 DEF WriteDetail, Visible, HotAfter
    <3>2. \A i \in live' : CellOf(lg[i]) = c => i \in raw'
      BY <2>2, <2>5, <2>6 DEF CellOf
    <3> QED BY <2>2, <3>1, <3>2
  <2>7. CASE c \notin rebuild
    <3>1. Visible(c)' = Visible(c) \cup {i \in new : CellOf(lg[i]) = c}
      BY <2>1, <2>7 DEF WriteDetail, Visible, HotAfter
    <3>2. Visible(c) = {i \in live : CellOf(log[i]) = c}
      <4>1. \A i \in 1..base : CellOf(log[i]) # c  BY <2>3, <2>4
      <4> QED BY <2>1, <4>1 DEF MinuteConserved, WriteDetail
    <3>3. \A j \in live : CellOf(lg[j]) = c => j \in live'  BY <2>2, <2>3, <2>4, <2>7
    <3>4. \A j \in live : lg[j] = log[j]  BY <2>3, <2>4
    <3>5. live' \subseteq live \cup new /\ new \subseteq live'  BY <2>1 DEF WriteDetail
    <3> QED BY <3>1, <3>2, <3>3, <3>4, <3>5
  <2> QED BY <2>6, <2>7
<1>2. CASE Open
  <2>1. /\ base' = Len(log) /\ UNCHANGED <<log, live, rows, hot, replace>>
        /\ hot = Empty /\ replace = {} /\ live \subseteq 1..Len(log)
    BY <1>2 DEF Open, memory, TypeOK
  <2> SUFFICES ASSUME NEW c \in Cell, \A i \in 1..Len(log) : CellOf(log[i]) # c
               PROVE  Visible(c)' = {i \in live : CellOf(log[i]) = c}
    BY <2>1 DEF MinuteConserved
  <2>2. Visible(c)' = rows[1][c] \cup {}  BY <2>1 DEF Visible, Empty
  <2>3. \A i \in rows[1][c] : i \in 1..Len(log) /\ CellOf(log[i]) = c  BY MinuteRowOwn
  <2> QED BY <2>1, <2>2, <2>3
<1>3. CASE DeleteSeries \/ DeleteBefore
  <2>1. /\ \A c \in Cell : hot'[c] = {} /\ rows'[1][c] = {}
        /\ live' = {}
    BY <1>3, RollupAssumption DEF DeleteSeries, DeleteBefore, ForgetMemory, Empty, Tiers
  <2> QED BY <2>1 DEF MinuteConserved, Visible
<1>4. CASE Close \/ Crash  BY <1>4 DEF Close, Crash, MinuteConserved
<1>5. CASE \/ Tick \/ CompactStart \/ Flush \/ FlushCoarse \/ PersistHot \/ PersistHotFails
           \/ PersistCoarse \/ PersistCoarseFails \/ CoarseDone \/ UNCHANGED vars
  BY <1>5, QuietSteps DEF MinuteConserved
<1> QED BY <1>1, <1>2, <1>3, <1>4, <1>5 DEF Next

\* Every minute that the running store saw from its start shows exactly its live
\* samples, whatever was late, replaced, pruned, flushed or failed to be flushed.
THEOREM MinutesConserved == Spec => []MinuteConserved
<1>1. Init => MinuteConserved
  BY RollupAssumption DEF Init, MinuteConserved, Visible, Empty, Tiers
<1> QED BY <1>1, TypeCorrect, CountedOnce, WindowComplete, ConservedStep, PTL DEF Spec

-----------------------------------------------------------------------------
(* MetricRollup implements SeriesLedger: what a query of the minute tier    *)
(* counts changes only when samples are accepted, the series is deleted or  *)
(* the store stops.                                                         *)

\* A raw sample is visible in its minute, so a rebuild from raw samples shows
\* nothing that was not shown before.
RawVisible ==
  \A c \in Cell : \A i \in raw : CellOf(log[i]) = c => i \in Visible(c)

\* The invariant of the write path that its refinement rests on.
LedgerInv ==
  /\ TypeOK /\ NoDoubleCount /\ CompactionClock /\ RawWindowComplete /\ MinuteConserved
  /\ DeletedStaysDeleted /\ RawVisible

\* What a minute shows are accepted samples of that minute, none of them deleted.
ShownOwn ==
  \A c \in Cell : \A i \in Visible(c) : i \in 1..Len(log) /\ CellOf(log[i]) = c /\ i > cut

LEMMA VisibleOwn == LedgerInv => ShownOwn
<1> SUFFICES ASSUME LedgerInv, NEW c \in Cell, NEW i \in Visible(c)
             PROVE  i \in 1..Len(log) /\ CellOf(log[i]) = c /\ i > cut
  BY DEF ShownOwn
<1>1. 1 \in Tiers  BY RollupAssumption DEF Tiers
<1>2. i \in hot[c] \/ i \in rows[1][c]  BY DEF Visible
<1>3. i > cut  BY <1>1, <1>2 DEF LedgerInv, DeletedStaysDeleted
<1>4. i \in 1..Len(log) /\ CellOf(log[i]) = c
  BY <1>2, MinuteRowOwn DEF LedgerInv, NoDoubleCount, HotInCell
<1> QED BY <1>3, <1>4

\* What a write does to a minute: it shows the minute's fresh samples, and beyond
\* them only what it showed before.
LEMMA WriteShows ==
  ASSUME TypeOK, RawWindowComplete, RawVisible, NEW batch \in Batches, WriteBatch(batch),
         NEW c \in Cell
  PROVE  LET own == {i \in (Len(log) + 1)..Len(log') : CellOf(log'[i]) = c}
         IN  /\ own \subseteq Visible(c)' /\ Visible(c)' \subseteq Visible(c) \cup own
             /\ \A i \in raw' : CellOf(log'[i]) = c => i \in Visible(c)'
<1>1. PICK lg, new, kept, exact, replaced, rebuild :
        WriteDetail(lg, new, kept, exact, replaced, rebuild)
  BY WriteDetails
<1>2. \A i \in 1..Len(log) : lg[i] = log[i]
  BY <1>1, WriteSources DEF WriteDetail
<1>3. \A d \in rebuild : d.minute >= RawCut(now)
  BY <1>1, WriteWindow
<1>4. \A i \in kept : CellOf(lg[i]) = c => i \in Visible(c)
  BY <1>1, <1>2 DEF WriteDetail, KeptRaw, RawVisible, TypeOK
<1>5. CASE c \in rebuild
  <2>1. Visible(c)' = {i \in raw' : CellOf(lg[i]) = c}
    BY <1>1, <1>5 DEF WriteDetail, Visible, HotAfter
  <2>2. \A i \in new : CellOf(lg[i]) = c => i \in raw'
    BY <1>1, <1>3, <1>5 DEF WriteDetail, CellOf
  <2>3. raw' \subseteq kept \cup new  BY <1>1 DEF WriteDetail
  <2>4. lg = log' /\ new = (Len(log) + 1)..Len(log')  BY <1>1 DEF WriteDetail
  <2> QED BY <2>1, <2>2, <2>3, <2>4, <1>4
<1>6. CASE c \notin rebuild
  <2>1. Visible(c)' = Visible(c) \cup {i \in new : CellOf(lg[i]) = c}
    BY <1>1, <1>6 DEF WriteDetail, Visible, HotAfter
  <2>2. raw' \subseteq kept \cup new /\ lg = log' /\ new = (Len(log) + 1)..Len(log')
    BY <1>1 DEF WriteDetail
  <2> QED BY <2>1, <2>2, <1>4
<1> QED BY <1>5, <1>6

LEMMA RawVisibleStep ==
  ASSUME TypeOK, RawWindowComplete, RawVisible, [Next]_vars
  PROVE  RawVisible'
<1>1. ASSUME NEW b \in Batches, WriteBatch(b) PROVE RawVisible'
  BY <1>1, WriteShows DEF RawVisible
<1>2. CASE DeleteSeries \/ DeleteBefore \/ Close \/ Crash
  BY <1>2 DEF DeleteSeries, DeleteBefore, Close, Crash, ForgetMemory, RawVisible
<1>3. CASE Open
  BY <1>3 DEF Open, memory, RawVisible, Visible
<1>4. CASE \/ Tick \/ CompactStart \/ Flush \/ FlushCoarse \/ PersistHot \/ PersistHotFails
           \/ PersistCoarse \/ PersistCoarseFails \/ CoarseDone \/ UNCHANGED vars
  BY <1>4, QuietSteps DEF RawVisible
<1> QED BY <1>1, <1>2, <1>3, <1>4 DEF Next

-----------------------------------------------------------------------------
(* The refinement *)

LEMMA InitShows == Init => Ledger!Init
<1> SUFFICES ASSUME Init PROVE Ledger!Init  OBVIOUS
<1>1. 1 \in Tiers  BY RollupAssumption DEF Tiers
<1>2. \A c \in Cell : Visible(c) = {}  BY <1>1 DEF Init, Visible, Empty
<1> QED BY <1>2 DEF Init, Ledger!Init

\* Accepting a batch is the ledger's Accept.
LEMMA WriteAccepts ==
  ASSUME LedgerInv, LedgerInv', NEW batch \in Batches, WriteBatch(batch)
  PROVE  Ledger!Accept
<1> DEFINE new     == (Len(log) + 1)..Len(log')
           own(c)  == {i \in 1..Len(log') : CellOf(log'[i]) = c}
           shown   == [c \in Cell |-> Visible(c)]
<1>1. /\ log \in Seq(Sample) /\ log' \in Seq(Sample)
      /\ log' = log \o batch /\ open /\ UNCHANGED <<open, base, cut>>
  BY DEF WriteBatch, LedgerInv, TypeOK
<1>2. /\ Len(log') > Len(log) /\ Len(log) \in Nat
      /\ \A i \in 1..Len(log) : log'[i] = log[i]
  BY WriteSources DEF LedgerInv
<1>3. SubSeq(log', 1, Len(log)) = log
  BY <1>1, <1>2
<1>4. /\ new \subseteq live' /\ live' \subseteq live \cup new
      /\ \A j \in live \ live' : \E i \in new : log'[i].ts = log[j].ts
  <2>1. PICK lg, nw, kept, exact, replaced, rebuild :
          WriteDetail(lg, nw, kept, exact, replaced, rebuild)
    BY WriteDetails
  <2>2. live \subseteq 1..Len(log)  BY DEF LedgerInv, TypeOK
  <2>3. \A j \in live : lg[j] = log[j]  BY <1>2, <2>1, <2>2 DEF WriteDetail
  <2> QED BY <2>1, <2>3 DEF WriteDetail
<1>5. shown' \in [Cell -> SUBSET (1..Len(log'))]
  <2>1. ShownOwn'  BY VisibleOwn, PTL
  <2> QED BY <2>1 DEF ShownOwn
<1>6. \A c \in Cell : new \cap own(c) = {i \in new : CellOf(log'[i]) = c}
  BY <1>2
<1>7. \A c \in Cell : /\ new \cap own(c) \subseteq shown'[c]
                      /\ shown'[c] \subseteq shown[c] \cup (new \cap own(c))
  BY <1>6, WriteShows DEF LedgerInv
<1>8. \A c \in Cell : ~Ledger!Torn(c) => shown'[c] = live' \cap own(c)
  <2> SUFFICES ASSUME NEW c \in Cell, ~Ledger!Torn(c)
               PROVE  Visible(c)' = live' \cap own(c)
    OBVIOUS
  <2>1. \A i \in 1..base' : i \in 1..Len(log) /\ CellOf(log'[i]) # c
    BY <1>1, <1>2 DEF Ledger!Torn, LedgerInv, TypeOK
  <2>2. Visible(c)' = {i \in live' : CellOf(log'[i]) = c}
    BY <1>1, <2>1 DEF LedgerInv, MinuteConserved
  <2>3. live' \subseteq 1..Len(log')  BY DEF LedgerInv, TypeOK
  <2> QED BY <2>2, <2>3
<1> QED BY <1>1, <1>2, <1>3, <1>4, <1>5, <1>7, <1>8 DEF Ledger!Accept

\* Closing and crashing are the ledger's GoDown: no minute shows deleted samples.
LEMMA StopGoesDown ==
  ASSUME LedgerInv, LedgerInv', Close \/ Crash
  PROVE  Ledger!GoDown
<1>1. open /\ open' = FALSE /\ UNCHANGED <<log, base, cut, live>>
  BY DEF Close, Crash, history
<1>2. ShownOwn'  BY VisibleOwn, PTL
<1>3. \A c \in Cell : \A i \in Visible(c)' : i \in 1..Len(log) /\ CellOf(log[i]) = c /\ i > cut
  BY <1>1, <1>2 DEF ShownOwn
<1> QED BY <1>1, <1>3 DEF Ledger!GoDown

LEMMA LedgerStep ==
  ASSUME LedgerInv, LedgerInv', [Next]_vars
  PROVE  [Ledger!Next]_(Ledger!ledger)
<1> DEFINE shown == [c \in Cell |-> Visible(c)]
<1>1. ASSUME NEW b \in Batches, WriteBatch(b) PROVE Ledger!Next
  BY <1>1, WriteAccepts DEF Ledger!Next
<1>2. CASE Close \/ Crash  BY <1>2, StopGoesDown DEF Ledger!Next
<1>3. CASE Open
  <2>1. \A c \in Cell : Visible(c)' = Visible(c)  BY <1>3 DEF Open, memory, Visible
  <2>2. ~open /\ open' = TRUE /\ base' = Len(log) /\ UNCHANGED <<log, cut, live>>
    BY <1>3 DEF Open
  <2> QED BY <2>1, <2>2 DEF Ledger!Next, Ledger!ComeUp
<1>4. CASE DeleteSeries \/ DeleteBefore
  <2>1. \A c \in Cell : Visible(c)' = {}
    BY <1>4, RollupAssumption DEF DeleteSeries, DeleteBefore, ForgetMemory, Empty, Visible, Tiers
  <2>2. open /\ cut' = Len(log) /\ live' = {} /\ UNCHANGED <<open, log, base>>
    BY <1>4 DEF DeleteSeries, DeleteBefore
  <2> QED BY <2>1, <2>2 DEF Ledger!Next, Ledger!Delete
<1>5. CASE \/ Tick \/ CompactStart \/ Flush \/ FlushCoarse \/ PersistHot \/ PersistHotFails
           \/ PersistCoarse \/ PersistCoarseFails \/ CoarseDone \/ UNCHANGED vars
  <2>1. /\ \A c \in Cell : Visible(c)' = Visible(c)
        /\ UNCHANGED <<open, log, base, cut, live>>
    BY <1>5, QuietSteps DEF LedgerInv
  <2> QED BY <2>1 DEF Ledger!ledger
<1> QED BY <1>1, <1>2, <1>3, <1>4, <1>5 DEF Next

LEMMA LedgerInvariant == Spec => []LedgerInv
<1>1. Init => RawVisible  BY DEF Init, RawVisible
<1>2. Init => CompactionClock /\ RawWindowComplete
  BY DEF Init, CompactionClock, NoComp, RawWindowComplete
<1>3. Spec => []CompactionClock
  BY <1>2, TypeCorrect, WindowStep, PTL DEF Spec
<1>4. Spec => []RawVisible
  BY <1>1, TypeCorrect, WindowComplete, RawVisibleStep, PTL DEF Spec
<1> QED BY <1>3, <1>4, TypeCorrect, CountedOnce, WindowComplete, MinutesConserved,
           DeletedForGood, PTL DEF LedgerInv

\* The write path keeps the ledger: flushing, failing to flush, pruning raw samples
\* and sealing parents never change what a query of the minute tier counts.
THEOREM Implementation == Spec => ImplementsLedger
BY InitShows, LedgerStep, LedgerInvariant, PTL DEF Spec, ImplementsLedger, Ledger!Spec

-----------------------------------------------------------------------------
(* Tiers that are not adjacent *)

\* A nonempty set of naturals has a least member.
LEMMA Least ==
  ASSUME NEW T \in SUBSET Nat, T # {}
  PROVE  \E m \in T : \A k \in T : m <= k
<1> DEFINE R == OpToRel(<, Nat)
<1>1. IsWellFoundedOn(R, Nat)
  BY NatLessThanWellFounded, Zenon
<1>2. \A x, y \in Nat : <<y, x>> \in R <=> y < x
  BY DEF OpToRel
<1> HIDE DEF R
<1>3. \E x \in T : \A y \in T : <<y, x>> \notin R
  BY <1>1, WFMin
<1>4. PICK m \in T : \A y \in T : <<y, m>> \notin R
  BY <1>3
<1>5. \A y \in T : y \in Nat /\ ~ (y < m)
  BY <1>2, <1>4
<1> QED
  BY <1>5

LEMMA ProductAssociative ==
  ASSUME NEW a \in Nat \ {0}, NEW b \in Nat \ {0}, NEW c \in Nat \ {0}
  PROVE  (a * b) * c = a * (b * c) /\ b * c \in Nat \ {0}
OBVIOUS

\* A tier's interval is a multiple of every finer one's: were it not, there would be
\* a first tier that is no multiple, but it is one of the tier before it, which is.
LEMMA Divides ==
  ASSUME NEW k \in Tiers, NEW l \in Tiers, k <= l
  PROVE  \E q \in Nat \ {0} : Interval[l] = Interval[k] * q
<1> DEFINE Divide(m) == \E q \in Nat \ {0} : Interval[m] = Interval[k] * q
           odd       == {m \in Tiers : k <= m /\ ~Divide(m)}
<1>1. /\ Tiers \subseteq Nat /\ k \in Nat \ {0} /\ \A m \in Tiers : m \in Nat \ {0}
  BY RollupAssumption DEF Tiers
<1> HIDE DEF Divide
<1>2. SUFFICES ASSUME odd # {} PROVE FALSE
  BY DEF Divide
<1>3. PICK m \in odd : \A n \in odd : m <= n
  <2>1. odd \in SUBSET Nat  BY <1>1
  <2> HIDE DEF odd
  <2> QED BY <1>2, <2>1, Least
<1>4. Divide(k)
  <2>1. Interval[k] \in Nat \ {0}  BY IntervalType
  <2>2. Interval[k] = Interval[k] * 1 /\ 1 \in Nat \ {0}  BY <2>1
  <2> QED BY <2>2 DEF Divide
<1>5. m \in Tiers /\ k <= m /\ m # k /\ ~Divide(m)
  BY <1>3, <1>4
<1>6. m \in Nat /\ m # 1 /\ k <= m - 1 /\ m - 1 \in Tiers /\ ~(m <= m - 1)
  BY <1>1, <1>5, IntervalType
<1>7. Divide(m - 1)
  BY <1>3, <1>6
<1>8. PICK q \in Nat \ {0} : Interval[m - 1] = Interval[k] * q
  BY <1>7 DEF Divide
<1>9. PICK r \in Nat \ {0} : Interval[m] = Interval[m - 1] * r
  BY <1>5, <1>6, IntervalType
<1>10. Interval[k] \in Nat \ {0}
  BY IntervalType
<1>11. Interval[m] = Interval[k] * (q * r) /\ q * r \in Nat \ {0}
  BY <1>8, <1>9, <1>10, ProductAssociative
<1> QED
  BY <1>5, <1>11 DEF Divide

\* BucketOf(k, c), with its minute given a name.
LEMMA BucketMinute ==
  ASSUME NEW k \in Tiers, NEW c \in Cell
  PROVE  /\ BucketOf(k, c).minute = (c.minute \div Interval[k]) * Interval[k]
         /\ BucketOf(k, c) = [minute |-> BucketOf(k, c).minute, label |-> c.label]
         /\ BucketOf(k, c).minute \in Nat
<1>1. BucketOf(k, c) \in Cell  BY BucketType
<1> QED BY <1>1, CellMinute DEF BucketOf

\* The bucket of any finer tier's bucket is the bucket of the minute itself, and it
\* ends no earlier.
LEMMA BucketWithin ==
  ASSUME NEW k \in Tiers, NEW l \in Tiers, k <= l, NEW c \in Cell
  PROVE  /\ BucketOf(l, BucketOf(k, c)) = BucketOf(l, c)
         /\ BucketOf(k, c).minute + Interval[k] <= BucketOf(l, c).minute + Interval[l]
<1>1. PICK m \in Nat : m = c.minute  BY CellMinute
<1>2. PICK a \in Nat \ {0}, b \in Nat \ {0}, q \in Nat \ {0} :
        a = Interval[k] /\ b = Interval[l] /\ b = a * q
  <2>1. Interval[k] \in Nat \ {0} /\ Interval[l] \in Nat \ {0}  BY IntervalType
  <2>2. PICK q \in Nat \ {0} : Interval[l] = Interval[k] * q  BY Divides
  <2> QED BY <2>1, <2>2
<1>3. PICK r \in Nat : r = BucketOf(k, c).minute /\ r = (m \div a) * a
  BY <1>1, <1>2, BucketMinute
<1>4. PICK s \in Nat : s = BucketOf(l, c).minute /\ s = (m \div b) * b
  BY <1>1, <1>2, BucketMinute
<1>5. BucketOf(l, BucketOf(k, c)) = BucketOf(l, c)
  <2>1. r \div b = m \div b
    <3>1. /\ m \in Int /\ a \in Int /\ q \in Int /\ b \in Int /\ r \in Int
          /\ a > 0 /\ q > 0 /\ b > 0 /\ b = a * q /\ r = (m \div a) * a
      BY <1>2, <1>3
    <3> QED BY <3>1, DivNested
  <2>2. BucketOf(k, c) \in Cell /\ BucketOf(k, c).minute = r /\ BucketOf(k, c).label = c.label
    <3>1. BucketOf(k, c) = [minute |-> r, label |-> c.label]  BY <1>3, BucketMinute
    <3>2. BucketOf(k, c) \in Cell  BY BucketType
    <3> QED BY <3>1, <3>2
  <2>3. BucketOf(l, BucketOf(k, c)).minute = (r \div b) * b
    BY <1>2, <2>2, BucketMinute
  <2>4. BucketOf(l, BucketOf(k, c)).minute = BucketOf(l, c).minute
    BY <1>4, <2>1, <2>3
  <2>5. /\ BucketOf(l, BucketOf(k, c)) = [minute |-> BucketOf(l, BucketOf(k, c)).minute, label |-> c.label]
        /\ BucketOf(l, c) = [minute |-> BucketOf(l, c).minute, label |-> c.label]
    BY <2>2, BucketMinute
  <2> QED BY <2>4, <2>5
<1>6. r + a <= s + b
  <2>1. PICK x \in Int : x = m \div a /\ a * x <= m /\ m < a * x + a /\ r = a * x
    BY <1>3, DivFact
  <2>2. PICK y \in Int : y = m \div b /\ b * y <= m /\ m < b * y + b /\ s = b * y
    BY <1>4, DivFact
  <2>3. PICK z \in Int : z = q * y + q  OBVIOUS
  <2>4. b * y + b = a * z  BY <1>2, <2>3
  <2>5. ~(z <= x) => x < z  OBVIOUS
  <2>6. z < x => a * z + a <= a * x  BY MultiplesApart
  <2>7. x < z => a * x + a <= a * z  BY MultiplesApart
  <2> QED BY <2>1, <2>2, <2>4, <2>5, <2>6, <2>7
<1> QED BY <1>2, <1>3, <1>4, <1>5, <1>6

-----------------------------------------------------------------------------
(* A sealed parent is written again only where a write outran a waiting       *)
(* compaction.                                                                *)

\* No clock a call works with is ahead of the wall clock.
CallClock == CompactionClock /\ (op.phase # "idle" => op.t <= now)

\* Tier-l parent p is over for every call that may still stage children: the one
\* that persists minutes and the compaction that waits to.
OverForCalls(l, p) ==
  /\ op.phase = "hot" => Due(l, p, op.t)
  /\ comp.stage = "waiting" => Due(l, p, comp.t)

\* A parent that sealed is over, and, unless its seal was outrun, for every call.
SealedOver ==
  \A l \in Tiers \ {1}, p \in Cell :
    rows[l][p] # {} => Due(l, p, now) /\ (<<l, p>> \in outrun \/ OverForCalls(l, p))

\* What waits below a parent that sealed, however many tiers below, waits because
\* that seal was outrun.
SealedApart ==
  \A k, l \in Tiers, d \in Cell :
    k < l /\ pend[k][d] # {} /\ rows[l][BucketOf(l, d)] # {} =>
      <<l, BucketOf(l, d)>> \in outrun

SealedInv == TypeOK /\ CallClock /\ SealedOver /\ SealedApart

\* What is over stays over.
LEMMA DueLater ==
  ASSUME NEW l \in Tiers, NEW p \in Cell, NEW t \in Int, NEW u \in Int, t <= u, Due(l, p, t)
  PROVE  Due(l, p, u)
<1>1. PICK e \in Int : e = (p.minute + Interval[l] + GraceMinutes) * TicksPerMinute
  <2>1. PICK m \in Int, i \in Int, g \in Int, w \in Int :
          m = p.minute /\ i = Interval[l] /\ g = GraceMinutes /\ w = TicksPerMinute
    BY CellMinute, IntervalType, RollupAssumption
  <2>2. (m + i + g) * w \in Int  OBVIOUS
  <2> QED BY <2>1, <2>2
<1>2. e <= t => e <= u
  OBVIOUS
<1> QED BY <1>1, <1>2 DEF Due

\* When a minute's bucket of one tier is over, so are its buckets of finer tiers.
LEMMA DueWithin ==
  ASSUME NEW k \in Tiers, NEW l \in Tiers, k <= l, NEW c \in Cell, NEW t \in Int,
         Due(l, BucketOf(l, c), t)
  PROVE  Due(k, BucketOf(k, c), t)
<1>1. PICK x \in Int : x = BucketOf(k, c).minute + Interval[k]
  BY BucketMinute, IntervalType
<1>2. PICK y \in Int : y = BucketOf(l, c).minute + Interval[l]
  BY BucketMinute, IntervalType
<1>3. x <= y
  BY <1>1, <1>2, BucketWithin
<1>4. PICK g \in Int, w \in Nat : g = GraceMinutes /\ w = TicksPerMinute
  BY RollupAssumption
<1>5. PICK n \in Nat : y = x + n
  <2>1. y - x \in Nat /\ y = x + (y - x)  BY <1>3
  <2> QED BY <2>1
<1>6. (y + g) * w = (x + g) * w + n * w /\ n * w \in Nat
  BY <1>4, <1>5
<1>7. (x + g) * w <= (y + g) * w
  BY <1>6, <1>4
<1>8. (y + g) * w <= t
  BY <1>2, <1>4 DEF Due
<1>9. (x + g) * w <= t
  <2>1. \A a, b \in Int : a <= b /\ b <= t => a <= t  OBVIOUS
  <2>2. (x + g) * w \in Int /\ (y + g) * w \in Int  BY <1>4
  <2> QED BY <1>7, <1>8, <2>1, <2>2
<1> QED BY <1>1, <1>4, <1>9 DEF Due

LEMMA Clocks ==
  ASSUME TypeOK
  PROVE  now \in Int /\ op.t \in Int /\ comp.t \in Int
BY RollupAssumption DEF TypeOK, Time

\* A write or a compaction begins with the time it is: everything sealed is over then.
LEMMA CallBegins ==
  ASSUME SealedInv, UNCHANGED <<now, rows, pend, outrun>>,
         op' = op \/ op'.t = now, comp' = comp \/ comp'.t = now
  PROVE  CallClock' /\ SealedOver' /\ SealedApart'
<1>1. CallClock'  BY Clocks DEF SealedInv, CallClock, CompactionClock
<1>2. SealedOver'
  <2> SUFFICES ASSUME NEW l \in Tiers \ {1}, NEW p \in Cell, rows[l][p] # {}
               PROVE  /\ Due(l, p, now)
                      /\ \/ <<l, p>> \in outrun
                         \/ /\ op'.phase = "hot" => Due(l, p, op'.t)
                            /\ comp'.stage = "waiting" => Due(l, p, comp'.t)
    BY DEF SealedOver, OverForCalls
  <2>1. Due(l, p, now) /\ (<<l, p>> \in outrun \/ OverForCalls(l, p))
    BY DEF SealedInv, SealedOver
  <2> QED BY <2>1 DEF OverForCalls
<1>3. SealedApart'  BY DEF SealedInv, SealedApart
<1> QED BY <1>1, <1>2, <1>3

\* A compaction gets its locks: what is over for it while it waits is over for its flush.
LEMMA FlushBegins ==
  ASSUME SealedInv, Flush
  PROVE  CallClock' /\ SealedOver' /\ SealedApart'
<1>1. /\ UNCHANGED <<now, rows, pend, outrun>> /\ comp.stage = "waiting"
      /\ op'.t = comp.t /\ comp'.t = comp.t /\ comp'.stage = "flushing"
  BY DEF Flush, history, SealedInv, TypeOK
<1>2. CallClock'  BY <1>1 DEF SealedInv, CallClock, CompactionClock
<1>3. SealedOver'
  <2> SUFFICES ASSUME NEW l \in Tiers \ {1}, NEW p \in Cell, rows[l][p] # {}
               PROVE  Due(l, p, now) /\ (<<l, p>> \in outrun \/ Due(l, p, comp.t))
    BY <1>1 DEF SealedOver, OverForCalls
  <2> QED BY <1>1 DEF SealedInv, SealedOver, OverForCalls
<1>4. SealedApart'  BY <1>1 DEF SealedInv, SealedApart
<1> QED BY <1>2, <1>3, <1>4

\* A persisted minute joins its parents only while the finest is open, hence all are.
LEMMA PersistApart ==
  ASSUME SealedInv, PersistHot
  PROVE  CallClock' /\ SealedOver' /\ SealedApart'
<1> DEFINE closed == ClosedCells(op.t)
<1>1. /\ op.phase = "hot" /\ pend' = [pend EXCEPT ![1] = Children(closed, op.t)]
      /\ \A l \in Tiers \ {1} : rows'[l] = rows[l]
      /\ now' = now /\ outrun' = outrun
  BY PersistSources DEF SealedInv, PersistHot
<1>2. TypeOK /\ 1 \in Tiers  BY RollupAssumption DEF SealedInv, Tiers
<1>3. /\ op'.phase # "hot" /\ (op'.phase # "idle" => op'.t = op.t)
      /\ comp'.t \in {comp.t, 0} /\ (comp'.stage = "waiting" => comp' = comp)
  BY <1>2 DEF PersistHot, Return, NoOp, NoComp, TypeOK
<1>4. CallClock'
  <2>1. 0 <= now  BY <1>2, RollupAssumption DEF TypeOK, Time
  <2> QED BY <1>1, <1>3, <2>1 DEF SealedInv, CallClock, CompactionClock
<1>5. SealedOver'
  BY <1>1, <1>3 DEF SealedInv, SealedOver, OverForCalls
<1>6. ASSUME NEW k \in Tiers, NEW l \in Tiers, NEW d \in Cell, k < l, pend'[k][d] # {},
             rows'[l][BucketOf(l, d)] # {}
      PROVE  <<l, BucketOf(l, d)>> \in outrun
  <2>1. l \in Tiers \ {1} /\ 2 \in Tiers /\ 2 <= l /\ Len(Interval) >= 2
    BY <1>6, RollupAssumption DEF Tiers
  <2>2. rows[l][BucketOf(l, d)] # {} /\ BucketOf(l, d) \in Cell
    BY <1>1, <1>6, <2>1, BucketType
  <2>3. CASE pend[k][d] # {}
    BY <1>6, <2>2, <2>3 DEF SealedInv, SealedApart
  <2>4. CASE pend[k][d] = {}
    <3>1. k = 1 /\ pend'[1] = Children(closed, op.t)
      BY <1>1, <1>2, <1>6, <2>4 DEF TypeOK
    <3>2. ~ParentDue(d, op.t)
      BY <1>6, <2>4, <3>1 DEF Children
    <3>3. ~Due(2, BucketOf(2, d), op.t)
      BY <2>1, <3>2 DEF ParentDue
    <3>4. ~Due(l, BucketOf(l, d), op.t)
      BY <1>2, <2>1, <3>3, DueWithin, Clocks
    <3> QED BY <1>1, <2>1, <2>2, <3>4 DEF SealedInv, SealedOver, OverForCalls
  <2> QED BY <2>3, <2>4
<1> QED BY <1>1, <1>4, <1>5, <1>6 DEF SealedApart

\* What a seal takes: waiting children, each of a parent that is over.
LEMMA Sealing ==
  ASSUME SealedInv, NEW l \in Tiers \ {1}, \A k \in DueTiers(op.t) : l <= k, Seal(l),
         op.phase = "coarse"
  PROVE  /\ \A p \in DueParents(l, op.t) :
              /\ p \in Cell /\ Due(l, p, op.t)
              /\ \E d \in Cell : p = BucketOf(l, d) /\ pend[l - 1][d] # {}
         /\ \A k \in Tiers, d \in Cell :
              k < l /\ BucketOf(l, d) \in DueParents(l, op.t) => pend'[k][d] = {}
<1>1. /\ l - 1 \in Tiers /\ Tiers \subseteq Int /\ op.t \in Int
  BY IntervalType, Clocks DEF SealedInv, Tiers
<1>2. \A p \in DueParents(l, op.t) :
        /\ p \in Cell /\ Due(l, p, op.t)
        /\ \E d \in Cell : p = BucketOf(l, d) /\ pend[l - 1][d] # {}
  BY BucketType DEF DueParents
<1>3. ASSUME NEW k \in Tiers, NEW d \in Cell, k < l, BucketOf(l, d) \in DueParents(l, op.t)
      PROVE  pend'[k][d] = {}
  <2>1. CASE k = l - 1  BY <1>3, <2>1 DEF Seal
  <2>2. CASE k # l - 1
    <3>1. k # l /\ k + 1 \in Tiers \ {1} /\ k + 1 <= l /\ ~(l <= k + 1) /\ (k + 1) - 1 = k
      BY <1>1, <1>3, <2>2, RollupAssumption DEF Tiers
    <3>2. pend'[k][d] = pend[k][d]  BY <2>2, <3>1 DEF Seal
    <3>3. Due(k + 1, BucketOf(k + 1, d), op.t)
      BY <1>1, <1>2, <1>3, <3>1, DueWithin
    <3>4. SUFFICES ASSUME pend[k][d] # {} PROVE FALSE  BY <3>2
    <3>5. BucketOf(k + 1, d) \in DueParents(k + 1, op.t)
      BY <3>1, <3>3, <3>4 DEF DueParents
    <3> QED BY <3>1, <3>5 DEF DueTiers
  <2> QED BY <2>1, <2>2
<1> QED BY <1>2, <1>3

\* A parent about to seal that has a row was outrun.
LEMMA NoRowYet ==
  ASSUME SealedInv, NEW l \in Tiers \ {1}, NEW d \in Cell, pend[l - 1][d] # {},
         rows[l][BucketOf(l, d)] # {}
  PROVE  <<l, BucketOf(l, d)>> \in outrun
<1>1. l - 1 \in Tiers /\ l - 1 < l
  BY IntervalType DEF Tiers
<1> QED BY <1>1 DEF SealedInv, SealedApart

\* The finest due tier seals: its parents leave nothing below them, what they hand to
\* the tier above waits where its children waited, and a compaction for which one of
\* them is not over has been outrun.
LEMMA SealApart ==
  ASSUME SealedInv, PersistCoarse
  PROVE  /\ CallClock' /\ SealedOver' /\ SealedApart'
         /\ \A l \in Tiers \ {1}, p \in Cell :
              rows[l][p] # {} => rows'[l][p] = rows[l][p] \/ <<l, p>> \in outrun
<1>1. PICK l \in Tiers \ {1} :
        Seal(l) /\ outrun' = outrun \cup Overtaken(l) /\ \A k \in DueTiers(op.t) : l <= k
  BY DEF PersistCoarse, DueTiers
<1> DEFINE due == DueParents(l, op.t)
<1>2. op.phase = "coarse" /\ UNCHANGED <<now, op, comp>> /\ TypeOK
  BY DEF PersistCoarse, SealedInv
<1>3. /\ \A p \in due : /\ p \in Cell /\ Due(l, p, op.t)
                        /\ \E d \in Cell : p = BucketOf(l, d) /\ pend[l - 1][d] # {}
      /\ \A k \in Tiers, d \in Cell : k < l /\ BucketOf(l, d) \in due => pend'[k][d] = {}
  BY <1>1, <1>2, Sealing
<1>4. /\ \A p \in Cell : rows'[l][p] # rows[l][p] => p \in due
      /\ \A m \in Tiers : m # l => rows'[m] = rows[m]
  <2> DEFINE row == [p \in Cell |-> IF p \in due THEN Merged(l, p) ELSE rows[l][p]]
  <2>1. rows' = [rows EXCEPT ![l] = row]  BY <1>1 DEF Seal
  <2>2. \A p \in Cell : row[p] # rows[l][p] => p \in due  OBVIOUS
  <2> HIDE DEF row, due
  <2> QED BY <1>2, <2>1, <2>2 DEF TypeOK
<1>5. \A k \in Tiers, d \in Cell :
        pend'[k][d] # {} => pend[k][d] # {} \/ (k = l /\ d \in due)
  BY <1>1 DEF Seal
<1>6. \A p \in due : rows[l][p] # {} => <<l, p>> \in outrun
  BY <1>3, NoRowYet
<1>7. \A p \in due : \/ <<l, p>> \in outrun'
                     \/ (comp.stage = "waiting" => Due(l, p, comp.t))
  BY <1>1 DEF Overtaken
<1>8. outrun \subseteq outrun'  BY <1>1
<1> HIDE DEF due
<1>9. CallClock'
  BY <1>2 DEF SealedInv, CallClock, CompactionClock
<1>10. SealedOver'
  <2> SUFFICES ASSUME NEW m \in Tiers \ {1}, NEW p \in Cell, rows'[m][p] # {}
               PROVE  /\ Due(m, p, now)
                      /\ \/ <<m, p>> \in outrun'
                         \/ (comp.stage = "waiting" => Due(m, p, comp.t))
    BY <1>2 DEF SealedOver, OverForCalls
  <2>1. CASE m = l /\ p \in due
    <3>1. op.t <= now  BY <1>2 DEF SealedInv, CallClock
    <3>2. Due(m, p, now)  BY <1>2, <1>3, <2>1, <3>1, DueLater, Clocks
    <3> QED BY <1>7, <2>1, <3>2
  <2>2. CASE ~ (m = l /\ p \in due)
    <3>1. rows[m][p] # {}  BY <1>4, <2>2
    <3> QED BY <1>8, <3>1 DEF SealedInv, SealedOver, OverForCalls
  <2> QED BY <2>1, <2>2
<1>11. ASSUME NEW k \in Tiers, NEW m \in Tiers, NEW d \in Cell, k < m, pend'[k][d] # {},
              rows'[m][BucketOf(m, d)] # {}
       PROVE  <<m, BucketOf(m, d)>> \in outrun'
  <2>1. BucketOf(m, d) \in Cell  BY BucketType
  <2>2. rows[m][BucketOf(m, d)] # {}
    BY <1>3, <1>4, <1>11, <2>1
  <2>3. CASE pend[k][d] # {}
    BY <1>8, <1>11, <2>2, <2>3 DEF SealedInv, SealedApart
  <2>4. CASE k = l /\ d \in due
    <3>1. PICK e \in Cell : d = BucketOf(l, e) /\ pend[l - 1][e] # {}  BY <1>3, <2>4
    <3>2. l - 1 \in Tiers /\ l - 1 < m /\ l <= m
      BY <1>11, <2>4, IntervalType DEF Tiers
    <3>3. BucketOf(m, d) = BucketOf(m, e)
      BY <3>1, <3>2, BucketWithin
    <3>4. <<m, BucketOf(m, e)>> \in outrun
      BY <2>2, <3>1, <3>2, <3>3 DEF SealedInv, SealedApart
    <3> QED BY <1>8, <3>3, <3>4
  <2> QED BY <1>5, <1>11, <2>3, <2>4
<1>12. \A m \in Tiers \ {1}, p \in Cell :
         rows[m][p] # {} => rows'[m][p] = rows[m][p] \/ <<m, p>> \in outrun
  BY <1>4, <1>6
<1> QED BY <1>9, <1>10, <1>11, <1>12 DEF SealedApart

LEMMA SealedStep ==
  ASSUME SealedInv, [Next]_vars
  PROVE  SealedInv'
<1>1. TypeOK /\ TypeOK'  BY TypeStep DEF SealedInv
<1>2. SUFFICES CallClock' /\ SealedOver' /\ SealedApart'  BY <1>1 DEF SealedInv
<1>3. /\ now \in Int /\ 0 <= now /\ op.t \in Int /\ comp.t \in Int
  BY <1>1, Clocks, RollupAssumption DEF TypeOK, Time
<1>4. ASSUME NEW b \in Batches, WriteBatch(b)
      PROVE  CallClock' /\ SealedOver' /\ SealedApart'
  BY <1>4, CallBegins DEF WriteBatch
<1>5. CASE CompactStart
  BY <1>5, CallBegins DEF CompactStart, history, memory
<1>6. CASE Flush  BY <1>6, FlushBegins
<1>7. CASE PersistHot  BY <1>7, PersistApart
<1>8. CASE PersistCoarse  BY <1>8, SealApart
<1>9. CASE Tick
  <2>1. /\ now' = now + 1 /\ now <= now' /\ now' \in Int
        /\ UNCHANGED <<rows, pend, op, comp, outrun>>
    BY <1>3, <1>9 DEF Tick, memory, history
  <2>2. CallClock'  BY <1>3, <2>1 DEF SealedInv, CallClock, CompactionClock
  <2>3. SealedOver'
    <3> SUFFICES ASSUME NEW l \in Tiers \ {1}, NEW p \in Cell, rows[l][p] # {}
                 PROVE  Due(l, p, now') /\ (<<l, p>> \in outrun \/ OverForCalls(l, p))
      BY <2>1 DEF SealedOver, OverForCalls
    <3>1. Due(l, p, now) /\ (<<l, p>> \in outrun \/ OverForCalls(l, p))
      BY DEF SealedInv, SealedOver
    <3> QED BY <1>3, <2>1, <3>1, DueLater
  <2>4. SealedApart'  BY <2>1 DEF SealedInv, SealedApart
  <2> QED BY <2>2, <2>3, <2>4
<1>10. CASE DeleteSeries \/ DeleteBefore
  <2>1. /\ \A l \in Tiers, p \in Cell : rows'[l][p] = {}
        /\ UNCHANGED <<now, op, comp>>
    BY <1>10 DEF DeleteSeries, DeleteBefore, Empty
  <2> QED BY <2>1, BucketType DEF SealedInv, CallClock, CompactionClock, SealedOver, SealedApart
<1>11. CASE Close \/ Crash
  <2>1. /\ \A l \in Tiers \ {1} : rows'[l] = rows[l]
        /\ \A l \in Tiers, c \in Cell : pend'[l][c] = {}
        /\ now' = now /\ outrun' = outrun
    BY <1>1, <1>11, DownSources DEF Close, Crash, history
  <2>2. op'.phase = "idle" /\ comp'.stage = "idle" /\ comp'.t \in {comp.t, 0}
    BY <1>1, <1>11 DEF Close, Crash, NoOp, NoComp
  <2>3. CallClock'
    BY <1>3, <2>1, <2>2 DEF SealedInv, CallClock, CompactionClock
  <2>4. SealedOver'  BY <2>1, <2>2 DEF SealedInv, SealedOver, OverForCalls
  <2>5. SealedApart'  BY <2>1 DEF SealedApart
  <2> QED BY <2>3, <2>4, <2>5
<1>12. CASE \/ FlushCoarse \/ PersistHotFails \/ PersistCoarseFails \/ CoarseDone
            \/ Open \/ UNCHANGED vars
  <2>1. UNCHANGED <<now, rows, pend, outrun>>
    BY <1>12 DEF FlushCoarse, PersistHotFails, PersistCoarseFails, CoarseDone,
                 Open, vars, memory, history
  <2>2. \/ op' = op
        \/ op'.phase = "idle"
        \/ op'.phase = "coarse" /\ op'.t = comp.t
    BY <1>12 DEF FlushCoarse, PersistHotFails, PersistCoarseFails, CoarseDone,
                 Return, NoOp, Open, vars
  <2>3. comp'.t \in {comp.t, 0} /\ (comp'.stage = "waiting" => comp' = comp)
    BY <1>1, <1>12 DEF FlushCoarse, PersistHotFails, PersistCoarseFails,
                 CoarseDone, Return, NoComp, Open, vars, TypeOK
  <2>4. CallClock'
    BY <1>3, <2>1, <2>2, <2>3 DEF SealedInv, CallClock, CompactionClock
  <2>5. SealedOver'  BY <2>1, <2>2, <2>3 DEF SealedInv, SealedOver, OverForCalls
  <2>6. SealedApart'  BY <2>1 DEF SealedInv, SealedApart
  <2> QED BY <2>4, <2>5, <2>6
<1> QED BY <1>4, <1>5, <1>6, <1>7, <1>8, <1>9, <1>10, <1>11, <1>12 DEF Next

\* Only a seal and a deletion change a sealed tier, and a seal writes a sealed row only
\* where it was outrun.
LEMMA ImmutableStep ==
  ASSUME SealedInv, [Next]_vars, NEW l \in Tiers \ {1}, NEW p \in Cell, rows[l][p] # {}
  PROVE  rows'[l][p] = rows[l][p] \/ <<l, p>> \in outrun \/ DeleteSeries \/ DeleteBefore
<1>1. CASE PersistCoarse  BY <1>1, SealApart
<1>2. CASE PersistHot  BY <1>2, PersistSources DEF SealedInv
<1>3. CASE Close \/ Crash  BY <1>3, DownSources DEF SealedInv
<1>4. CASE \/ Tick \/ (\E b \in Batches : WriteBatch(b)) \/ CompactStart \/ Flush \/ FlushCoarse
           \/ PersistHotFails \/ PersistCoarseFails \/ CoarseDone \/ Open \/ UNCHANGED vars
  BY <1>4 DEF Tick, WriteBatch, CompactStart, Flush, FlushCoarse, PersistHotFails,
              PersistCoarseFails, CoarseDone, Open, vars
<1> QED BY <1>1, <1>2, <1>3, <1>4 DEF Next

LEMMA SealedInit == Init => SealedInv
<1> SUFFICES ASSUME Init PROVE SealedInv  OBVIOUS
<1>1. \A l \in Tiers, p \in Cell : rows[l][p] = {} /\ pend[l][p] = {}
  BY DEF Init, Empty
<1>2. CallClock  BY DEF Init, CallClock, CompactionClock, NoOp, NoComp
<1> QED BY <1>1, <1>2, InitType DEF SealedInv, SealedOver, SealedApart

\* However late samples come, transactions fail, the process restarts and compactions
\* wait for their locks, a sealed parent is written again only when a write sealed it
\* past a compaction that waited with an older clock.
THEOREM SealedStays == Spec => SealedUnlessOutrun
<1>1. Spec => []SealedInv
  BY SealedInit, SealedStep, PTL DEF Spec
<1>2. ASSUME SealedInv, [Next]_vars
      PROVE  [\A l \in Tiers \ {1}, p \in Cell :
                rows[l][p] # {} => \/ rows'[l][p] = rows[l][p]
                                   \/ <<l, p>> \in outrun
                                   \/ DeleteSeries \/ DeleteBefore]_vars
  BY <1>2, ImmutableStep
<1> QED BY <1>1, <1>2, PTL DEF Spec, SealedUnlessOutrun

=============================================================================
