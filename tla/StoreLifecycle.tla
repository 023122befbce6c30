--------------------------- MODULE StoreLifecycle ---------------------------
(***************************************************************************)
(* The life of the process-wide metric store: who may hold it, who may      *)
(* replace it, and how it goes away (internal/metricstore/store.go,         *)
(* operation_gate.go, store_migration.go, maintenance.go, compaction.go,    *)
(* raw_sql.go; internal/server/metric_store.go and runtime.go for the       *)
(* shutdown sequence).                                                      *)
(*                                                                         *)
(* Every goroutine runs one call at a time.  The gate is the FIFO weighted  *)
(* semaphore of golang.org/x/sync: a shared lease weighs 1, an exclusive    *)
(* one all 1024 units.  Fewer than 1024 calls run here, so leases are       *)
(* compatible exactly when none of two is exclusive.                        *)
(***************************************************************************)
EXTENDS Naturals, Sequences, FiniteSets

CONSTANTS
  Clients,       \* goroutines of requests and scheduled jobs
  Main,          \* the goroutine that runs the cleanups of a shutdown
  Migrator,      \* the goroutine of a store migration
  Targets,       \* databases a configuration may name (fingerprints)
  DefaultTarget, \* defaultSQLiteFingerprint
  NoTarget,      \* the empty fingerprint
  Offered,       \* operations the clients call
  Impatient,     \* goroutines whose context may end while they wait
  MaxOpens       \* bound: stores the process ever opens

ASSUME LifecycleAssumption ==
  /\ Main \notin Clients /\ Migrator \notin Clients \cup {Main}
  /\ DefaultTarget \in Targets /\ NoTarget \notin Targets
  /\ Offered \subseteq {"report", "query", "compact", "exec", "reclaim",
                        "reload", "migrate", "cancel", "read"}
  /\ Impatient \subseteq Clients \cup {Main}
  /\ MaxOpens \in Nat

VARIABLES
  configured,  \* the target in the configuration
  saved,       \* the configuration's MigrationTargetKey
  active,      \* store: the id of the opened store, 0 for nil
  fingerprint, \* storeFingerprint
  opened,      \* history: the target of each store opened so far
  open,        \* ids of the stores not yet closed
  holders,     \* goroutines that hold a lease of storeOperations
  waiters,     \* goroutines queued for one, first come first served
  closing,     \* storeClosing
  expired,     \* the deadline all cleanups share has passed
  migration,   \* storeMigCancel and storeMigDone, and the goroutine's inputs
  job          \* what each goroutine is doing

config  == <<configured, saved>>
stores  == <<active, fingerprint, opened, open>>
gate    == <<holders, waiters>>
flags   == <<closing, expired>>
vars    == <<config, stores, gate, flags, migration, job>>

Callers   == Clients \cup {Main}
Shared    == {"report", "query", "compact", "flush"}
Exclusive == {"exec", "reclaim", "reload", "close"}
Gated     == Shared \cup Exclusive

Idle        == [op |-> "none", at |-> "idle", store |-> 0, target |-> NoTarget]
NoMigration == [at |-> "idle", canceled |-> FALSE, store |-> 0, target |-> NoTarget]

At(t, op, at) == job[t].op = op /\ job[t].at = at
Moved(t, at)  == [job EXCEPT ![t].at = at]

\* Faulty: a reload takes a shared lease.
ExcludesButReload(t) == t = Migrator \/ job[t].op \in (Exclusive \ {"reload"}) \cup {"migrate"}

(***************************************************************************)
(* The gate.                                                               *)
(***************************************************************************)
Excludes(t) == t = Migrator \/ job[t].op \in Exclusive \cup {"migrate"}

Compatible(S) == \A t, u \in S : Excludes(t) => t = u

\* How many of the queue q get their leases beside the holders h: notifyWaiters
\* stops at the first one that does not fit, so later ones cannot overtake it.
Admitted(h, q) ==
  LET Fits(n) == Compatible(h \cup {q[i] : i \in 1 .. n})
  IN  CHOOSE n \in 0 .. Len(q) :
        /\ \A m \in 1 .. n : Fits(m)
        /\ n < Len(q) => ~Fits(n + 1)

\* The gate after its holders became h and its queue q; j is the goroutines'
\* state apart from those that get a lease now.
Notify(h, q, j) ==
  LET n     == Admitted(h, q)
      woken == {q[i] : i \in 1 .. n}
  IN  /\ holders' = h \cup woken
      /\ waiters' = SubSeq(q, n + 1, Len(q))
      /\ job' = [t \in Callers |->
                   IF t \in woken THEN [j[t] EXCEPT !.at = "granted"] ELSE j[t]]

\* The queue q without the place of t, which has at most one.
Without(q, t) ==
  IF \E i \in 1 .. Len(q) : q[i] = t
    THEN LET i == CHOOSE k \in 1 .. Len(q) : q[k] = t
         IN  [k \in 1 .. Len(q) - 1 |-> IF k < i THEN q[k] ELSE q[k + 1]]
    ELSE q

\* runCleanups: migration, report batcher, store, whatever each one returned.
NextCleanup(op) ==
  CASE op = "stop"  -> [Idle EXCEPT !.op = "flush", !.at = "asking"]
    [] op = "flush" -> [Idle EXCEPT !.op = "close", !.at = "stopping"]
    [] op = "close" -> [Idle EXCEPT !.op = "down"]

Returned(t) ==
  [job EXCEPT ![t] = IF t = Main THEN NextCleanup(@.op) ELSE Idle]

\* The call of t returns, and with it goes its lease or its place in the queue.
Leave(t) == Notify(holders \ {t}, Without(waiters, t), Returned(t))

\* Faulty: whoever fits goes first.
AcquireBarging(t) ==
  /\ ~(t = Main /\ expired)
  /\ job[t].op \in Gated /\ job[t].at = "asking"
  /\ IF Compatible(holders \cup {t})
       THEN /\ holders' = holders \cup {t} /\ UNCHANGED waiters
            /\ job' = Moved(t, "granted")
       ELSE /\ waiters' = Append(waiters, t) /\ UNCHANGED holders
            /\ job' = Moved(t, "waiting")
  /\ UNCHANGED <<config, stores, flags, migration>>

\* Acquire and AcquireShared.
Acquire(t) ==
  /\ ~(t = Main /\ expired)
  /\ job[t].op \in Gated /\ job[t].at = "asking"
  /\ IF waiters = <<>> /\ Compatible(holders \cup {t})
       THEN /\ holders' = holders \cup {t} /\ UNCHANGED waiters
            /\ job' = Moved(t, "granted")
       ELSE /\ waiters' = Append(waiters, t) /\ UNCHANGED holders
            /\ job' = Moved(t, "waiting")
  /\ UNCHANGED <<config, stores, flags, migration>>

\* The caller's context ends before it uses its lease.  Reclaiming space has no
\* deadline; a close that gives up lets the store be used again.
GiveUp(t) ==
  /\ t \in Impatient /\ (t = Main => expired)
  /\ job[t].op \in (Gated \ {"reclaim"}) \cup {"cancel", "stop"}
  /\ job[t].at \in {"asking", "waiting", "granted", "awaiting"}
  /\ closing' = (closing /\ job[t].op # "close")
  /\ Leave(t)
  /\ UNCHANGED <<config, stores, expired, migration>>

(***************************************************************************)
(* Calls that use the store.                                               *)
(***************************************************************************)
Call(t, op) ==
  /\ opened # <<>>
  /\ job[t] = Idle
  /\ op \in Offered \ {"reload", "migrate"}
  /\ op = "compact" => \A u \in Callers : job[u].op # "compact"
  /\ job' = [job EXCEPT ![t].op = op, ![t].at = "asking"]
  /\ UNCHANGED <<config, stores, gate, flags, migration>>

\* Under a lease, read the variable; nil fails the call.
ReadStore(t) ==
  /\ job[t].op \in Gated \ {"reload", "close"} /\ job[t].at = "granted"
  /\ IF active = 0
       THEN Leave(t)
       ELSE job' = [job EXCEPT ![t].at = "using", ![t].store = active] /\ UNCHANGED gate
  /\ UNCHANGED <<config, stores, flags, migration>>

\* GetStore without a lease: history queries, ping writes and deletions.
GetStore(t) ==
  /\ At(t, "read", "asking")
  /\ job' = IF active = 0 THEN Returned(t)
            ELSE [job EXCEPT ![t].at = "using", ![t].store = active]
  /\ UNCHANGED <<config, stores, gate, flags, migration>>

Finish(t) ==
  /\ job[t].at = "using"
  /\ Leave(t)
  /\ UNCHANGED <<config, stores, flags, migration>>

(***************************************************************************)
(* Opening and replacing the store.                                        *)
(***************************************************************************)
Opened(target) ==
  /\ Len(opened) < MaxOpens
  /\ opened' = Append(opened, target)
  /\ active' = Len(opened')
  /\ fingerprint' = target
  /\ open' = open \cup {active'}

\* A compaction keeps storeMu read-locked while it works.
StoreUnlocked == \A u \in Callers : ~At(u, "compact", "using")

\* At startup; a failed attempt changes nothing and is retried or recovered.
InitializeStore ==
  /\ opened = <<>>
  /\ Opened(configured)
  /\ closing' = FALSE
  /\ UNCHANGED <<config, gate, expired, migration, job>>

\* From the recovery page, before anything else runs.  A target that still has
\* the old structure is only recorded.
RecoverStore(target, outdated) ==
  /\ opened = <<>>
  /\ configured' = target /\ saved' = target
  /\ IF outdated
       THEN UNCHANGED <<stores, closing>>
       ELSE Opened(target) /\ closing' = FALSE
  /\ UNCHANGED <<gate, expired, migration, job>>

\* adminEditSettings: the new target is saved, then Reload waits for the gate.
EditSettings(t, target) ==
  /\ opened # <<>>
  /\ job[t] = Idle /\ "reload" \in Offered
  /\ configured' = target
  /\ job' = [job EXCEPT ![t].op = "reload", ![t].at = "asking"]
  /\ UNCHANGED <<saved, stores, gate, flags, migration>>

\* Faulty: a reload that waited does not ask whether the store was closed.
ReloadReadsAlways(t) ==
  /\ At(t, "reload", "granted")
  /\ job' = [job EXCEPT ![t].at = "opening", ![t].target = configured]
  /\ UNCHANGED <<config, stores, gate, flags, migration>>

\* Reload reads the configuration, unless the store is being closed.
ReloadReads(t) ==
  /\ At(t, "reload", "granted")
  /\ IF closing
       THEN Leave(t)
       ELSE /\ job' = [job EXCEPT ![t].at = "opening", ![t].target = configured]
            /\ UNCHANGED gate
  /\ UNCHANGED <<config, stores, flags, migration>>

\* The connection fails or the target needs a structure upgrade first.
ReloadFails(t) ==
  /\ At(t, "reload", "opening")
  /\ Leave(t)
  /\ UNCHANGED <<config, stores, flags, migration>>

\* Faulty: the store that was replaced stays open.
ReloadKeepsOld(t) ==
  /\ At(t, "reload", "swapped")
  /\ Leave(t)
  /\ UNCHANGED <<config, stores, flags, migration>>

ReloadSwaps(t) ==
  /\ At(t, "reload", "opening") /\ StoreUnlocked
  /\ Opened(job[t].target)
  /\ job' = [job EXCEPT ![t].at = "swapped", ![t].store = active]
  /\ UNCHANGED <<config, gate, flags, migration>>

ReloadClosesOld(t) ==
  /\ At(t, "reload", "swapped")
  /\ open' = open \ {job[t].store}
  /\ Leave(t)
  /\ UNCHANGED <<config, active, fingerprint, opened, flags, migration>>

(***************************************************************************)
(* The store migration.                                                    *)
(***************************************************************************)
DefaultSource == IF saved # NoTarget THEN saved ELSE DefaultTarget

\* Faulty: the migration asks for a shared lease.
TryAcquireShared(t) ==
  /\ At(t, "migrate", "asking")
  /\ IF (\A u \in holders : ~Excludes(u)) /\ waiters = <<>>
       THEN holders' = holders \cup {t} /\ job' = Moved(t, "granted")
       ELSE job' = Returned(t) /\ UNCHANGED holders
  /\ UNCHANGED <<config, stores, waiters, flags, migration>>

\* The start of StartStoreMigration, before it asks for the lease; source is
\* NoTarget when the administrator names none.
RequestMigration(t, source) ==
  /\ opened # <<>>
  /\ job[t] = Idle /\ "migrate" \in Offered
  /\ (IF source = NoTarget THEN DefaultSource ELSE source) # configured
  /\ job' = [job EXCEPT ![t].op = "migrate", ![t].at = "asking", ![t].target = configured]
  /\ UNCHANGED <<config, stores, gate, flags, migration>>

\* Faulty: the configured target need not be the served one.
MayMigrateAny(target) == active # 0 /\ ~closing /\ migration.at = "idle"

\* Faulty: a shutdown does not keep migrations from starting.
MayMigrateClosing(target) == active # 0 /\ fingerprint = target /\ migration.at = "idle"

TryAcquire(t) ==
  /\ At(t, "migrate", "asking")
  /\ IF holders = {} /\ waiters = <<>>
       THEN holders' = {t} /\ job' = Moved(t, "granted")
       ELSE job' = Returned(t) /\ UNCHANGED holders
  /\ UNCHANGED <<config, stores, waiters, flags, migration>>

MayMigrate(target) ==
  /\ active # 0 /\ fingerprint = target
  /\ ~closing /\ migration.at = "idle"

\* Faulty: the deferred release also runs when the lease was handed off.
StartMigrationUnleased(t) ==
  /\ At(t, "migrate", "granted")
  /\ migration' = IF MayMigrate(job[t].target)
                    THEN [at |-> "copying", canceled |-> FALSE,
                          store |-> active, target |-> job[t].target]
                    ELSE migration
  /\ Leave(t)
  /\ UNCHANGED <<config, stores, flags>>

\* The lease passes to the migration's goroutine, or is given back.
StartMigration(t) ==
  /\ At(t, "migrate", "granted")
  /\ IF MayMigrate(job[t].target)
       THEN /\ migration' = [at |-> "copying", canceled |-> FALSE,
                             store |-> active, target |-> job[t].target]
            /\ holders' = (holders \ {t}) \cup {Migrator}
            /\ job' = Returned(t) /\ UNCHANGED waiters
       ELSE Leave(t) /\ UNCHANGED migration
  /\ UNCHANGED <<config, stores, flags>>

\* The copy ends: complete and recorded, or failed, canceled or not recorded.
EndCopy ==
  /\ migration.at = "copying"
  /\ migration' = [migration EXCEPT !.at = "ending"]
  /\ saved' \in {migration.target, saved}
  /\ UNCHANGED <<configured, stores, gate, flags, job>>

\* The deferred end of runStoreMigration: the lease first, then the channel.
ReleaseMigration ==
  /\ migration.at = "ending"
  /\ migration' = [migration EXCEPT !.at = "released"]
  /\ Notify(holders \ {Migrator}, waiters, job)
  /\ UNCHANGED <<config, stores, flags>>

\* What a goroutine does once the channel is closed.
Awoken(t) ==
  IF job[t].at # "awaiting" THEN job[t]
  ELSE IF job[t].op = "close" THEN [job[t] EXCEPT !.at = "asking"]
  ELSE Returned(t)[t]

ClearMigration ==
  /\ migration.at = "released"
  /\ migration' = NoMigration
  /\ job' = [t \in Callers |-> Awoken(t)]
  /\ UNCHANGED <<config, stores, gate, flags>>

\* stopStoreMigration: cancel it, and wait until it has cleared its state.
CancelMigration(t) ==
  /\ At(t, "cancel", "asking")
  /\ IF migration.at = "idle"
       THEN job' = Returned(t) /\ UNCHANGED migration
       ELSE job' = Moved(t, "awaiting") /\ migration' = [migration EXCEPT !.canceled = TRUE]
  /\ UNCHANGED <<config, stores, gate, flags>>

(***************************************************************************)
(* Shutdown.                                                               *)
(***************************************************************************)
BeginShutdown ==
  /\ opened # <<>>
  /\ job[Main] = Idle
  /\ job' = [job EXCEPT ![Main].op = "stop", ![Main].at = "stopping"]
  /\ UNCHANGED <<config, stores, gate, flags, migration>>

Expire ==
  /\ Main \in Impatient /\ job[Main].op \in {"stop", "flush", "close"}
  /\ ~expired /\ expired' = TRUE
  /\ UNCHANGED <<config, stores, gate, closing, migration, job>>

\* Faulty: waits for the migration without canceling it.
StopMigrationWaiting ==
  /\ job[Main].at = "stopping"
  /\ closing' = TRUE
  /\ IF migration.at # "idle" THEN job' = Moved(Main, "awaiting")
     ELSE job' = IF job[Main].op = "close" THEN Moved(Main, "asking") ELSE Returned(Main)
  /\ UNCHANGED <<config, stores, gate, expired, migration>>

\* stopStoreMigrationForClose, called by the first cleanup and by the close.
StopMigration ==
  /\ job[Main].at = "stopping"
  /\ closing' = TRUE
  /\ IF migration.at = "idle"
       THEN /\ job' = IF job[Main].op = "close" THEN Moved(Main, "asking") ELSE Returned(Main)
            /\ UNCHANGED migration
       ELSE /\ job' = Moved(Main, "awaiting")
            /\ migration' = [migration EXCEPT !.canceled = TRUE]
  /\ UNCHANGED <<config, stores, gate, expired>>

CloseStore ==
  /\ At(Main, "close", "granted") /\ StoreUnlocked
  /\ active' = 0 /\ fingerprint' = NoTarget
  /\ open' = open \ {active}
  /\ Leave(Main)
  /\ UNCHANGED <<config, opened, flags, migration>>

-----------------------------------------------------------------------------
Init ==
  /\ configured \in Targets /\ saved \in Targets \cup {NoTarget}
  /\ active = 0 /\ fingerprint = NoTarget /\ opened = <<>> /\ open = {}
  /\ holders = {} /\ waiters = <<>>
  /\ closing = FALSE /\ expired = FALSE /\ migration = NoMigration
  /\ job = [t \in Callers |-> Idle]

\* What a client's goroutine does next once it is called.
Step(t) ==
  \/ Acquire(t) \/ ReadStore(t) \/ GetStore(t) \/ Finish(t)
  \/ ReloadReads(t) \/ ReloadFails(t) \/ ReloadSwaps(t) \/ ReloadClosesOld(t)
  \/ TryAcquire(t) \/ StartMigration(t) \/ CancelMigration(t)

Cleanup == StopMigration \/ CloseStore \/ GiveUp(Main)
Migrate == EndCopy \/ ReleaseMigration \/ ClearMigration

Next ==
  \/ InitializeStore
  \/ \E target \in Targets, outdated \in BOOLEAN : RecoverStore(target, outdated)
  \/ \E t \in Clients :
       \/ \E op \in Offered : Call(t, op)
       \/ \E target \in Targets : EditSettings(t, target)
       \/ \E source \in Targets \cup {NoTarget} : RequestMigration(t, source)
  \/ BeginShutdown \/ Expire \/ Cleanup \/ Migrate
  \/ \E t \in Callers : Step(t)
  \/ \E t \in Clients : GiveUp(t)

Spec == Init /\ [][Next]_vars

\* Goroutines that may run are run, and databases answer.  A copy may take as
\* long as it likes, but its context is passed to every query and write, so it
\* ends once it is canceled.
Fairness ==
  /\ WF_vars(Cleanup)
  /\ WF_vars(ReleaseMigration \/ ClearMigration)
  /\ WF_vars(migration.canceled /\ EndCopy)
  /\ \A t \in Callers : WF_vars(Step(t))

FairSpec == Spec /\ Fairness

-----------------------------------------------------------------------------
Steps == {"idle", "stopping", "awaiting", "asking", "waiting", "granted",
          "using", "opening", "swapped"}

Jobs == [op : Gated \cup {"none", "read", "migrate", "cancel", "stop", "down"},
         at : Steps, store : 0 .. MaxOpens, target : Targets \cup {NoTarget}]

MigrationStates == [at : {"idle", "copying", "ending", "released"}, canceled : BOOLEAN,
                    store : 0 .. MaxOpens, target : Targets \cup {NoTarget}]

\* Type invariant.
TypeOK ==
  /\ configured \in Targets /\ saved \in Targets \cup {NoTarget}
  /\ opened \in Seq(Targets) /\ Len(opened) <= MaxOpens
  /\ active \in 0 .. Len(opened) /\ open \subseteq 1 .. Len(opened)
  /\ fingerprint \in IF active = 0 THEN {NoTarget} ELSE Targets
  /\ holders \subseteq Callers \cup {Migrator} /\ waiters \in Seq(Callers)
  /\ closing \in BOOLEAN /\ expired \in BOOLEAN
  /\ migration \in MigrationStates
  /\ job \in [Callers -> Jobs]

\* Whoever works on the store under a lease works on the store that is served,
\* and that store is open: no reload, close or migration pulls it away
\* (operation_gate.go:9-11).
LeaseKeepsStore ==
  \A t \in Callers :
    job[t].op \in Gated /\ job[t].at = "using"
      => job[t].store = active /\ active \in open

\* A migration copies into the store that is served, of the target it was
\* started for (store_migration.go:19-20, :126-128).
MigrationKeepsTarget ==
  migration.at = "copying"
    => /\ migration.store = active /\ active \in open
       /\ migration.target = fingerprint /\ opened[active] = fingerprint

\* Nothing else holds a lease while a reload, a close, a statement or a
\* migration holds the exclusive one (operation_gate.go:11).
ExclusiveAlone == Compatible(holders)

\* Once the first cleanup has returned in time there is no migration and none
\* can start, so the report batcher's last flush finds the gate free of it
\* (store_migration.go:271-272, metric_store.go:86-87).
QuietShutdown ==
  job[Main].op \in {"flush", "close"} /\ ~expired
    => migration.at = "idle"

\* Every connection pool that was opened is the served one, or the one a reload
\* is about to close (store.go:249-253).
NoLostConnection ==
  \A s \in open : s = active \/ \E t \in Callers : At(t, "reload", "swapped") /\ job[t].store = s

\* A reader that took the store keeps an open store, as the gate promises to
\* "regular reads" (operation_gate.go:9-10).
ReadsKeepStore ==
  \A t \in Callers : job[t].at = "using" => job[t].store \in open

\* What a goroutine does to the store under a lease.
WorkOf(t) ==
  IF t = Migrator
    THEN IF migration.at = "copying" THEN [store |-> migration.store, alone |-> TRUE]
                                     ELSE [store |-> 0, alone |-> FALSE]
    ELSE IF job[t].op \in Gated /\ job[t].at = "using"
           THEN [store |-> job[t].store, alone |-> job[t].op \in Exclusive]
           ELSE [store |-> 0, alone |-> FALSE]

\* The service the gate, the reloads, the migrations and the shutdown implement.
Service == INSTANCE ServedStore WITH
             Users <- Callers \cup {Migrator}, served <- active, recorded <- saved,
             work <- [t \in Callers \cup {Migrator} |-> WorkOf(t)]

\* "Store replacement and maintenance take the whole gate exclusively"
\* (operation_gate.go:10-11), from the first store to the shutdown: every step of the
\* lifecycle is a step of that service or changes nothing of it.
ImplementsService == Service!Spec

\* The recorded migration target is always the target of the served store, so
\* the next migration starts from a database that has the history
\* (store_migration.go:199-202).
RecordsServedTarget ==
  [][saved' # saved => saved' = IF active' = 0 THEN configured' ELSE fingerprint']_vars

\* A store that shutdown closed is not opened again by a reload that was
\* waiting (store.go:203-210).
StaysClosed ==
  [][job[Main].op = "down" /\ active = 0 => active' = 0]_vars

\* A goroutine that waits for the gate or for a canceled migration goes on,
\* although shared leases keep being asked for, unless a migration that nobody
\* cancels is copying (semaphore.Weighted is first come, first served;
\* store_migration.go:166-168).
WaitersServed ==
  \A t \in Callers :
    job[t].at \in {"waiting", "awaiting"}
      ~> \/ job[t].at \notin {"waiting", "awaiting"}
         \/ migration.at = "copying" /\ ~migration.canceled

\* A shutdown whose deadline does not pass ends with the store closed, however
\* long the running migration would take (store.go:291-292).
ShutdownCloses ==
  job[Main].op = "stop" ~> job[Main].op = "down" /\ active = 0

=============================================================================
