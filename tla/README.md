# A verification development of mango-hub

mango-hub (a Go monitoring hub in the Komari family) receives reports from agents on
many machines, keeps their history as time series, shows it, notifies people and drives
the agents (pings, terminals, file transfers). This directory models the parts of it
where the order of steps decides whether data is right, checks the models with TLC and
proves the main results with TLAPS.

File and line references are to the repository; `src/` stands for its root.

## 1. Inventory

| Component | State | Operations | What is hard | What makes it correct |
|---|---|---|---|---|
| **Metric store write path** `pkg/metric` (raw_points, hot_rollup, coarse_rollup, rollup_store) | raw window (exact samples of the last minutes), hot minute buckets and the set of those to overwrite their row, staged children of unsealed parents, rollup rows of each tier in SQL | WriteBatch, Flush, FlushCoarse, Close, Open, DeleteSeries/Entity/Metric/Before | late and replacing samples, failing transactions between two in-memory structures, crash, an old clock | every sample counted once, minutes show exactly the live samples, sealed rows are final unless an old clock was outrun, deleted data stays deleted, everything is persisted at last |
| **Report batcher** `internal/metricstore/report_batcher.go` | two bounded queues, a request slot, the worker's pending slices, traffic counters per agent | WriteReport, WritePingRecord, FlushReportBatch, StopReportBatcher, the worker's ticks | enqueue/flush/stop races, retries of failed batches, counters that advance before the write, restart, deletion | nothing accepted is lost, repeated or reordered; a flush or stop covers what it promises; traffic is charged once |
| Metric store lifecycle `internal/metricstore/store*.go, maintenance.go, operation_gate.go, compaction.go` | the active store, the operation gate (a weighted semaphore), the running migration, the closing flag | Initialize, Reload, Recover, Close, StartStoreMigration, Cancel, InspectStorage, ReclaimSpace, Compact, CleanupExpired | replacement of the store under running operations, shutdown during a migration, queueing at the gate | an operation that holds the gate never meets a closed store; the active store matches the configuration; shutdown ends every migration |
| **Agent connections and presence** `web/agent/connections.go`, `web/api/client`, `utils/notifier/offline.go` | registered sockets, polling presence with timers, notification state | connect, report, poll, end, expire, online/offline notification, removal of an agent | goroutines of successive connections applied out of order, timers that race with keep-alives, a grace period slept outside the lock | the newest connection is registered, a polling agent is shown, losses and returns pair up, a loss is reported |
| **Agent commands** `web/agent/v2_events.go`, `web/api/client/report_v2.go`, `web/filemanager/client.go` | a bounded queue with a signal channel, the push to a new socket, pending calls by id | dispatch, poll, report, push, acknowledge, answer | lost writes, dead sockets, displacement, lost wake-ups, repeated answers | a dispatched command is accounted for, a call is answered once |
| **Metric store restructuring** `pkg/metric/restructure.go`, `web/migration` | the tables, shadow tables and backups, the guide's operation | inspect, copy in batches, discard, switch, purge, retry, restart | a crash or a failure between any two statements, two kinds of switch | no history that is to be kept is lost, only a whole upgrade is served, an attempt can always be repeated |
| **File downloads** `web/filemanager/stream_relay.go` | transfers by id, slots, the response of the browser | open, call, connect, copy, retry, resize, clean up | four goroutines that end one transfer, retries over a committed response | the response is a beginning of the range, slots belong to open requests, requests end unless an agent or a browser stalls for ever |
| **File uploads** `web/filemanager/transfer.go` | sessions in a map, their files, slots, the agent's part file | init, chunk, merge, cancel, restore, expire | locks released between the steps, lost answers, restarts | slots match sessions, a completed upload was put together |
| Queries and digests `pkg/metric` | none | AggregateRollup, LatestBefore, percentiles | overlay of memory on rows | a query counts what `Visible` says |
| Scheduler, server runtime `internal/scheduler`, `internal/server` | named jobs, clean-up list | add, replace, remove, StopAll; Shutdown | overlapping runs of one job, clean-ups under one deadline | a replaced job stops; clean-ups run in reverse order |
| Plugin manager, script runtime `internal/plugin`, `pkg/jsruntime` | plugins, hooks, an event loop each | install, enable, hook, cron | reentrancy, stop during a hook | a stopped plugin is not called |
| Terminals, uploads to the server `web/api/terminal`, `web/upload` | pairs of sockets, directories of chunks | forward, chunk, merge | both ends closing | - |
| Accounts, configuration, databases, migrations, RPC, OAuth, recovery, earnings | rows and caches | single-row operations | little | - |

How they interact: agents call `handleV2RPC` (web/api/client), which updates presence and
calls `metricstore.WriteReport`; the batcher's worker hands batches to the active
`metric.Store` under a shared hold of the operation gate; the scheduler calls `Compact`
and `CleanupExpired` on the same store, also under a shared hold; reload, migration and
maintenance take the gate exclusively; shutdown stops the batcher before it closes the
store. Deletions and queries call the store directly. Administrators dispatch commands through
`web/agent`, whose queue the report and poll handlers of web/api/client drain; downloads and
uploads are such commands whose bytes come back over an HTTP request of the agent. At
start-up the server inspects the metric tables and serves the upgrade guide instead of itself
while they are old.

PROJECT.json lists every component with its status and the hazards at their lines.

## 2. Modules

| Module | What it is |
|---|---|
| `MetricRollup` | the write path of one series, transaction by transaction |
| `SeriesLedger` | what that write path promises: an abstract ledger of accepted samples and what each minute shows |
| `MetricRollupProofs` | theorems about `MetricRollup`, among them that it implements `SeriesLedger` |
| `ReportBatcher` | the batcher: producers, callers, worker, traffic counters, deletion, restart |
| `ReportBatcherProofs` | theorems about `ReportBatcher` |
| `StoreLifecycle` | the active store behind the operation gate: opening, reload, migration, shutdown |
| `ServedStore` | what that life promises to those who work on the store: an abstract service of one served store, without gate, queue or calls |
| `StoreLifecycleProofs` | theorems about `StoreLifecycle`, among them that it implements `ServedStore` |
| `AgentPresence`, `AgentPresenceProofs` | one agent's sockets, polling presence and notices; theorems |
| `AgentCommands`, `AgentCommandsProofs` | the commands for one agent, from dispatch to answer; theorems |
| `StoreRestructure`, `StoreRestructureProofs` | the upgrade of an old metric database; theorems |
| `FileRelay`, `FileRelayProofs` | downloads from an agent; theorems |
| `UploadSessions`, `UploadSessionsProofs` | uploads to an agent; theorems |
| `MC*` | an instance of each system for TLC |

### MetricRollup

A bucket is the *set of samples it counts*. In the code it is a count, sums, extremes and a
digest; all are additive, so merging buckets is union exactly as long as no sample is in
both, and that is a checked and proved invariant (`NoDoubleCount`), not an assumption.

| Variable | Code |
|---|---|
| `raw` | `Store.raw` (raw_points.go), direct and compressed samples alike |
| `hot`, `replace` | `Store.hot`, `Store.hotReplace` (hot_rollup.go) |
| `pend[l]` | the children in `Store.coarse` whose parent belongs to tier `l + 1` |
| `rows[l]` | the rows of tier `l` in the rollups table |
| `op` | the call holding `ingestMu`, and the clock it works with |
| `comp` | `compactMetricStore` -> `Compact`: the clock is read at runtime.go:227, before the gate and `ingestMu` are waited for; `Flush` and `FlushCoarse` are two calls with the same clock |
| `log`, `base`, `cut`, `purged`, `live`, `withheld` | history, read by properties only |
| `outrun` | history: the parents a write sealed while a compaction waited with a clock by which they were not over (`Overtaken`); read by `SealedUnlessOutrun` only |

`WriteBatch` is `writeRawPointsAt` and `writePreparedHotRollups` up to the first
transaction; then `PersistHot` is the transaction of closed minutes (`persistHotRollups`)
with the staging of their children, and each `PersistCoarse` seals one tier
(`flushClosedCoarseRollups`, `persistCoarseRollups`). Every transaction may fail
(`PersistHotFails`, `PersistCoarseFails`), and the process may crash between any two steps.
A call whose ingestMu is taken excludes the others, as in the code. `Close` may store the
hot buckets or fail to; both drop the memory. `DeleteSeries` stands for the deletions that
clear every structure, `DeleteBefore` for the one that leaves the staged children.

Simplifications: one series; the clock is read once per write (the code reads it at
raw_points.go:159 and store.go:897); retention and policy changes are absent; samples carry
a timestamp and a label set, values play no role.

### ReportBatcher

`queue`, `requests` and `pending` are the channels and the worker's slices; `work` is the
worker's position (`run`, report_batcher.go:199): a request drains both queues and writes
reports, then pings; a tick writes pings first and drains the reports after that. A call of
`FlushReportBatch` or `StopReportBatcher` sends into the one-element slot, waits, or gives
up with its context. `states` is `reportTrafficStates`, `stored` what the store holds for a
client (its latest counter, the sum of its traffic points: its `Account`). `Charge` is what one report
does to an account, `Course` the accounts along a batch, `Through` the one at its end, so that the batch's loop
over `prepared` (line 354) and the history that `TrafficConserved` compares it with are one function.
`origin` counts the written reports that a client's last deletion covered: `Since` it are those it is charged for.

What was written is first in the memory of `metric.Store`, until its minute is over and one transaction persists it
(`persistHotRollups`, hot_rollup.go:197). `kept` and `durable` are what is persisted, `Persist` copies what is
written there, and `Restart`, a crash or a shutdown, leaves only that: written, pending, queued and remembered are
gone alike. Reports and pings are persisted apart, since their minutes may close at different times. A transaction takes the
closed minutes only; their reports were written first, because timestamps follow the queue, so it leaves what `Persist`
leaves at the moment when those were all that was written (a batch that straddles a minute counts as two batches).

`ReportsFail` is a write that
fails after the traffic states advanced (line 405), with the points in memory or not;
`ReportsRefused` fails before. Deletion takes the steps of deletion.go: `DeleteEntity` in
one transaction, `DeleteAllRecords` metric by metric (counters, then traffic), and the traffic
states after that. Upload and download behave alike, so one counter stands for both.

`Incidents` says which rare events may happen together in a run. A batch's lookup, state
update and write are one step: each touches only its own client's state and store rows, and
a deletion in the middle leaves the same outcomes as one just before or after.

Left out: the direct write without a worker (lines 175-179), a second stop of one worker
(`Stoppers` has one member at most: the shutdown, metric_store.go:85, is its only caller),
starting another one in the same process, the bump of equal timestamps by a millisecond.

### StoreLifecycle

Every goroutine runs one call at a time; `job[t]` says which one, how far it is, the store it
took and the target it read. Clients run requests and scheduled jobs, `Main` runs the cleanups
of a shutdown, `Migrator` is the goroutine of a migration.

| Variable | Code |
|---|---|
| `configured`, `saved` | `metric_db_dsn`, `MigrationTargetKey` in the configuration |
| `active`, `fingerprint` | `store` (the number of the opened store, 0 for nil), `storeFingerprint` |
| `opened`, `open` | history: the target of every store opened so far, and those whose pool is open |
| `holders`, `waiters` | the leases and the queue of `storeOperations` |
| `closing` | `storeClosing` |
| `expired` | the one deadline of all cleanups has passed (runtime.go:160) |
| `migration` | `storeMigCancel`, `storeMigDone`, and what the goroutine was given |

The gate is `golang.org/x/sync`'s weighted semaphore, modelled from its use: `Acquire` queues
behind earlier waiters, `Notify` wakes the longest prefix of the queue that fits, and a caller that
gives up leaves the queue, which may wake those behind it. A shared lease weighs 1 of 1024 and
an exclusive one all of it; with fewer than 1024 calls at a time two leases are compatible exactly when
neither is exclusive. A lease that a migration got passes from the request that started it to the
migration's goroutine (`StartMigration`; line 154), which releases it before it clears
`storeMigCancel` and closes its channel (`ReleaseMigration`, `ClearMigration`).

`Call`, `ReadStore`, `Finish` stand for every user of the gate: the batcher's write (`report`, and `flush`
when the shutdown writes the last batch), `QueryForDriver` and `InspectStorage` (`query`), `Compact`
and `CleanupExpired` (`compact`; at most one, and it keeps `storeMu` read-locked, so `StoreUnlocked` guards
the swap), `ExecContext` (`exec`), `ReclaimSpace` (`reclaim`, which no context ends). `read` is `GetStore`
without a lease. `EditSettings` saves the target and then calls `Reload`, whose steps are
`ReloadReads`, `ReloadFails` or `ReloadSwaps`, `ReloadClosesOld`. A shutdown runs three
cleanups in turn: stop the migration, flush the batcher, close the store; each one may give up when
the deadline has passed, and the next one runs anyway (`NextCleanup`). A close that gives up clears `closing`.

Simplifications: opening a store is one step with its publication, since a store that fails to open is never
visible; what a migration copies is left out, its outcome (recorded or not) is a choice.
`RecoverStore` runs only from the recovery page, before anything else does.

`ServedStore` says the same from the outside: users begin and end work on the one served store, alone
or together; a store is published, closed or taken away only while nobody is at work, and nothing begins while
two are open. `WorkOf` maps the lifecycle to it: a goroutine works where it uses a store under a lease, alone
when the lease is exclusive, and the migration's goroutine works alone while it copies. `recorded` is `saved`,
which moves only where the service lets it: with the first store, or to the target of the store a user who worked
alone has filled. Everything else of the lifecycle (asking, waiting, giving up, reading the configuration,
cancellation, the cleanups, the hand-over of the lease) changes nothing of the service. `GetStore` without a
lease is no user of it: what the code does there is in section 6.

### AgentPresence

One agent: the maps that hold its state are keyed by the agent. An id is a WebSocket or a
polling session; `conn[c]` says where the handler of a socket is (`WebSocketV2RPC`), `online[i]`
and `offline[i]` where the goroutines of `OnlineNotification` and `OfflineNotification` for an id
are, so that calls for different ids, and the two calls for one, run in any order.

| Variable | Code |
|---|---|
| `registered`, `marked` | `connectedClients`, `v2Clients` (connections.go) |
| `entry`, `generation`, `armed`, `fired`, `clearing` | `postPresenceStates`: the session, its generation, its timer, and the callbacks that have fired (presence.go) |
| `presence`, `fresh` | `presenceOnly`: the id it shows, and whether it expires in the future |
| `current`, `pending`, `first`, `exist` | the notification state (offline.go) |
| `client`, `enabled` | the agent's row and its notification setting |
| `latest` | history |

`OnlineNotification` changes the state in one step (`UpdateOnlineState`) and looks at the setting in the next
(`AnnounceReturn`; offline.go:175-178), so a return that is taken note of while notifications are off, or that the
administrator switches off in between, is `muted`, and the owner may be told of two losses in a row. What
`NoticesAlternate` says is what the state guarantees: every loss the owner was told of, but the present one, is followed by
exactly one return, and that is announced, about to be or muted. How the message is delivered, and that
`SendNotification` looks at the global switch once more, is left out.

Time is reduced to two facts: a polling agent may lapse at any moment, and a grace period ends
whenever its goroutine wakes. What the model shows that one would not expect of the code:
two connections accepted together leave the earlier one open but unregistered; a report
over a WebSocket prolongs the polling presence although the comment at ingest.go:20 speaks of
polling only; the v2 mark is lost when a WebSocket ends although the agent still polls, until its next poll,
and is kept when polling lapses; removing an agent closes no socket.

### AgentCommands

`pc[c]` is the dispatcher of a command (`DispatchV2Event`, `Call`), which reads the connection
under one lock and uses it after; `queue`, `signal`, `stamp` are `v2EventQueue`, with the order of
enqueues as the queue's order; `poll[w]` is a long poll (`WaitV2Events`) or a report; `push` is
`pushQueuedV2Events` on a new socket: take, write one by one, acknowledge what was written or put
the rest back. `Resolve` takes the waiter under the lock and sends after it. A write may fail, or succeed
and never arrive (`MaxLosses`).

A command may arrive twice (pushed and polled), and one whose write succeeded on a connection that was already dead
never arrives: nothing acknowledges a write to a WebSocket. `DispatchedIsAccounted` names that as one of the fates of
a command. A command that is dispatched over a new WebSocket may overtake queued ones, and one queued after the
push waits for the next poll or report.

### StoreRestructure

A layout is what `inspectSchema` tells apart of each table; `Found` are all mixtures of them (the comment at restructure.go:41-43
speaks of mixed shapes), but that foreign keys exist only between tables of the new shape. A row is an id. `shadow` are the `rebuild_`
tables, `memory` the rows their store holds in memory, `unread` those the copy has not read.
`Operation` is the sequence inspect, rebuild, copy in batches, flush, switch, purge (or discard)
step by step; on SQLite and PostgreSQL the switch is one transaction, on MySQL backups are
dropped, all tables renamed at once, indexes finished and backups dropped again. `Fail` ends the operation at any
step, `Crash` the process; the next `Boot` inspects the tables and serves the guide or the server.
That a copied point lives on in the rollups is MetricRollup's subject; `history` only
asks that each row is taken over that the upgrade sets out to keep (`Wanted`), and two kinds of rows are not of these:

- rows past the retention of their metric (`Expired`): `shadow.Compact` (restructure.go:457) ends in `CleanupExpired`
  (rollup_store.go:42), which deletes them before the switch, as the next clean-up of the served store would;
- points beside tables whose columns are of the new shape already: `Restructure` then either drops the point tables
  (`removeObsoleteRawTables`) or rebuilds from the rollups alone (line 381), and the switch drops the points (line 1403).
  Where an earlier version had not rolled them up (`Unrolled`), they are lost without a word. The code
  calls these tables obsolete (line 817), so this is noted here and not counted as a finding.

### FileRelay

`phase`, `loop`, `cur` are the handler of a browser's request (`streamDownloadRelay`); a transfer
has an owner, the agent's HTTP request (`agent`, `left`), a pipe, the goroutine that copies from the pipe to the
response (`copier`, `copied`) and the goroutine in `Call`. The cleaner, the agent's request, the handler and the
call's failure all end in `Close`. `cache` is the remembered block size of the agent, which transport failures
halve. Bytes are counted in units of `MinTransferChunkSize`, a range starts at 0, and closing is one step
(it has the transfer to itself once `closed` is set). `Goroutines` are the server's own steps, `Outside` those it waits
for: an agent that connects, sends and ends its body, a browser that reads. The relay of one uploaded chunk
(transfer.go:281) takes a slot from the same channel and gives it back by the same `close`; it is left out, since it would
only be one more request for the slot.

### UploadSessions

`uploads`, `slots`, `held`, `files` are `uploadSessions`, the slots channel, `slotHeld` and the persisted
sessions; `request[r]` is a request of a browser with a pointer to its struct, which may meanwhile be expired,
finished or replaced: structs are model values, used again once nothing refers to them. `lock` is the session's mutex
while a merge holds it; `part` and `target` are the agent's part file and the file it puts together.
The model keeps the windows the code leaves open: a restore reads the file outside
`uploadMu`; the cleaner looks at a deadline and deletes later, so a chunk may extend it in between;
a late chunk saves the file of a session that is already finished or cancelled, so that it is restored and takes a slot
again; a merge does not look at the next offset, and relies on the agent; a commit may not reach the agent, or its answer may not
come back (`Commit`). Finishing (the file, then the entry) and
init are one step each, and a request with another agent's id, which changes nothing, is left out.

## 3. Runs

Every run finishes in under five minutes with two workers; the longest are `FileRelay`
(1.6 million states, liveness), `PresenceNotices` (1.6 million, liveness), `RollupLabels`, `BatcherFlow`,
`AgentCommands` and `UploadSessions`.

| Run | Checks | Bounds |
|---|---|---|
| `RollupLabels` | NoDoubleCount, RawWindowComplete, MinuteConserved, SealedUnlessOutrun, refinement of SeriesLedger | two label sets, 3 minutes of 2 ticks, tiers of 1 and 2 minutes without grace (a parent seals at tick 4), 3 samples one at a time, a compaction whose clock may be one tick old |
| `RollupTiers` | DeletedStaysDeleted, SamplesReachRows, ParentsSeal | three tiers of 1, 2 and 4 minutes, 5 ticks of a minute each without grace (the first 4-minute parent seals at tick 4), 2 samples in batches of up to 2, a compaction whose clock may be two ticks old |
| `RollupStaleClock` | SealedImmutable, which is violated (section 6) | one label set, 4 minutes of 2 ticks, tiers of 1 and 2 minutes, one minute of grace, 3 samples, a compaction whose clock may be one tick old |
| `BatcherFlow` | AcceptedInOrder, FlushCoversEarlier, StopLeavesNothing, StopReturns, AcceptedIsWritten | queues of 2, ping chunks of 1, 3 reports (so that the queue runs full and refuses one) and 2 pings, one flushing and one stopping caller |
| `BatcherTraffic` | TrafficConserved | two agents, counters 0..2 with resets above and below the limit, 3 reports, restarts that keep any persisted part, and deletions |
| `LifecycleSafety` | LeaseKeepsStore, MigrationKeepsTarget, ExclusiveAlone, QuietShutdown, NoLostConnection, StaysClosed, refinement of ServedStore | two clients, two targets, three stores opened; shared, exclusive, ungated calls, reloads, migrations and cancellations, contexts that end anywhere |
| `LifecycleProgress` | WaitersServed, ShutdownCloses | two clients, two targets, two stores; nobody gives up |
| `PresenceNotices` | LatestServed, PolledIsShown, NoticesAlternate, PendingHasWaiter, LostIsReported | two sockets, one polling session refreshed once, notifications switched off and on again, the agent removed |
| `RestructureUpgrade` | HistorySurvives, DefinitionsSurvive, ServedIsUpgraded, UpgradeCompletes | every mixture of table shapes, both kinds of switch, four points (one without a definition, one of the last minute, one expired, one that an earlier version did not roll up) and two rollups (one expired) in batches of 2, three failures or crashes |
| `AgentCommands` | DispatchedIsAccounted, SleepersMissNothing, AnsweredOnce | a file operation, two pings of one task and another command that may expire, a queue of 2, answers to reports of 1, one WebSocket, one open request of the agent, one loss |
| `FileRelay` | ResponseIsPrefix, SlotsHeldByRequests, RequestsEnd | ranges of 2 and 1 units, chunks of up to 2, two attempts, two transfers, one slot, one browser that may leave, calls refused as too large |
| `UploadSessions` | SlotsMatchSessions | two uploads of two chunks, two requests at once, two structs, one slot, one restart |

The type invariants of the modules, `RecordsServedTarget` of `StoreLifecycle` and `CompleteIsCommitted` of `UploadSessions` are proved (section 4), so no run
checks them again.

Why the bounds are enough: a minute has two ticks so that two samples can share a minute
and differ in time; the raw window is one full minute, so that pruning, late arrival inside
the window and arrival outside it all occur; two label sets are what it takes to move a
replaced sample to another bucket of the same minute; the second tier takes two
minutes so that one child can be sealed with the other missing; three samples allow a
sample, its replacement and a bystander. The clock of a waiting compaction needs to be one tick old to be outrun. In the batcher, a third
report overflows a queue of two, a chunk of one makes a partial ping write, and a flush and a stop compete for the slot.
In the lifecycle, two clients, the shutdown and the migration are four users of the gate: enough for a
lease, a waiter behind it and one behind that; three stores are a first one, its replacement and one
opened after that; two targets are what it takes to be wrong about one. The calls of one class take
the same steps, so the safety run offers one of each.
Label sets and agents are interchangeable, hence the symmetry in the runs without liveness.
`BatcherFlow` turns deadlock checking off: after a stop the system has ended. In the lifecycle
requests go on after a shutdown, so its runs check deadlock.

Presence needs two sockets, so that one replaces the other, and a polling session beside them: three
ids whose notification goroutines run in any order. One refresh makes a timer of an earlier generation.
An upgrade meets three failures: one while copying, one inside the switch and one in the purge, and a
discard after any of them. A queue of two overflows with the third command; two pings of a task coalesce.
A range of two units has a whole chunk, two halves after a reduction and a
failure between them; one slot makes the second request wait. Two requests, a cleaner and a restart can all hold
pointers to one session while its id is restored to another struct.

What TLC may not see: `MaxNow`, `MaxSamples`, `MaxReports`, `MaxPings`, `MaxTotal`,
`MaxBatch`, `MaxWait`, `MaxOpens`, `MaxRefresh`, `MaxToggles`, `MaxFailures`, `MaxSessions`, `MaxLosses`,
`MaxRestarts`, `Fleeting`, `Leavers` and `Answers` bound the instances and are named in the modules.
`FileRelay` runs with one kind of refused call (a block that is too large), the one that leads to reduced chunks; the
proofs of its safety cover the others.
`PresenceNotices`, `RestructureUpgrade` and `FileRelay` turn deadlock checking off because everything in
them ends: the sockets are used up, the server serves, the requests are answered.


**Fairness.** MetricRollup: the clock advances; a closed store is reopened; the recurring
task keeps calling `Compact` (runtime.go:198) and gets its lock again and again (strong
fairness, because writes take the same lock between attempts; a Go mutex starves no waiter);
a transaction does not fail for ever (strong fairness of `PersistHot`, `PersistCoarse`).
ReportBatcher: the worker goroutine runs; its `select` picks at random, so a request that
stays in the slot is taken (strong fairness of `TakeRequest`); writes that are retried for
ever succeed at last. StoreLifecycle: a goroutine that can run is run and databases answer; a copy may take
as long as it likes, but once it is canceled it ends, because its context goes into every query and
write. New calls have no fairness, and the gate itself is not assumed to be fair: that nobody
starves is a consequence of its queue (the variant `AcquireBarging` breaks `WaitersServed`).
AgentPresence: the goroutines of the notifier run and their sleeps end; fairness to all of them together is
enough, since each takes a few steps. Sockets, polls, timers and the administrator are free.
StoreRestructure: an operation goes on until it ends or fails, a stopped process is started again, and the
administrator, who has no server until the guide is done, presses one of its buttons again. Failures
are bounded (`MaxFailures`), because a database that fails for ever lets nothing complete.
FileRelay: some goroutine of the server that can run is run. Requests take finitely many
steps, so fairness to each is not needed; the call has a timer, the cleaner a ticker. The http.Server
(runtime.go:120) sets neither ReadTimeout nor WriteTimeout, and the cleaner passes over connected transfers, so an agent whose body
stalls, or a browser that neither reads nor leaves, holds its request for ever: no fairness is given to them, and
`RequestsEnd` says what is left. Unless an agent stalls for ever after its answer, every slot is given back, and every request
ends but those whose own browser stalls for ever. AgentCommands and UploadSessions state no fairness
and check safety only: an agent need not poll, a browser need not go on.
No fairness is given to callers' contexts, failures, crashes,
restarts or deletions.

Every property of a passing run comes with a variant of one definition of the model (a
dropped guard, a missing reset, a swapped order) under which TLC finds it violated; they
are the operators called faulty variants in the modules.

## 4. Proofs

`MetricRollupProofs` proves, for every number of samples, ticks, label
sets, grace period and every list of intervals each of which divides the next
(`RollupAssumption`; rollup.go:105 validates it):

| Theorem | Statement |
|---|---|
| `TypeCorrect` | `Spec => []TypeOK` |
| `DeletedForGood` | `Spec => []DeletedStaysDeleted` |
| `CountedOnce` | `Spec => []NoDoubleCount` |
| `WindowComplete` | `Spec => []RawWindowComplete` |
| `MinutesConserved` | `Spec => []MinuteConserved` |
| `Implementation` | `Spec => ImplementsLedger` |
| `SealedStays` | `Spec => SealedUnlessOutrun` |

The argument. The inductive invariant is the conjunction, built up in this order:

1. `TypeOK`, which also says that a closed store holds nothing in memory (needed when it is
   opened again).
2. `DeletedStaysDeleted`: each step moves samples only between the structures it names
   (`WriteSources`, `PersistSources`, `SealSources`, `DownSources`), so none comes from before
   the deletion.
3. `NoDoubleCount`, in three parts. `HotInCell` and `TiersInBucket` say that every buffer and row holds
   only samples of its own bucket; for sealing this needs that tiers nest (`BucketNested`, by
   the divisibility of the intervals). `MergeDisjoint` says that a bucket about to be merged
   shares nothing with its row; it survives a write because ids of new samples are fresh and
   because a bucket rebuilt from raw is overwritten, not merged.
4. `RawWindowComplete`, with `CompactionClock` (the clock of a compaction is never ahead
   of the wall clock, so it never prunes too much).
5. `MinuteConserved`: in the write step, a rebuilt minute equals its live samples because the raw
   window is complete there, the others grow by exactly the new samples.
6. `RawVisible` (a raw sample is shown by its minute) for the refinement: it is what makes a
   rebuild of a torn minute lose samples at most, never gain any.

7. `SealedImmutable` is no theorem: a compaction that waited for its locks flushes with the clock it
   read before (runtime.go:227), and a write in between has seen a later one (`RollupStaleClock`, section 6).
   `SealedUnlessOutrun` allows exactly that: a sealed row is written again only if a write had sealed it while a compaction
   waited with a clock by which it was not over. `SealedInv` is inductive for every `MaxWait`:
   a parent with a row is over, and, unless it was outrun, also by the clock of a call that persists minutes and of
   a compaction that waits (`SealedOver`), and nothing waits
   below it in any finer tier (`SealedApart`). The second part spans tiers that are not adjacent, because a late
   child two tiers below would first be sealed into the tier between: `BucketWithin` proves that the bucket of a bucket is
   that of its minute for any two tiers, from the divisibility of adjacent intervals and the least tier where it would
   fail (`Least`, `Divides`).

Only model-checked here: the liveness properties.

`ReportBatcherProofs` proves, for any agents, flushing callers, capacity, chunk size and bounds, and at most one
stopping caller (`BatcherAssumption`):

| Theorem | Statement |
|---|---|
| `TypeCorrect` | `Spec => []TypeOK` |
| `TrafficConservedSafe` | `Spec => []TrafficConserved` |
| `AcceptedInOrderSafe` | `Spec => []AcceptedInOrder` |
| `FlushCoversEarlierSafe` | `Spec => []FlushCoversEarlier` |
| `StopLeavesNothingSafe` | `Spec => []StopLeavesNothing` |

`AcceptedInOrder` is inductive with the types of the sequences alone (`FlowType`); the other two are not. `Covered`
follows a flush: what was accepted before it (`upto`) is bounded by what is accepted, from the drain of its request on
by what is written or pending, and once it is answered by what is written. The last of these needs `Passed`: a request
that has met no error has nothing pending of the kinds it has passed. `Stopped` says that a stop ends the producers
when it is called, so the queues its request has drained stay empty. Every step of the worker is an instance of
`WorkStep`, every step of a caller one of `CallStep`.

`TrafficConserved` speaks of the sum a client was charged, over all that was ever written; the code adds batch by batch,
from a counter it remembers, reads back or has lost. `Conserving` is the invariant. `Known`: a traffic state, if there
is one, and a stored counter, if there is one, are those of the client's last written report. `Followed`: there is a stored
counter once a report was written since the last deletion, and the charge is that of those reports. Hence a batch starts
where the reports before it ended, or with nothing where `TrafficConserved` allows that. The lemmas about accounts
carry the rest: `ThroughJoined` (a batch after a batch is one batch), `CourseForgets` (a client's own
report makes its counter independent of where the batch started), and that charges only add up. `Course` is a recursive
function along a batch; its facts are proved for every length by a least counterexample in `Nat`
(`NaturalInduction`, from the library's well-founded minimum). Where a batch is written while
`DeleteAllRecords` is between its two halves, `Known` still holds, since it does not mention `origin`, and `Followed` is
asked again once the traffic points are gone. `KeptKnown` and `KeptFollowed` say the same of what is persisted and of the reports it
holds, so that a restart finds itself where `Known` and `Followed` hold. As the property does, the invariant speaks of runs with restarts and
deletions, but without a write or a lookup that fails half-way.

`StoreLifecycleProofs` proves, for any number of clients, targets and opened stores
(`LifecycleAssumption`):

| Theorem | Statement |
|---|---|
| `TypeCorrect` | `Spec => []TypeOK` |
| `LeaseKeepsStoreSafe` | `Spec => []LeaseKeepsStore` |
| `MigrationKeepsTargetSafe` | `Spec => []MigrationKeepsTarget` |
| `ExclusiveAloneSafe` | `Spec => []ExclusiveAlone` |
| `QuietShutdownSafe` | `Spec => []QuietShutdown` |
| `NoLostConnectionSafe` | `Spec => []NoLostConnection` |
| `RecordsServedTargetSafe` | `Spec => RecordsServedTarget` |
| `StaysClosedSafe` | `Spec => StaysClosed` |
| `ServiceImplemented` | `Spec => ImplementsService` |

The argument. `IInv` joins:

1. `GateInv`: a goroutine is a holder exactly when its position says so (`Leases`), exclusive holders are
   alone, queued goroutines wait for the gate and are queued once, and the migration's goroutine holds
   a lease exactly while it copies. `LeaseKeepsStore` alone is not inductive: it needs to know
   that a reload at its swap is the only holder.
2. `JobsInv`: which positions a call can be in, that a user under a lease has the served store, and that the store
   a reload replaced is not the served one.
3. `StoreInv`: the served store is open and of the recorded fingerprint; before the first store is opened nothing runs.
4. `MigrationKeepsTarget`, `NoLostConnection` and `ShutdownInv` (before its deadline a shutdown keeps
   `closing` set from its first wait on, and after its first cleanup there is no migration).

Two lemmas carry the gate: `NotifyKeeps` (waking a prefix of the queue keeps `GateOK`) and `LeaveKeeps` (a
caller that leaves, with its lease or its place). They rest on `AdmittedFits`, for which the number of admitted waiters must
exist: the first waiter that does not fit, hence `LeastNatural`, a least element of a set of naturals, obtained
from the library's well-founded minimum without induction over an operator. Each action has a lemma of its own;
`Leaves` and `GoesOn` do the common part of those that return and of those that do not touch the gate.
`StaysClosed` needs one more invariant on top of `IInv`, `ClosedInv`: once the store was
closed, `closing` holds and no reload is past its check.

`ServiceImplemented` takes `IInv` and `ClosedInv` and maps every action to a step of `ServedStore` or to none. What
must be shown each time is what `WorkOf` does (`SameWork`, `WorkMoves`): a position outside `Works` is no work, and waking
waiters only grants (`KeptWork`). A reload's swap and close, and the shutdown's close, may publish, retire and
take away because who holds an exclusive lease and does not use it finds nobody at work (`OwnerQuiet`, from
`GateInv`); a call that begins finds one store open (`OneOpen`, from `NoLostConnection`) and nobody alone
(`NoneAlone`); what a copy records is the target of the store it wrote to (`CopyEnds`, from
`MigrationKeepsTarget`). A reload that swaps after a close would be a second publication that the service forbids:
that is where `ClosedInv` is needed.

`AgentPresenceProofs`, for any connections, polling sessions and bounds:

| Theorem | Statement |
|---|---|
| `TypeCorrect` | `Spec => []TypeOK` |
| `LatestServedSafe` | `Spec => []LatestServed` |
| `PolledIsShownSafe` | `Spec => []PolledIsShown` |
| `NoticesAlternateSafe` | `Spec => []NoticesAlternate` |
| `PendingHasWaiterSafe` | `Spec => []PendingHasWaiter` |

`PolledIsShown` needs `SessionInv`: a callback belongs to an older generation than the entry, or the session has
lapsed. The notices need that every id is lost at most once (`OnceLost`) and that a client without a counted
connection is one whose current id was reported (`NoticeInv`); then a waiting goroutine that finds itself still
current and pending is the only one that can send. Losses and returns are counted as sets of ids (`Alternating`): each
goroutine adds its id at most once, and only where the count of the other has just caught up.

`StoreRestructureProofs`, for any rows, metrics, kinds of database, batch size and number of failures:

| Theorem | Statement |
|---|---|
| `TypeCorrect` | `Spec => []TypeOK` |
| `HistoryKept` | `Spec => []HistorySurvives` |
| `DefinitionsKept` | `Spec => []DefinitionsSurvive` |
| `ServedUpgraded` | `Spec => []ServedIsUpgraded` |

Before the switch every row of history is unread, in memory or in the shadow rollups (`Copied`); the point tables are
dropped only where the columns are complete, and there no point was to be kept (`Held`). What the shadow's compaction deletes
was not to be kept either, which is the first part of `Held`.

`AgentCommandsProofs`, for any commands, requests, limits and losses:

| Theorem | Statement |
|---|---|
| `TypeCorrect` | `Spec => []TypeOK` |
| `DispatchedAccounted` | `Spec => []DispatchedIsAccounted` |
| `SleepersSafe` | `Spec => []SleepersMissNothing` |
| `AnsweredOnceSafe` | `Spec => []AnsweredOnce` |

`Stamped` orders the queue, so that a command that was pushed out has as many newer ones as the queue holds, however
many of those have left since; `Answers` says that an accepted answer is in one place and its call no longer pending.

`FileRelayProofs`, for any requests, sizes, chunk size, attempts, slots and kinds of answers:

| Theorem | Statement |
|---|---|
| `TypeCorrect` | `Spec => []TypeOK` |
| `ResponseSafe` | `Spec => []ResponseIsPrefix` |
| `SlotsSafe` | `Spec => []SlotsHeldByRequests` |

A transfer belongs to one request (`Owned`) and its copier does not outlive the chunk (`Copying`), so the response has
grown by exactly what the current copier has written (`Jobs`), and ends where the next chunk begins (`Waiting`).
`ReducedSize` is the arithmetic of halving a chunk.

`UploadSessionsProofs`, for any uploads, structs, requests, slots, chunks and restarts:

| Theorem | Statement |
|---|---|
| `TypeCorrect` | `Spec => []TypeOK` |
| `SlotsSafe` | `Spec => []SlotsMatchSessions` |
| `CompleteSafe` | `Spec => []CompleteIsCommitted` |

A struct is in the map under one id (`OneId`), so whoever removes its entry removes the last one and gives back its
one slot (`RemoveKeeps`), and a request with an older struct removes nothing; a request that finishes has heard of the
target (`Positions`).

Model-checked only, everywhere: liveness under fairness and what it rests on (`ENABLED`), which are out of the
prover's reach. Every other property of the passing runs is a theorem. No proof module
reaches a recursive operator; where a fact is needed for every length or every tier, it is stated of a set of
numbers, whose least element outside it the well-founded minimum of `Nat` gives, since the library's
induction rules take an operator as a parameter.

## 5. Not modelled

PROJECT.json lists every component with its reason. In short:

- Queries, percentiles and digests are read-only and numeric; the rule they read by is `Visible` of MetricRollup.
- The transfer of rollups between two stores, imports, retention, policy changes and the reclaiming of digests:
  long batched copies without a crash protocol of their own. What matters of them to the lifecycle (they hold
  the gate, they may fail or be canceled) is in StoreLifecycle.
- The scheduler's register is a map under one lock; what an overlap of two runs does depends on the job.
- Plugins and the script runtime: their states are those of a third-party interpreter.
- Terminals copy frames between two sockets; uploads to the server itself are directories of chunks.
- Ping scheduling and threshold notifications are timers over data modelled elsewhere.
- Accounts, configuration, schema migrations, earnings, OAuth, RPC, routing: single rows or stateless.
- Recovery, installation and backup pages: single calls to the store and the file system.

## 6. Where the code departs from what it says

Each of these is stated as a property of a module and refuted by a small instance, which a reader can run with
`tlc -config <Instance>.cfg <MC module>`; TLC prints the steps. `RollupStaleClock` is one of the project's runs, and
its violation a finding of PROJECT.json; the others are instances beside the runs.

| Instance, module | Property | The code | What it says |
|---|---|---|---|
| `RollupCascade`, MCMetricRollup | SealMergesStoredRows | a staged child is overwritten by the last flushed increment (coarse_rollup.go:99), while the minute row merges it; the sealed parent lacks the earlier samples. A batch of ping results is written before the reports of the same tick, so two flushes of one minute are usual | "tier i+1 buckets are built by merging the tier i rows they span" (rollup.go:272) |
| `RollupDelete`, MCMetricRollup | DeletedEverywhere | `DeleteBefore`, used to delete all records, leaves the staged children of unsealed parents; they are sealed later (store.go:1235) | "deletes retained raw points and summaries older than a cutoff across every resolution" (store.go:1196) |
| `RollupStaleClock`, MCMetricRollup | SealedImmutable | a compaction with a clock older than a concurrent write's flushes a minute that a failed transaction left in memory, stages it below a parent the write has sealed, and the next compaction overwrites the sealed row (runtime.go:227) | "A parent that has already sealed must remain immutable" (coarse_rollup.go:47) |
| `BatcherRetry`, MCReportBatcher | TrafficSummable | the traffic counters advance before a write that fails (report_batcher.go:405); the retry charges a wrong increase | "Traffic deltas remain summable after rollup" (report_batcher.go:151) |
| `LifecycleReads`, MCStoreLifecycle | ReadsKeepStore | `GetStore` hands out the store without a lease to history queries, ping writes and deletions; a reload closes it under them (store.go:260) | the gate "keeps an active Store stable while allowing regular reads, report writes, and compaction to proceed together" (operation_gate.go:9-10) |
| `PresenceFalseAlarm`, MCAgentPresence | ReturnIsNoticed | when the online goroutine of a socket that has ended runs after that of the polling session which followed it, the ended id becomes the current one again (offline.go:127-164); its loss is then marked and, after the grace period, reported although the agent polls (offline.go:89-108) | "If a client goes offline and doesn't reconnect within this time, an offline notification will be sent." (web/theme/komari-deer/src/i18n/locales/en.json:428) |
| `RelayAuthority`, MCFileRelay | BytesAreAuthoritative | an error of the agent's call closes the pipe before the copier has seen its end, so a chunk whose bytes were all written is given up when the last write was slow | "The bytes already delivered to the browser are authoritative." (stream_relay.go:514) |
| `UploadOverwrite`, MCUploadSessions | CompleteIsUploaded | a commit whose session the agent does not know is reported as complete when a file of the same size is at the path, although it may be the old one | "A previous merge request may have timed out after the agent renamed the part file." (transfer.go:418) |

Known and outside these properties: after a restart the raw window is empty, so a sample of a minute
stored before the restart that arrives late rebuilds the minute without what was stored. `MinuteConserved`
therefore speaks of minutes that do not predate the last open. The default source of a migration is
the last recorded target (store_migration.go:82), while its comment (lines 28-29) speaks of the
previous one: two reloads without a migration skip the store in between.

## 7. Plan

Done: MetricRollup and SeriesLedger, ReportBatcher, StoreLifecycle, AgentPresence, AgentCommands, StoreRestructure,
FileRelay and UploadSessions, with the proofs of section 4. What remains worth doing, in this order:

1. The composition of **ReportBatcher** with `ServedStore`, which **StoreLifecycle** implements: a batch whose
   write fails because a reload is under way, and its retry on the next store.
2. **Queue liveness** of AgentCommands under an agent that keeps polling.
3. The **transfer between two stores** with its digest of what was copied, then retention and policy changes.
4. The scheduler's register and the plugin manager's start and stop.
