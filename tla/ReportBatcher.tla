--------------------------- MODULE ReportBatcher ---------------------------
(***************************************************************************)
(* The shared report writer (internal/metricstore/report_batcher.go):      *)
(* agents enqueue reports and ping results without waiting, one worker      *)
(* drains both queues on a ticker or on request and writes them in batches, *)
(* and callers flush or stop it.  The channels between them are a bounded   *)
(* queue of each kind and a request slot of capacity one.                   *)
(*                                                                         *)
(* A report is its client and the agent's cumulative traffic counter; the   *)
(* stored point adds the increase the server derived from the counter.      *)
(* Upload and download are treated alike, so one counter stands for both.   *)
(***************************************************************************)
EXTENDS Integers, Sequences

CONSTANTS
  Clients,     \* agents
  MaxTotal,    \* bound: largest value of a cumulative counter
  MaxReset,    \* maxResetAwareDelta
  Capacity,    \* reportBatchQueueSize
  PingChunk,   \* pingBatchMaxRecords
  Flushers,    \* callers of FlushReportBatch, one call each
  Stoppers,    \* callers of StopReportBatcher, one call each
  MaxReports, MaxPings, \* bounds: items of each kind ever accepted
  Incidents    \* what may happen together: "write" (a write fails once
               \* after the traffic states advanced), "lookup" (of a stored
               \* counter fails), "restart" (of the process), "delete" (of
               \* records), "partial" (the traffic outlives its counters)

ASSUME BatcherAssumption ==
  /\ MaxTotal \in Nat /\ MaxReset \in Nat
  /\ Capacity \in Nat \ {0} /\ PingChunk \in Nat \ {0}
  /\ Flushers \cap Stoppers = {}
  /\ \A c, d \in Stoppers : c = d  \* the shutdown stops the worker once
  /\ MaxReports \in Nat /\ MaxPings \in Nat
  /\ "none" \notin Flushers \cup Stoppers
  /\ {} \in Incidents
  /\ Incidents \subseteq SUBSET {"write", "lookup", "restart", "delete", "partial"}

-----------------------------------------------------------------------------
Kinds   == {"report", "ping"}
Callers == Flushers \cup Stoppers
None    == -1

Totals  == 0..MaxTotal
Report  == [client : Clients, total : Totals]

VARIABLES
  registered, \* reportBatcher points to the worker
  stopping,   \* worker.stopping
  queue,      \* worker.queue and worker.pingQueue
  requests,   \* worker.requests: the callers whose request is in the slot
  pending,    \* drained but not yet written, in the worker's frame
  work,       \* the worker: where it is, for which caller, an error so far
  states,     \* reportTrafficStates
  clearing,   \* the deletion in progress: its clients, and what it has left to do
  calls,      \* the flush and stop calls
  accepted,   \* history: what enqueue accepted, per kind, in order
  written,    \* history: what a successful write covered and the store still has,
              \* per kind, in order
  stored,     \* what WriteBatch put into the store: each client's latest
              \* counter, and the sum of its traffic points
  kept,       \* the part of it that is in the database, not only in memory
  durable,    \* how much of what was written that part covers, per kind
  origin,     \* history: how many written reports a client's last deletion covered
  incidents   \* history: which of Incidents have happened

channels == <<queue, requests, pending>>
deletion == <<clearing, origin>>
database == <<kept, durable>>
vars == <<registered, stopping, channels, work, states, calls, accepted, written,
          stored, database, deletion, incidents>>

Fresh  == [init |-> FALSE, last |-> None]
Idle   == [pc |-> "idle", for |-> "none", err |-> FALSE]
NoAccount == [last |-> None, charged |-> 0]
NoItems == [k \in Kinds |-> <<>>]
NoDeletion == [clients |-> {}, left |-> "nothing"]
NoCall == [pc |-> "ready", reply |-> "none", upto |-> [k \in Kinds |-> 0]]

Init ==
  /\ registered = TRUE /\ stopping = FALSE
  /\ queue = NoItems /\ pending = NoItems
  /\ requests = <<>>
  /\ work = Idle
  /\ states = [c \in Clients |-> Fresh]
  /\ calls = [c \in Callers |-> NoCall]
  /\ accepted = NoItems /\ written = NoItems
  /\ clearing = NoDeletion /\ origin = [c \in Clients |-> 0]
  /\ stored = [c \in Clients |-> NoAccount] /\ incidents = {}
  /\ kept = stored /\ durable = [k \in Kinds |-> 0]

-----------------------------------------------------------------------------
(* Producers: WriteReport and WritePingRecord.  A full queue, a stopping    *)
(* worker and a cancelled context are reported to the agent: no step.       *)

\* Faulty: a stopping worker accepts.
AcceptsWhileStopping(k)  == registered /\ Len(queue[k]) < Capacity

Accepts(k) == registered /\ ~stopping /\ Len(queue[k]) < Capacity

Enqueue(k, item) ==
  /\ Accepts(k)
  /\ queue' = [queue EXCEPT ![k] = Append(@, item)]
  /\ accepted' = [accepted EXCEPT ![k] = Append(@, item)]
  /\ UNCHANGED <<deletion, database, registered, stopping, requests, pending, work, states, calls,
                 written, stored, incidents>>

WriteReport(r) == Len(accepted["report"]) < MaxReports /\ Enqueue("report", r)

WritePingRecord ==
  /\ Len(accepted["ping"]) < MaxPings
  /\ Enqueue("ping", Len(accepted["ping"]) + 1)

-----------------------------------------------------------------------------
(* Callers *)

Return(c, reply) ==
  calls' = [calls EXCEPT ![c].pc = "done", ![c].reply = reply]

FlushCall(c) ==
  /\ calls[c].pc = "ready"
  /\ IF ~registered THEN Return(c, "ok")
     ELSE IF stopping THEN Return(c, "stopped")
     ELSE calls' = [calls EXCEPT ![c].pc = "sending",
                      ![c].upto = [k \in Kinds |-> Len(accepted[k])]]
  /\ UNCHANGED <<deletion, database, registered, stopping, channels, work, states, accepted, written,
                 stored, incidents>>

StopCall(c) ==
  /\ calls[c].pc = "ready"
  /\ IF ~registered THEN Return(c, "ok") /\ UNCHANGED stopping
     ELSE stopping' = TRUE /\ calls' = [calls EXCEPT ![c].pc = "sending"]
  /\ UNCHANGED <<deletion, database, registered, channels, work, states, accepted, written, stored,
                 incidents>>

\* Only a flush notices that the worker is gone before it sends.
Send(c) ==
  /\ calls[c].pc = "sending"
  /\ \/ /\ requests = <<>>
        /\ requests' = <<c>>
        /\ calls' = [calls EXCEPT ![c].pc = "waiting"]
     \/ /\ c \in Flushers /\ work.pc = "exited"
        /\ Return(c, "stopped")
        /\ UNCHANGED requests
  /\ UNCHANGED <<deletion, database, registered, stopping, queue, pending, work, states, accepted,
                 written, stored, incidents>>

\* The caller's context ends while it sends or waits; its request stays.
Expire(c) ==
  /\ calls[c].pc \in {"sending", "waiting"}
  /\ Return(c, "expired")
  /\ UNCHANGED <<deletion, database, registered, stopping, channels, work, states, accepted, written,
                 stored, incidents>>

\* A stop also unregisters the worker, which has exited by then.
Receive(c) ==
  /\ calls[c].pc = "waiting" /\ calls[c].reply # "none"
  /\ calls' = [calls EXCEPT ![c].pc = "done"]
  /\ registered' = (registered /\ c \notin Stoppers)
  /\ UNCHANGED <<deletion, database, stopping, channels, work, states, accepted, written, stored,
                 incidents>>

-----------------------------------------------------------------------------
(* The worker *)

\* Faulty variant: a drain forgets what an earlier write left pending.
DrainedAfresh(k) == queue[k]

Drained(k) == pending[k] \o queue[k]

\* drainReportQueue, drainPingQueue for the kinds in ks.
Drain(ks) ==
  /\ pending' = [k \in Kinds |-> IF k \in ks THEN Drained(k) ELSE pending[k]]
  /\ queue' = [k \in Kinds |-> IF k \in ks THEN <<>> ELSE queue[k]]

TakeRequest ==
  /\ work.pc = "idle" /\ requests # <<>>
  /\ Drain(Kinds)
  /\ work' = [pc |-> "reports", for |-> Head(requests), err |-> FALSE]
  /\ requests' = Tail(requests)
  /\ UNCHANGED <<deletion, database, registered, stopping, states, calls, accepted, written, stored,
                 incidents>>

TakeTick ==
  /\ work.pc = "idle"
  /\ Drain({"ping"})
  /\ work' = [pc |-> "tick pings", for |-> "none", err |-> FALSE]
  /\ UNCHANGED <<deletion, database, registered, stopping, requests, states, calls, accepted, written,
                 stored, incidents>>

\* TrafficCounterDelta.
Delta(current, previous) ==
  IF current >= previous THEN current - previous
  ELSE IF current > MaxReset THEN 0 ELSE current

\* TrafficCounterDelta, or nothing when there is no previous counter.
Traffic(current, previous) == IF previous = None THEN 0 ELSE Delta(current, previous)

\* A client's account: its counter so far, and what it was charged.
Account == [last : Totals \cup {None}, charged : Nat]

Charge(account, total) ==
  [last |-> total, charged |-> account.charged + Traffic(total, account.last)]

\* The accounts of client c along a batch, report after report.
Course(batch, c, account) ==
  LET after[n \in 0..Len(batch)] ==
        IF n = 0 THEN account
        ELSE IF batch[n].client = c THEN Charge(after[n - 1], batch[n].total)
        ELSE after[n - 1]
  IN after

Through(batch, c, account) == Course(batch, c, account)[Len(batch)]

Reports(batch, c) == \E i \in 1..Len(batch) : batch[i].client = c

\* Clients in the pending reports whose counter must be looked up.
Unrestored == {c \in Clients : ~states[c].init /\ Reports(pending["report"], c)}

\* Faulty variant: a counter that is not in memory counts as unknown.
RestoredFromMemory(c, failed) == IF states[c].init THEN states[c].last ELSE None

\* The counter a batch starts from: the one in memory, or the latest one in the
\* store (latestReportCounter) unless its lookup fails.
Restored(c, failed) ==
  IF states[c].init THEN states[c].last
  ELSE IF c \in failed THEN None ELSE stored[c].last

\* The traffic states and the store after the pending reports went through
\* writeReportBatch, when the lookups of the clients in `failed' failed.
StatesAfter ==
  [c \in Clients |->
     IF Reports(pending["report"], c)
     THEN [init |-> TRUE, last |-> Through(pending["report"], c, NoAccount).last]
     ELSE states[c]]

StoredAfter(failed) ==
  [c \in Clients |->
     IF Reports(pending["report"], c)
     THEN Through(pending["report"], c,
                  [last |-> Restored(c, failed), charged |-> stored[c].charged])
     ELSE stored[c]]

LookupFails(failed) == IF \E c \in failed : stored[c].last # None THEN {"lookup"} ELSE {}

\* Faulty variants: the pings' outcome hides the reports' error; a tick writes
\* pings only.
AfterLastError(failed) ==
  work' = CASE work.pc = "reports"      -> [work EXCEPT !.pc = "pings", !.err = failed]
            [] work.pc = "pings"        -> [work EXCEPT !.pc = "reply", !.err = failed]
            [] work.pc = "tick pings"   -> [work EXCEPT !.pc = "tick reports"]
            [] work.pc = "tick reports" -> Idle

AfterPingsOnly(failed) ==
  work' = CASE work.pc = "reports" -> [work EXCEPT !.pc = "pings", !.err = failed]
            [] work.pc = "pings"   -> [work EXCEPT !.pc = "reply", !.err = @ \/ failed]
            [] OTHER               -> Idle

\* The worker leaves a kind behind: in a request reports come before pings and
\* an error of either is kept for the caller; in a tick pings come first.
After(failed) ==
  work' = CASE work.pc = "reports"      -> [work EXCEPT !.pc = "pings", !.err = failed]
            [] work.pc = "pings"        -> [work EXCEPT !.pc = "reply", !.err = @ \/ failed]
            [] work.pc = "tick pings"   -> [work EXCEPT !.pc = "tick reports"]
            [] work.pc = "tick reports" -> Idle

\* writePendingReports hands all pending reports to writeReportBatch.  The gate
\* or the store may refuse before anything is computed; the write may fail after
\* the traffic states advanced, before or after its points entered memory.
ReportsRefused ==
  /\ After(TRUE)
  /\ UNCHANGED <<pending, states, written, stored, incidents>>

ReportsFail(failed) ==
  /\ "write" \notin incidents
  /\ After(TRUE)
  /\ states' = StatesAfter
  /\ stored' \in {stored, StoredAfter(failed)}
  /\ incidents' = incidents \cup {"write"} \cup LookupFails(failed)
  /\ UNCHANGED <<pending, written>>

ReportsWritten(failed) ==
  /\ After(FALSE)
  /\ states' = StatesAfter
  /\ stored' = StoredAfter(failed)
  /\ pending' = [pending EXCEPT !["report"] = <<>>]
  /\ written' = [written EXCEPT !["report"] = @ \o pending["report"]]
  /\ incidents' = incidents \cup LookupFails(failed)

WriteReports ==
  /\ work.pc \in {"reports", "tick reports"} /\ pending["report"] # <<>>
  /\ \/ ReportsRefused
     \/ \E failed \in SUBSET Unrestored : ReportsFail(failed) \/ ReportsWritten(failed)
  /\ incidents' \in Incidents
  /\ UNCHANGED <<deletion, database, registered, stopping, queue, requests, calls, accepted>>

NoReports ==
  /\ work.pc \in {"reports", "tick reports"} /\ pending["report"] = <<>>
  /\ After(FALSE)
  /\ UNCHANGED <<deletion, database, registered, stopping, channels, states, calls, accepted, written,
                 stored, incidents>>

\* writePendingPingRecords writes chunk after chunk until one fails.
WritePings ==
  LET n == IF Len(pending["ping"]) > PingChunk THEN PingChunk ELSE Len(pending["ping"]) IN
  /\ work.pc \in {"pings", "tick pings"} /\ n > 0
  /\ pending' = [pending EXCEPT !["ping"] = SubSeq(@, n + 1, Len(@))]
  /\ written' = [written EXCEPT !["ping"] = @ \o SubSeq(pending["ping"], 1, n)]
  /\ UNCHANGED <<deletion, database, registered, stopping, queue, requests, work, states, calls, accepted,
                 stored, incidents>>

\* No ping is left, or a chunk failed.  A tick drains the reports only now.
PingsDone(failed) ==
  /\ work.pc \in {"pings", "tick pings"}
  /\ failed <=> pending["ping"] # <<>>
  /\ After(failed)
  /\ Drain(IF work.pc = "tick pings" THEN {"report"} ELSE {})
  /\ UNCHANGED <<deletion, database, registered, stopping, requests, states, calls, accepted, written,
                 stored, incidents>>

\* Faulty variant: a stopping worker returns without answering.
ReplyToFlushOnly ==
  /\ work.pc = "reply"
  /\ calls' = [calls EXCEPT ![work.for].reply =
                 IF calls[work.for].pc # "waiting" \/ work.for \in Stoppers THEN @
                 ELSE IF work.err THEN "error" ELSE "ok"]
  /\ work' = IF work.for \in Stoppers THEN [Idle EXCEPT !.pc = "exited"] ELSE Idle
  /\ UNCHANGED <<deletion, database, registered, stopping, channels, states, accepted, written,
                 stored, incidents>>

\* The caller gets the joined error; after a stop request the worker is gone,
\* with whatever it could not write.
Reply ==
  /\ work.pc = "reply"
  /\ calls' = [calls EXCEPT ![work.for].reply =
                 IF calls[work.for].pc # "waiting" THEN @
                 ELSE IF work.err THEN "error" ELSE "ok"]
  /\ work' = IF work.for \in Stoppers THEN [Idle EXCEPT !.pc = "exited"] ELSE Idle
  /\ UNCHANGED <<deletion, database, registered, stopping, channels, states, accepted, written,
                 stored, incidents>>

-----------------------------------------------------------------------------
(* Deletion of records *)

DeletionStarts(cs, left) ==
  /\ clearing.left = "nothing"
  /\ clearing' = [clients |-> cs, left |-> left]
  /\ incidents' = incidents \cup {"delete"} /\ incidents' \in Incidents

\* A client's traffic points are gone: what it is charged starts again.
Uncharged(cs) ==
  origin' = [c \in Clients |-> IF c \in cs THEN Len(written["report"]) ELSE origin[c]]

\* DeleteEntity removes all points of a client in one transaction, and its traffic
\* state in a second step; a batch may be written in between.
DeleteEntity(c) ==
  /\ DeletionStarts({c}, "states")
  /\ stored' = [stored EXCEPT ![c] = NoAccount]
  /\ kept' = [kept EXCEPT ![c] = NoAccount]
  /\ Uncharged({c})
  /\ UNCHANGED <<registered, stopping, channels, work, states, calls, accepted, written,
                 durable>>

WithoutCounters(accounts) == [c \in Clients |-> [accounts[c] EXCEPT !.last = None]]
WithoutTraffic(accounts)  == [c \in Clients |-> [accounts[c] EXCEPT !.charged = 0]]

\* DeleteAllRecords deletes metric after metric, the counters before the traffic;
\* a metric that cannot be deleted is logged and left as it is.
DeleteCounters ==
  /\ DeletionStarts(Clients, "traffic")
  /\ \/ UNCHANGED <<stored, kept>>
     \/ stored' = WithoutCounters(stored) /\ kept' = WithoutCounters(kept)
  /\ UNCHANGED <<registered, stopping, channels, work, states, calls, accepted, written,
                 origin, durable>>

DeleteTraffic ==
  /\ clearing.left = "traffic"
  /\ clearing' = [clearing EXCEPT !.left = "states"]
  /\ \/ /\ stored' = WithoutTraffic(stored) /\ kept' = WithoutTraffic(kept)
        /\ Uncharged(Clients)
        /\ UNCHANGED incidents
     \/ /\ incidents' = incidents \cup {"partial"} /\ incidents' \in Incidents
        /\ UNCHANGED <<stored, kept, origin>>
  /\ UNCHANGED <<registered, stopping, channels, work, states, calls, accepted, written,
                 durable>>

\* clearReportTrafficStates, deleteReportTrafficState
ClearReportTrafficStates ==
  /\ clearing.left = "states"
  /\ clearing' = NoDeletion
  /\ states' = [c \in Clients |-> IF c \in clearing.clients THEN Fresh ELSE states[c]]
  /\ UNCHANGED <<registered, stopping, channels, work, calls, accepted, written, stored,
                 database, origin, incidents>>

-----------------------------------------------------------------------------
(* The store's memory, and restarts of the process *)

\* What was written lives in the store's memory until its minute is over; then one
\* transaction (persistHotRollups), the compaction's or a later batch's, persists
\* the minute of every series, and so does the Close of a shutdown.  Only a restart
\* tells what was persisted from what was not, so the model persists only where one
\* may follow.
Persist(k) ==
  /\ incidents \cup {"restart"} \in Incidents
  /\ kept' = IF k = "report" THEN stored ELSE kept
  /\ durable' = [durable EXCEPT ![k] = Len(written[k])]
  /\ UNCHANGED <<deletion, registered, stopping, channels, work, states, calls, accepted,
                 written, stored, incidents>>

\* The part of what was written that is persisted.
Surviving == [k \in Kinds |-> SubSeq(written[k], 1, durable[k])]

SurvivingOrigin ==
  [c \in Clients |-> IF origin[c] <= durable["report"] THEN origin[c] ELSE durable["report"]]

\* The process crashes or is shut down, and starts again: what was accepted but not
\* written is gone, and so is what was written but not persisted; the traffic states
\* are only in the store.
Restart ==
  /\ incidents' = incidents \cup {"restart"}
                 \cup (IF clearing.left = "traffic" THEN {"partial"} ELSE {})
  /\ incidents' \in Incidents
  /\ registered' = TRUE /\ stopping' = FALSE
  /\ queue' = NoItems /\ pending' = NoItems /\ requests' = <<>>
  /\ work' = Idle /\ calls' = [c \in Callers |-> NoCall]
  /\ states' = [c \in Clients |-> Fresh] /\ clearing' = NoDeletion
  /\ written' = Surviving /\ accepted' = Surviving
  /\ stored' = kept
  /\ origin' = SurvivingOrigin
  /\ UNCHANGED database

-----------------------------------------------------------------------------
Next ==
  \/ \E r \in Report : WriteReport(r)
  \/ WritePingRecord
  \/ \E c \in Flushers : FlushCall(c)
  \/ \E c \in Stoppers : StopCall(c)
  \/ \E c \in Callers : Send(c) \/ Expire(c) \/ Receive(c)
  \/ TakeRequest \/ TakeTick
  \/ WriteReports \/ NoReports \/ WritePings
  \/ PingsDone(TRUE) \/ PingsDone(FALSE)
  \/ Reply
  \/ \E c \in Clients : DeleteEntity(c)
  \/ DeleteCounters \/ DeleteTraffic \/ ClearReportTrafficStates
  \/ \E k \in Kinds : Persist(k)
  \/ Restart

Spec == Init /\ [][Next]_vars

\* The worker goroutine runs and its select takes a request that stays in the
\* slot; a caller that can proceed does; the store does not fail for ever, which
\* is what a batch that is retried for ever needs to be written at last.
Fairness ==
  /\ WF_vars(TakeTick) /\ SF_vars(TakeRequest)
  /\ WF_vars(NoReports) /\ WF_vars(WriteReports) /\ WF_vars(Reply)
  /\ SF_vars(WriteReports /\ written' # written)
  /\ SF_vars(WritePings) /\ WF_vars(PingsDone(FALSE)) /\ WF_vars(PingsDone(TRUE))
  /\ \A c \in Callers : WF_vars(Send(c)) /\ WF_vars(Receive(c))

FairSpec == Spec /\ Fairness

-----------------------------------------------------------------------------
(* Properties *)

\* Type invariant; a batch in progress knows whom it answers.
TypeOK ==
  /\ registered \in BOOLEAN /\ stopping \in BOOLEAN /\ incidents \in Incidents
  /\ DOMAIN queue = Kinds /\ DOMAIN pending = Kinds
  /\ DOMAIN accepted = Kinds /\ DOMAIN written = Kinds
  /\ \A f \in {queue, pending, accepted, written} :
       f["report"] \in Seq(Report) /\ f["ping"] \in Seq(1..MaxPings)
  /\ Len(requests) <= 1 /\ \A i \in DOMAIN requests : requests[i] \in Callers
  /\ work.err \in BOOLEAN
  /\ work.pc \in {"idle", "tick pings", "tick reports", "exited"} <=> work.for = "none"
  /\ work.pc \in {"reports", "pings", "reply"} <=> work.for \in Callers
  /\ clearing \in [clients : SUBSET Clients, left : {"nothing", "traffic", "states"}]
  /\ origin \in [Clients -> 0..MaxReports]
  /\ states \in [Clients -> [init : BOOLEAN, last : Totals \cup {None}]]
  /\ calls \in [Callers -> [pc : {"ready", "sending", "waiting", "done"},
                 reply : {"none", "ok", "error", "stopped", "expired"},
                 upto : [Kinds -> Nat]]]
  /\ stored \in [Clients -> Account] /\ kept \in [Clients -> Account]
  /\ durable \in [Kinds -> Nat]

\* No accepted item is dropped, repeated or overtaken on its way through the
\* queue, the worker's pending slice, failed writes and partial ping chunks: what
\* was written, then what is pending, then what is queued is what was accepted,
\* and the queue never holds more than its capacity.
AcceptedInOrder ==
  \A k \in Kinds :
    written[k] \o pending[k] \o queue[k] = accepted[k] /\ Len(queue[k]) <= Capacity

\* "It is useful for controlled handoff points": when a flush returns without
\* error, all that was accepted before the call has been written.
FlushCoversEarlier ==
  \A c \in Flushers :
    calls[c].pc = "done" /\ calls[c].reply = "ok" =>
      \A k \in Kinds : Len(written[k]) >= calls[c].upto[k]

\* "stops the report writer after flushing all queued reports": when a stop
\* returns without error, nothing that was ever accepted is left behind, however
\* enqueues raced with it.
StopLeavesNothing ==
  \A c \in Stoppers :
    calls[c].reply = "ok" => \A k \in Kinds : written[k] = accepted[k]

\* What a client may have been charged since its records were last deleted: the
\* increase of its counter over the reports written since, the first of them
\* compared with the last one before the deletion or with nothing.
Before(c) == SubSeq(written["report"], 1, origin[c])
Since(c)  == SubSeq(written["report"], origin[c] + 1, Len(written["report"]))

Increase(c) ==
  {Through(Since(c), c, [last |-> previous, charged |-> 0]).charged :
     previous \in {None, Through(Before(c), c, NoAccount).last}}

\* Batches, refused writes that are retried, crashes and deletions that race with a
\* batch charge every client exactly the increase of its counter over the reports
\* the store has, resets included: what a crash takes with the store's memory, the
\* next report charges.  Between the two halves of DeleteAllRecords the charge is
\* void.
TrafficConserved ==
  incidents \subseteq {"restart", "delete"} /\ clearing.left # "traffic" =>
    \A c \in Clients : stored[c].charged \in Increase(c)

\* "Traffic deltas remain summable" (report_batcher.go:151), and the traffic state
\* kept after a failed write is only "the restored per-report traffic state"
\* (report_batcher.go:402): once every pending report is written, each client was
\* charged the increase of its counter.
TrafficSummable ==
  pending["report"] = <<>> => \A c \in Clients : stored[c].charged \in Increase(c)

\* A stop request is answered, whatever flushes it competes with for the slot,
\* without waiting for its context to end, unless the process restarts first.
StopReturns ==
  \A c \in Stoppers : calls[c].pc = "sending" ~> calls[c].pc \in {"done", "ready"}

\* An accepted item is written, through any number of failures, unless the worker
\* exits or the process restarts first.
AcceptedIsWritten ==
  \A k \in Kinds : \A n \in 1..(IF k = "report" THEN MaxReports ELSE MaxPings) :
    Len(accepted[k]) >= n ~>
      (Len(written[k]) >= n \/ Len(accepted[k]) < n \/ work.pc = "exited")

=============================================================================
