----------------------------- MODULE FileRelay -----------------------------
(***************************************************************************)
(* Downloads from an agent (web/filemanager/stream_relay.go and Download in *)
(* transfer.go).  The handler of a browser's request asks for one chunk at  *)
(* a time.  For each it opens a transfer, calls the agent and copies what   *)
(* the agent's own HTTP request writes into a pipe to the browser, whose    *)
(* response is shared by all chunks and attempts.                           *)
(*                                                                         *)
(* Bytes are counted in units of MinTransferChunkSize.  The requested range *)
(* starts at 0.  Time is abstracted: a transfer expires, a call times out   *)
(* and a browser leaves at any moment.  close is one step: after it has set *)
(* closed under its lock it has the transfer to itself.  The relays of      *)
(* uploaded chunks (uploadChunk in transfer.go) take slots in the same way  *)
(* and are left out.                                                        *)
(***************************************************************************)
EXTENDS Integers, FiniteSets

CONSTANTS
  Downloads,   \* requests of browsers, for files of one agent
  Transfers,   \* ids; one is used again when nothing refers to it any more
  StreamSlots, \* maxStreamTransfers
  Size,        \* lengths of the requested ranges
  ChunkSize,   \* DefaultTransferChunkSize
  Attempts,    \* streamChunkAttempts
  Answers,     \* bound: errors an agent may answer, as isPayloadTooLargeError,
               \* isNonRetryableStreamError and isChunkTransportError tell them apart
  Leavers,     \* bound: requests whose browser may leave
  NoTransfer,  \* a model value
  Nobody       \* a model value: the owner of a transfer that is not used

ASSUME RelayAssumption ==
  /\ IsFiniteSet(Transfers) /\ Transfers # {}
  /\ StreamSlots \in Nat \ {0} /\ Size \in [Downloads -> Nat \ {0}]
  /\ ChunkSize \in Nat \ {0} /\ Attempts \in Nat \ {0}
  /\ Answers \subseteq {"oversize", "toolarge", "rejected", "transport"}
  /\ Nobody \notin Downloads /\ NoTransfer \notin Transfers

VARIABLES
  phase,     \* where the request's handler is
  loop,      \* variables of streamDownloadRelay
  cur,       \* the transfer of streamDownloadChunk
  gone,      \* the browser has left: the request's context is done
  out,       \* units in the response
  clean,     \* history: each unit came at its own place, after the headers
  committed, \* the headers of a download are set
  answer,    \* how the request ended
  cache,     \* downloadChunkSizes of the agent
  slots,     \* streamSlots
  job,       \* transfers: owner, first unit, number of units
  open,      \* transfers that are not closed
  agent,     \* transfers: the agent's HTTP request
  pipe,      \* transfers: io.Pipe
  left,      \* transfers: units the agent has not written yet
  copied,    \* transfers: units written to the browser
  copier,    \* transfers: the goroutine that copies
  copyErr,   \* transfers: its error
  call       \* transfers: the goroutine in Call, and its result

request == <<phase, loop, cur>>
response == <<out, clean, committed, answer>>
stream == <<agent, left>>
copying == <<copied, copier, copyErr>>
vars == <<request, gone, response, cache, slots, job, open, stream, pipe, copying, call>>

\* How a call ends: "other" are the remaining errors of an agent, the call's
\* time-out and its cancellation.
Results == Answers \cup {"ok", "other"}

Min2(a, b) == IF a < b THEN a ELSE b

\* A chunk of a request from off on, and its attempt; the first one has the
\* size of the agent's last one.
Chunk(d, off, size, upper, attempt) ==
  [size |-> size, len |-> Min2(size, Size[d] - off), off |-> off, upper |-> upper,
   attempt |-> attempt]

First(d, size) == Chunk(d, 0, size, size, 1)

NoJob == [owner |-> Nobody, first |-> 0, len |-> 0]

Init ==
  /\ phase = [d \in Downloads |-> "new"] /\ loop = [d \in Downloads |-> First(d, ChunkSize)]
  /\ cur = [d \in Downloads |-> NoTransfer]
  /\ gone = [d \in Downloads |-> FALSE]
  /\ out = [d \in Downloads |-> 0] /\ clean = [d \in Downloads |-> TRUE]
  /\ committed = [d \in Downloads |-> FALSE] /\ answer = [d \in Downloads |-> "none"]
  /\ cache = ChunkSize /\ slots = 0
  /\ job = [t \in Transfers |-> NoJob]
  /\ open = {} /\ agent = [t \in Transfers |-> "away"]
  /\ pipe = [t \in Transfers |-> "shut"]
  /\ left = [t \in Transfers |-> 0] /\ copied = [t \in Transfers |-> 0]
  /\ copier = [t \in Transfers |-> "done"] /\ copyErr = [t \in Transfers |-> "none"]
  /\ call = [t \in Transfers |-> "ok"]

-----------------------------------------------------------------------------
(* streamTransfer *)

\* An error closes both ends of the pipe, success leaves the reader to drain
\* it.  Only the first call has an effect.
Release(t, failed) ==
  /\ open' = open \ {t} /\ slots' = slots - 1
  /\ pipe' = [pipe EXCEPT ![t] = IF failed THEN "shut" ELSE IF @ = "open" THEN "eof" ELSE @]

\* Faulty variant: a transfer is closed again.
CloseAgain(t, failed) == Release(t, failed)

Close(t, failed) == IF t \in open THEN Release(t, failed) ELSE UNCHANGED <<open, slots, pipe>>

\* Faulty variant: the cleanup looks at the other transfers.
CleanupConnected(t) ==
  /\ t \in open /\ agent[t] # "away"
  /\ Close(t, TRUE)
  /\ UNCHANGED <<request, gone, response, cache, job, stream, copying, call>>

\* The cleanup goroutine: no agent connected in time.
Cleanup(t) ==
  /\ t \in open /\ agent[t] = "away"
  /\ Close(t, TRUE)
  /\ UNCHANGED <<request, gone, response, cache, job, stream, copying, call>>

\* A request of the agent that comes after the expiry, or announces another
\* length, does the same, even to a transfer that is connected.
Reject(t) ==
  /\ t \in open /\ agent[t] # "away"
  /\ Close(t, TRUE)
  /\ UNCHANGED <<request, gone, response, cache, job, stream, copying, call>>

-----------------------------------------------------------------------------
(* AgentTransfer.  The agent is external: it sends the units it was asked
   for, in order; its body may end early or break at any moment. *)

\* markConnected admits one request, and none after close.
Connect(t) ==
  /\ t \in open /\ agent[t] = "away"
  /\ agent' = [agent EXCEPT ![t] = "sending"]
  /\ UNCHANGED <<request, gone, response, cache, slots, job, open, left, pipe, copying, call>>

\* io.Pipe: a write waits for the reader.
Hand(t) ==
  /\ agent[t] = "sending" /\ left[t] > 0
  /\ pipe[t] = "open" /\ copier[t] = "reading"
  /\ left' = [left EXCEPT ![t] = @ - 1]
  /\ copier' = [copier EXCEPT ![t] = "holding"]
  /\ UNCHANGED <<request, gone, response, cache, slots, job, open, agent, pipe, copied, copyErr, call>>

AgentFinishes(t) ==
  /\ agent[t] = "sending" /\ left[t] = 0
  /\ agent' = [agent EXCEPT ![t] = "sent"]
  /\ pipe' = [pipe EXCEPT ![t] = IF @ = "open" THEN "eof" ELSE @]
  /\ UNCHANGED <<request, gone, response, cache, slots, job, open, left, copying, call>>

\* The body ended early or broke, or the pipe was closed.
AgentFails(t) ==
  /\ agent[t] = "sending"
  /\ agent' = [agent EXCEPT ![t] = "failed"]
  /\ left' = [left EXCEPT ![t] = 0]
  /\ pipe' = [pipe EXCEPT ![t] = IF @ = "open" THEN "torn" ELSE @]
  /\ UNCHANGED <<request, gone, response, cache, slots, job, open, copying, call>>

AgentCloses(t) ==
  /\ agent[t] \in {"sent", "failed"}
  /\ agent' = [agent EXCEPT ![t] = "gone"]
  /\ Close(t, agent[t] = "failed")
  /\ UNCHANGED <<request, gone, response, cache, job, left, copying, call>>

-----------------------------------------------------------------------------
(* The goroutines of streamDownloadChunk.  Its loop receives how each of them
   ended; an error of either closes the transfer, so that the other ends. *)

CloseOnError(t, failed) == IF failed THEN Close(t, TRUE) ELSE UNCHANGED <<open, slots, pipe>>

\* Call ends with the agent's answer, or because of its timer (30 minutes) or
\* its context.
CallReturns(t, result) ==
  /\ call[t] = "running"
  /\ call' = [call EXCEPT ![t] = result]
  /\ CloseOnError(t, result # "ok")
  /\ UNCHANGED <<request, gone, response, cache, job, stream, copying>>

\* copyExactStream.  Only the first chunk sets the headers.
WriteUnit(t) ==
  LET d == job[t].owner
      set == committed[d] \/ job[t].first = 0
  IN  /\ copier[t] = "holding" /\ ~gone[d]
      /\ copier' = [copier EXCEPT ![t] = "reading"]
      /\ copied' = [copied EXCEPT ![t] = @ + 1]
      /\ committed' = [committed EXCEPT ![d] = set]
      /\ out' = [out EXCEPT ![d] = @ + 1]
      /\ clean' = [clean EXCEPT ![d] = @ /\ set /\ out[d] = job[t].first + copied[t]]
      /\ UNCHANGED <<request, gone, answer, cache, slots, job, open, stream, pipe, copyErr, call>>

\* The headers were set before the write.
WriteFails(t) ==
  /\ copier[t] = "holding" /\ gone[job[t].owner]
  /\ committed' = [committed EXCEPT ![job[t].owner] = @ \/ job[t].first = 0]
  /\ copier' = [copier EXCEPT ![t] = "done"]
  /\ copyErr' = [copyErr EXCEPT ![t] = "reset"]
  /\ CloseOnError(t, TRUE)
  /\ UNCHANGED <<request, gone, out, clean, answer, cache, job, stream, copied, call>>

\* What a read returns that waits for the end of the pipe.
ReadErrors(t) ==
  CASE pipe[t] = "shut" -> {"pipe"}
    [] pipe[t] = "torn" -> {"reset", "other"}
    [] pipe[t] = "eof"  -> IF copied[t] = job[t].len THEN {"none"} ELSE {"other"}

CopyEnds(t, err) ==
  /\ copier[t] = "reading" /\ pipe[t] # "open"
  /\ err \in ReadErrors(t)
  /\ copier' = [copier EXCEPT ![t] = "done"]
  /\ copyErr' = [copyErr EXCEPT ![t] = err]
  /\ CloseOnError(t, err # "none")
  /\ UNCHANGED <<request, gone, response, cache, job, stream, copied, call>>

-----------------------------------------------------------------------------
(* The request's handler: downloadFile and streamDownloadRelay. *)

Start(d) ==
  /\ phase[d] = "new"
  /\ phase' = [phase EXCEPT ![d] = "slot"]
  /\ loop' = [loop EXCEPT ![d] = First(d, cache)]
  /\ UNCHANGED <<cur, gone, response, cache, slots, job, open, stream, pipe, copying, call>>

\* Nothing refers to the transfer any more.
Unused(t) == t \notin open /\ \A d \in Downloads : cur[d] # t

\* newStreamTransfer, and the start of the goroutines.
NewTransfer(d, t) ==
  /\ phase[d] = "slot" /\ ~gone[d] /\ slots < StreamSlots
  /\ Unused(t) /\ t = CHOOSE u \in Transfers : Unused(u)
  /\ slots' = slots + 1
  /\ phase' = [phase EXCEPT ![d] = "run"]
  /\ cur' = [cur EXCEPT ![d] = t]
  /\ job' = [job EXCEPT ![t] = [owner |-> d, first |-> loop[d].off, len |-> loop[d].len]]
  /\ open' = open \cup {t} /\ agent' = [agent EXCEPT ![t] = "away"]
  /\ pipe' = [pipe EXCEPT ![t] = "open"]
  /\ left' = [left EXCEPT ![t] = loop[d].len] /\ copied' = [copied EXCEPT ![t] = 0]
  /\ copier' = [copier EXCEPT ![t] = "reading"] /\ copyErr' = [copyErr EXCEPT ![t] = "none"]
  /\ call' = [call EXCEPT ![t] = "running"]
  /\ UNCHANGED <<loop, gone, response, cache>>

\* The browser leaves; a chunk that is under way is closed.
Leave(d) ==
  /\ d \in Leavers /\ phase[d] \in {"slot", "run"} /\ ~gone[d]
  /\ gone' = [gone EXCEPT ![d] = TRUE]
  /\ CloseOnError(cur[d], phase[d] = "run")
  /\ UNCHANGED <<request, response, cache, job, stream, copying, call>>

\* Faulty variant: the handler does not wait for the goroutine that copies.
FinishedEarly(d) ==
  LET t == cur[d]
  IN  phase[d] = "run" /\ call[t] # "running" /\ (copier[t] = "done" \/ call[t] # "ok")

Finished(d) ==
  LET t == cur[d]
  IN  phase[d] = "run" /\ copier[t] = "done" /\ call[t] # "running"

\* What streamDownloadChunk returns; the agent's error explains a closed pipe.
ErrorOf(d) ==
  LET t == cur[d]
  IN  IF copyErr[t] # "pipe" THEN copyErr[t]
      ELSE IF call[t] = "ok" THEN "other" ELSE call[t]

Delivered(d) == copyErr[cur[d]] = "none"
Clean(d) == ~Delivered(d) /\ copied[cur[d]] = 0

\* nextReducedTransferChunkSize, for more than one unit.
NextReduced(failed, upper) ==
  LET high == Min2(failed, upper)
      next == 1 + ((high - 1) \div 2)
  IN  IF high <= 1 THEN 1 ELSE IF next >= failed THEN failed - 1 ELSE next

\* The deferred close of streamDownloadChunk.  Its variables are gone, and
\* nobody reads the pipe any more: if the agent's request still goes on, which
\* may be for ever, it can change nothing and is forgotten.
Return(d) ==
  LET t == cur[d]
  IN  /\ open' = open \ {t}
      /\ slots' = IF t \in open THEN slots - 1 ELSE slots
      /\ pipe' = [pipe EXCEPT ![t] = "shut"]
      /\ agent' = [agent EXCEPT ![t] = "away"] /\ left' = [left EXCEPT ![t] = 0]
      /\ cur' = [cur EXCEPT ![d] = NoTransfer]
      /\ job' = [job EXCEPT ![t] = NoJob]
      /\ copied' = [copied EXCEPT ![t] = 0] /\ copyErr' = [copyErr EXCEPT ![t] = "none"]
      /\ call' = [call EXCEPT ![t] = "ok"]

rest == <<gone, copier>>

\* Enough is known to try a smaller chunk: the answer says that this one is
\* too large, by a status or in words, or the last attempt failed on the way.
Shrinks(d) ==
  /\ Clean(d) /\ loop[d].len > 1
  /\ \/ ErrorOf(d) \in {"oversize", "toolarge"}
     \/ ErrorOf(d) \in {"transport", "reset"} /\ loop[d].attempt = Attempts

Retries(d) ==
  /\ Clean(d) /\ ~Shrinks(d) /\ loop[d].attempt < Attempts /\ ~gone[d]
  /\ ErrorOf(d) \notin {"oversize", "rejected"}

NextChunk(d) ==
  LET off == loop[d].off + loop[d].len
  IN  /\ Finished(d) /\ Delivered(d) /\ Return(d)
      /\ cache' = Min2(cache, loop[d].size)
      /\ IF off = Size[d]
         THEN /\ phase' = [phase EXCEPT ![d] = "done"]
              /\ answer' = [answer EXCEPT ![d] = "whole"]
              /\ loop' = [loop EXCEPT ![d] = First(d, ChunkSize)]
         ELSE /\ phase' = [phase EXCEPT ![d] = "slot"]
              /\ loop' = [loop EXCEPT ![d] = Chunk(d, off, loop[d].size, loop[d].upper, 1)]
              /\ UNCHANGED answer
      /\ UNCHANGED <<out, clean, committed, rest>>

Resize(d) ==
  LET upper == Min2(loop[d].upper, loop[d].len)
      next == NextReduced(loop[d].len, upper)
  IN  /\ Finished(d) /\ Shrinks(d) /\ Return(d)
      /\ phase' = [phase EXCEPT ![d] = "slot"]
      /\ loop' = [loop EXCEPT ![d] = Chunk(d, loop[d].off, next, upper, 1)]
      /\ UNCHANGED <<response, cache, rest>>

Retry(d) ==
  /\ Finished(d) /\ Retries(d) /\ Return(d)
  /\ phase' = [phase EXCEPT ![d] = "slot"]
  /\ loop' = [loop EXCEPT ![d] = Chunk(d, loop[d].off, loop[d].size, loop[d].upper,
                                      loop[d].attempt + 1)]
  /\ UNCHANGED <<response, cache, rest>>

\* An error is answered while the headers are not committed; after that the
\* response just ends.
Fail(d) ==
  /\ phase' = [phase EXCEPT ![d] = "done"]
  /\ answer' = [answer EXCEPT ![d] = IF committed[d] THEN "broken" ELSE "error"]
  /\ loop' = [loop EXCEPT ![d] = First(d, ChunkSize)]
  /\ UNCHANGED <<out, clean, committed, rest>>

\* A response the browser broke off makes the next one use smaller chunks.
GiveUp(d) ==
  LET t == cur[d]
  IN  /\ Finished(d) /\ ~Delivered(d) /\ ~Shrinks(d) /\ ~Retries(d) /\ Return(d)
      /\ cache' = IF copied[t] > 0 /\ copyErr[t] = "reset" /\ loop[d].size > 1
                  THEN Min2(cache, NextReduced(loop[d].size, loop[d].size)) ELSE cache
      /\ Fail(d)

\* No slot became free before the browser left.
Abandon(d) ==
  /\ phase[d] = "slot" /\ gone[d]
  /\ Fail(d) /\ UNCHANGED <<cur, cache, slots, job, open, stream, pipe, copied, copyErr, call>>

-----------------------------------------------------------------------------
Handler(d) ==
  \/ \E t \in Transfers : NewTransfer(d, t)
  \/ NextChunk(d) \/ Resize(d) \/ Retry(d) \/ GiveUp(d) \/ Abandon(d)

Copier(t) == WriteFails(t) \/ \E e \in {"none", "pipe", "reset", "other"} : CopyEnds(t, e)

Goroutines(t) == Cleanup(t) \/ Copier(t) \/ AgentCloses(t) \/ \E r \in Results : CallReturns(t, r)

\* What the server waits for: an agent that connects, sends and ends its body,
\* a browser that reads.
Outside(t) ==
  Connect(t) \/ Reject(t) \/ Hand(t) \/ AgentFinishes(t) \/ AgentFails(t) \/ WriteUnit(t)

Next ==
  \/ \E d \in Downloads : Start(d) \/ Leave(d) \/ Handler(d)
  \/ \E t \in Transfers : Goroutines(t) \/ Outside(t)

Spec == Init /\ [][Next]_vars

\* Goroutines run, Call has a timer, the cleanup a ticker.  The http.Server has
\* no time-outs, so nothing is assumed of the agent's body or of a browser.
\* Requests take finitely many steps, so it is enough that some step that can
\* be taken is.
Server == (\E d \in Downloads : Handler(d)) \/ (\E t \in Transfers : Goroutines(t))

FairSpec == Spec /\ WF_vars(Server)

-----------------------------------------------------------------------------
TypeOK ==
  /\ phase \in [Downloads -> {"new", "slot", "run", "done"}]
  /\ loop \in [Downloads -> [size : 1..ChunkSize, len : Nat \ {0}, off : Nat,
                             upper : 1..ChunkSize, attempt : 1..Attempts]]
  /\ cur \in [Downloads -> Transfers \cup {NoTransfer}]
  /\ gone \in [Downloads -> BOOLEAN] /\ clean \in [Downloads -> BOOLEAN]
  /\ committed \in [Downloads -> BOOLEAN]
  /\ out \in [Downloads -> Nat]
  /\ answer \in [Downloads -> {"none", "whole", "broken", "error"}]
  /\ cache \in 1..ChunkSize /\ slots \in 0..StreamSlots
  /\ job \in [Transfers -> [owner : Downloads \cup {Nobody}, first : Nat, len : Nat]]
  /\ open \subseteq Transfers
  /\ agent \in [Transfers -> {"away", "sending", "sent", "failed", "gone"}]
  /\ pipe \in [Transfers -> {"open", "eof", "torn", "shut"}]
  /\ left \in [Transfers -> Nat] /\ copied \in [Transfers -> Nat]
  /\ copier \in [Transfers -> {"reading", "holding", "done"}]
  /\ copyErr \in [Transfers -> {"none", "pipe", "reset", "other"}]
  /\ call \in [Transfers -> Results \cup {"running"}]

\* The response is always a beginning of the requested range under its own
\* headers, whatever attempts, sizes and agents wrote it; a request that ends
\* well has delivered the whole range, and an error is only ever answered to
\* an untouched response (streamDownloadRelay, streamDownloadChunk).
ResponseIsPrefix ==
  \A d \in Downloads :
    /\ clean[d]
    /\ answer[d] = "whole" => out[d] = Size[d]
    /\ answer[d] = "error" => out[d] = 0

\* Every slot that is taken belongs to one transfer that is not closed, and a
\* transfer is open only while its request waits for it: no path, expiry or
\* late request of the agent leaks a slot or gives one back twice (close,
\* newStreamTransfer).
SlotsHeldByRequests ==
  /\ slots = Cardinality(open) /\ slots <= StreamSlots
  /\ \A t \in open : \E d \in Downloads : phase[d] = "run" /\ cur[d] = t

\* Bytes that reached the browser are authoritative: a chunk that was written
\* whole is not given up because the agent then reports an error
\* (streamDownloadChunk).  A slow last write refutes this: the error closes the
\* pipe before the copier has seen its end.
BytesAreAuthoritative ==
  [][\A d \in Downloads : GiveUp(d) => copied[cur[d]] < loop[d].len]_vars

\* A browser that does not read holds its own request.
BrowserStalls(d) == phase[d] = "run" /\ copier[cur[d]] = "holding" /\ ~gone[d]

\* An agent that has answered its call, so that no timer runs any more, and
\* does not end its body holds a request and a slot.
AgentStalls(t) == t \in open /\ agent[t] = "sending" /\ call[t] = "ok"

Busy == {d \in Downloads : phase[d] \in {"slot", "run"}}

\* The goroutines never wait for each other forever (streamDownloadChunk,
\* startStreamTransferCleanup).  Unless an agent stalls for ever after its
\* answer, every slot is given back, whatever the browsers do, and every
\* request ends whose own browser does not stall for ever; that also holds
\* when no agent connects, or its body never ends and it does not answer.
RequestsEnd ==
  \/ <>[](\E t \in Transfers : AgentStalls(t))
  \/ /\ <>[](slots = 0)
     /\ \A d \in Downloads : <>[](d \notin Busy) \/ <>[]BrowserStalls(d)
=============================================================================
