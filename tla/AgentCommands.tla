--------------------------- MODULE AgentCommands ---------------------------
(***************************************************************************)
(* Commands for one agent.  A dispatcher writes the command to the agent's  *)
(* WebSocket, or puts it in a queue from which the agent polls              *)
(* (web/agent/v2_events.go); an accepted WebSocket is given what is queued  *)
(* (web/api/client/report_v2.go).  File operations also wait for an answer  *)
(* (web/filemanager/client.go).  Every function takes its lock for a few    *)
(* lines only, so dispatchers, polls, the push and answers interleave       *)
(* between them.                                                           *)
(*                                                                         *)
(* A command is its own event: each is dispatched once, with an id of its   *)
(* own.  The queue only grows at its end and is otherwise filtered, so it   *)
(* is a set whose order is the order of the enqueues.  Pings belong to one  *)
(* task, so they share a coalescing key.  The queues are keyed by the       *)
(* agent, so one agent is modelled.                                         *)
(***************************************************************************)
EXTENDS Integers, FiniteSets

CONSTANTS
  Files,       \* file operations: their callers wait for an answer
  Pings,       \* pings of one task
  Tasks,       \* other commands, each with a key of its own
  Fleeting,    \* bound: commands whose time may run out
  Polls,       \* requests of the agent that may be open at once
  QueueLimit,  \* v2EventQueueLimit
  ReportLimit, \* events in the answer to a report
  MaxSessions, \* bound: WebSockets the agent opens
  MaxLosses    \* bound: answers and writes that do not arrive

Commands == Files \cup Pings \cup Tasks

ASSUME CommandsAssumption ==
  /\ IsFiniteSet(Commands)
  /\ Files \cap Pings = {} /\ Tasks \cap (Files \cup Pings) = {}
  /\ QueueLimit \in Nat \ {0} /\ ReportLimit \in Nat \ {0}
  /\ MaxSessions \in Nat /\ MaxLosses \in Nat

VARIABLES
  socket,    \* GetConnectedClient: the number of a WebSocket, 0 if none
  sessions,  \* WebSockets opened so far
  alive,     \* the last one still works
  marked,    \* IsV2Client
  push,      \* pushQueuedV2Events: phase, events to write, events written
  pc,        \* where the dispatcher of each command is
  via,       \* the WebSocket it found
  queue,     \* v2EventQueue.events
  signal,    \* number of v2EventQueue.signal; a smaller one is closed
  stamp,     \* when each command was queued: its new signal, 0 before
  expired,   \* queued commands past ExpiresAt
  poll,      \* requests: phase, the signal waited for, the events returned
  pending,   \* pending: file operations that wait
  box,       \* answers in pendingCall.response
  sending,   \* Resolve calls between the lock and the channel
  accepted,  \* history: Resolve calls that succeeded
  reached,   \* commands the agent has received
  written,   \* history: commands whose write to a WebSocket succeeded
  losses     \* bound: losses so far

conns == <<socket, sessions, alive>>
events == <<queue, signal, stamp, expired>>
replies == <<pending, box, sending, accepted>>
agent == <<reached, written, losses>>
vars == <<conns, marked, push, pc, via, events, poll, replies, agent>>

NoPush == [phase |-> "idle", todo |-> {}, done |-> {}]
NoPoll == [phase |-> "idle", signal |-> 0, events |-> {}]

Init ==
  /\ socket = 0 /\ sessions = 0 /\ alive = FALSE /\ marked = FALSE
  /\ push = NoPush
  /\ pc = [c \in Commands |-> "new"] /\ via = [c \in Commands |-> 0]
  /\ queue = {} /\ signal = 1 /\ stamp = [c \in Commands |-> 0] /\ expired = {}
  /\ poll = [w \in Polls |-> NoPoll]
  /\ pending = {} /\ box = {} /\ sending = [f \in Files |-> 0]
  /\ accepted = [f \in Files |-> 0]
  /\ reached = {} /\ written = {} /\ losses = 0

-----------------------------------------------------------------------------
(* The queue; each operator is the part of a function under v2EventMu. *)

Pruned(q) == q \ expired
Coalesced(q, c) == IF c \in Pings THEN q \ Pings ELSE q

\* The n oldest and the n newest events of q.
Oldest(q, n) == {c \in q : Cardinality({d \in q : stamp[d] < stamp[c]}) < n}
Newest(q, n) == {c \in q : Cardinality({d \in q : stamp[d] > stamp[c]}) < n}

\* An event's time runs out, at any time.
Expire(c) ==
  /\ c \in (queue \cap Fleeting) \ expired
  /\ expired' = expired \cup {c}
  /\ UNCHANGED <<conns, marked, push, pc, via, queue, signal, stamp, poll, replies, agent>>

-----------------------------------------------------------------------------
(* DispatchV2Event and DispatchPing.  The connection is read under one lock
   and used after it; the mark is read under another. *)

\* Call refuses an agent that is not marked, and registers before it
\* dispatches; nobody can answer before that.
Begin(c) ==
  /\ pc[c] = "new"
  /\ c \in Files => marked
  /\ pending' = IF c \in Files THEN pending \cup {c} ELSE pending
  /\ via' = [via EXCEPT ![c] = socket]
  /\ pc' = [pc EXCEPT ![c] = IF socket = 0 THEN "check" ELSE "write"]
  /\ UNCHANGED <<conns, marked, push, events, poll, box, sending, accepted, agent>>

\* A write reaches the agent, or fails, or is lost after it succeeded.
Works(n) == n = sessions /\ alive

Wrote(c) ==
  /\ written' = written \cup {c}
  /\ pc' = [pc EXCEPT ![c] = "sent"]
  /\ via' = [via EXCEPT ![c] = 0]
  /\ UNCHANGED <<conns, marked, push, events, poll, replies>>

WriteWorks(c) ==
  /\ pc[c] = "write" /\ Works(via[c])
  /\ Wrote(c)
  /\ reached' = reached \cup {c} /\ UNCHANGED losses

WriteIsLost(c) ==
  /\ pc[c] = "write" /\ losses < MaxLosses
  /\ Wrote(c)
  /\ losses' = losses + 1 /\ UNCHANGED reached

WriteFails(c) ==
  /\ pc[c] = "write" /\ ~Works(via[c])
  /\ pc' = [pc EXCEPT ![c] = "check"] /\ via' = [via EXCEPT ![c] = 0]
  /\ UNCHANGED <<conns, marked, push, events, poll, replies, agent>>

Refused(c) ==
  /\ pc[c] = "check" /\ ~marked
  /\ pc' = [pc EXCEPT ![c] = "leave"]
  /\ UNCHANGED <<conns, marked, push, via, events, poll, replies, agent>>

\* The queue after c was appended: its QueueLimit newest events.
Appended(c) ==
  LET q == Coalesced(Pruned(queue), c)
  IN  {c} \cup Newest(q, QueueLimit - 1)

\* Faulty variant: the waiting poll is not woken.
EnqueueQuietly(c) ==
  /\ pc[c] = "check" /\ marked
  /\ queue' = Appended(c)
  /\ stamp' = [stamp EXCEPT ![c] = signal]
  /\ pc' = [pc EXCEPT ![c] = "sent"]
  /\ UNCHANGED <<conns, marked, push, via, signal, expired, poll, replies, agent>>

\* An agent that is marked, by a poll or a WebSocket, gets an event instead.
EnqueueV2Event(c) ==
  /\ pc[c] = "check" /\ marked
  /\ queue' = Appended(c)
  /\ signal' = signal + 1
  /\ stamp' = [stamp EXCEPT ![c] = signal']
  /\ pc' = [pc EXCEPT ![c] = "sent"]
  /\ UNCHANGED <<conns, marked, push, via, expired, poll, replies, agent>>

-----------------------------------------------------------------------------
(* The caller of a file operation; a ping has no caller that waits. *)

Receive(f) ==
  /\ pc[f] = "sent" /\ f \in box
  /\ box' = box \ {f}
  /\ pc' = [pc EXCEPT ![f] = "leave"]
  /\ UNCHANGED <<conns, marked, push, via, events, poll, pending, sending, accepted, agent>>

\* The timer, or the end of the request.
GiveUp(f) ==
  /\ f \in Files /\ pc[f] = "sent"
  /\ pc' = [pc EXCEPT ![f] = "leave"]
  /\ UNCHANGED <<conns, marked, push, via, events, poll, replies, agent>>

RemovePending(c) ==
  /\ pc[c] = "leave"
  /\ pending' = pending \ {c}
  /\ pc' = [pc EXCEPT ![c] = "done"]
  /\ UNCHANGED <<conns, marked, push, via, events, poll, box, sending, accepted, agent>>

-----------------------------------------------------------------------------
(* Answers.  The agent is external: it may answer what has reached it, any
   number of times, as a command may reach it more than once.  Resolve deletes
   the call under the lock and sends on its channel, of capacity 1, afterwards;
   an answer to a call that is not pending changes nothing. *)

\* Faulty variant: the call stays until its caller removes it.
ResolveAgain(f) ==
  /\ f \in reached /\ f \in pending
  /\ sending' = [sending EXCEPT ![f] = @ + 1]
  /\ accepted' = [accepted EXCEPT ![f] = @ + 1]
  /\ UNCHANGED <<conns, marked, push, pc, via, events, poll, pending, box, agent>>

Resolve(f) ==
  /\ f \in reached /\ f \in pending
  /\ pending' = pending \ {f}
  /\ sending' = [sending EXCEPT ![f] = @ + 1]
  /\ accepted' = [accepted EXCEPT ![f] = @ + 1]
  /\ UNCHANGED <<conns, marked, push, pc, via, events, poll, box, agent>>

Send(f) ==
  /\ sending[f] > 0 /\ f \notin box
  /\ box' = box \cup {f}
  /\ sending' = [sending EXCEPT ![f] = @ - 1]
  /\ UNCHANGED <<conns, marked, push, pc, via, events, poll, pending, accepted, agent>>

-----------------------------------------------------------------------------
(* The WebSocket's handler.  Which of several connections is served is the
   subject of AgentPresence; here the agent opens one after the other. *)

Accept ==
  /\ ~alive /\ push = NoPush /\ sessions < MaxSessions
  /\ sessions' = sessions + 1 /\ socket' = sessions + 1 /\ alive' = TRUE
  /\ marked' = TRUE
  /\ push' = [NoPush EXCEPT !.phase = "take"]
  /\ UNCHANGED <<pc, via, events, poll, replies, agent>>

PushTake ==
  /\ push.phase = "take"
  /\ queue' = Pruned(queue)
  /\ push' = [phase |-> "write", todo |-> Pruned(queue), done |-> {}]
  /\ UNCHANGED <<conns, marked, pc, via, signal, stamp, expired, poll, replies, agent>>

\* The oldest event is written; the write succeeds, but may not arrive.
PushWrite(c, arrives) ==
  /\ push.phase = "write"
  /\ c \in Oldest(push.todo, 1)
  /\ IF arrives THEN alive /\ UNCHANGED losses
                ELSE losses < MaxLosses /\ losses' = losses + 1
  /\ written' = written \cup {c}
  /\ reached' = IF arrives THEN reached \cup {c} ELSE reached
  /\ push' = [push EXCEPT !.todo = @ \ {c}, !.done = @ \cup {c}]
  /\ UNCHANGED <<conns, marked, pc, via, events, poll, replies>>

\* Faulty variant: a failed write acknowledges all that was taken.
PushAckAll ==
  /\ push.phase = "write"
  /\ push.todo # {} => ~alive
  /\ queue' = queue \ (push.done \cup push.todo)
  /\ push' = [NoPush EXCEPT !.phase = IF push.todo = {} THEN "read" ELSE "close"]
  /\ UNCHANGED <<conns, marked, pc, via, signal, stamp, expired, poll, replies, agent>>

\* What was written is acknowledged, after the last event or the first
\* failure, which also ends the handler.
PushAck ==
  /\ push.phase = "write"
  /\ push.todo # {} => ~alive
  /\ queue' = queue \ push.done
  /\ push' = [NoPush EXCEPT !.phase = IF push.todo = {} THEN "read" ELSE "close"]
  /\ UNCHANGED <<conns, marked, pc, via, signal, stamp, expired, poll, replies, agent>>

Break ==
  /\ alive
  /\ alive' = FALSE
  /\ UNCHANGED <<socket, sessions, marked, push, pc, via, events, poll, replies, agent>>

\* DeleteClientConditionally also removes the mark, though the agent may poll.
Leave ==
  /\ push.phase = "close" \/ (push.phase = "read" /\ ~alive)
  /\ socket' = 0 /\ marked' = FALSE /\ push' = NoPush
  /\ UNCHANGED <<sessions, alive, pc, via, events, poll, replies, agent>>

-----------------------------------------------------------------------------
(* Polls and reports.  The agent acknowledges all that has reached it. *)

Acked == queue \ reached

Answered(w, q) == [poll EXCEPT ![w] = [phase |-> "answered", signal |-> 0, events |-> q]]
Sleeping(w) == [poll EXCEPT ![w] = [phase |-> "waiting", signal |-> signal, events |-> {}]]

Pull(w) ==
  /\ poll[w].phase = "idle"
  /\ marked' = TRUE
  /\ queue' = Pruned(Acked)
  /\ poll' = IF queue' = {} THEN Sleeping(w) ELSE Answered(w, Oldest(queue', QueueLimit))
  /\ UNCHANGED <<conns, push, pc, via, signal, stamp, expired, replies, agent>>

\* The signal was closed, or the 25 seconds are over.
Take(w) ==
  /\ poll[w].phase = "waiting"
  /\ queue' = Pruned(queue)
  /\ poll' = Answered(w, Oldest(queue', QueueLimit))
  /\ UNCHANGED <<conns, marked, push, pc, via, signal, stamp, expired, replies, agent>>

Wake(w) == poll[w].signal < signal /\ Take(w)
PollTimeout(w) == poll[w].signal = signal /\ Take(w)

Report(w) ==
  /\ poll[w].phase = "idle"
  /\ queue' = Pruned(Acked)
  /\ poll' = Answered(w, Oldest(queue', ReportLimit))
  /\ UNCHANGED <<conns, marked, push, pc, via, signal, stamp, expired, replies, agent>>

Arrive(w) ==
  /\ poll[w].phase = "answered"
  /\ reached' = reached \cup poll[w].events
  /\ poll' = [poll EXCEPT ![w] = NoPoll]
  /\ UNCHANGED <<conns, marked, push, pc, via, events, replies, written, losses>>

Lose(w) ==
  /\ poll[w].phase = "answered" /\ losses < MaxLosses
  /\ losses' = losses + 1
  /\ poll' = [poll EXCEPT ![w] = NoPoll]
  /\ UNCHANGED <<conns, marked, push, pc, via, events, replies, reached, written>>

-----------------------------------------------------------------------------
Dispatch(c) ==
  \/ Begin(c) \/ WriteWorks(c) \/ WriteIsLost(c) \/ WriteFails(c)
  \/ Refused(c) \/ EnqueueV2Event(c) \/ RemovePending(c)

Handler == PushTake \/ (\E c \in push.todo, a \in BOOLEAN : PushWrite(c, a)) \/ PushAck \/ Leave

Next ==
  \/ \E c \in Commands : Dispatch(c) \/ Expire(c)
  \/ \E f \in Files : Receive(f) \/ GiveUp(f) \/ Resolve(f) \/ Send(f)
  \/ Accept \/ Break \/ Handler
  \/ \E w \in Polls : Pull(w) \/ Wake(w) \/ PollTimeout(w) \/ Report(w) \/ Arrive(w) \/ Lose(w)

Spec == Init /\ [][Next]_vars

-----------------------------------------------------------------------------
TypeOK ==
  /\ socket \in 0..MaxSessions /\ sessions \in 0..MaxSessions
  /\ alive \in BOOLEAN /\ marked \in BOOLEAN
  /\ push \in [phase : {"idle", "take", "write", "read", "close"},
               todo : SUBSET Commands, done : SUBSET Commands]
  /\ pc \in [Commands -> {"new", "write", "check", "sent", "leave", "done"}]
  /\ via \in [Commands -> 0..MaxSessions]
  /\ queue \subseteq Commands /\ expired \subseteq Commands
  /\ signal \in Nat \ {0} /\ stamp \in [Commands -> 0..signal]
  /\ poll \in [Polls -> [phase : {"idle", "waiting", "answered"}, signal : 0..signal,
                         events : SUBSET Commands]]
  /\ pending \subseteq Files /\ box \subseteq Files
  /\ sending \in [Files -> Nat] /\ accepted \in [Files -> Nat]
  /\ reached \subseteq Commands /\ written \subseteq Commands /\ losses \in 0..MaxLosses

\* Commands queued after c.
Later(c) == {d \in Commands : stamp[d] > stamp[c] /\ stamp[c] > 0}

\* A command that was reported as dispatched is still queued, was written to
\* a connection, has reached the agent, or is gone for a reason the code
\* states: its time ran out, a newer ping of its task took its place, or as
\* many newer events as the queue holds came after it (EnqueueV2Event,
\* pushQueuedV2Events, AckV2Events).
DispatchedIsAccounted ==
  \A c \in Commands : pc[c] = "sent" =>
    \/ c \in queue \cup written \cup reached \cup expired
    \/ c \in Pings /\ Later(c) \cap Pings # {}
    \/ Cardinality(Later(c)) >= QueueLimit

\* No lost wake-up: a poll sleeps only while the queue is empty or its signal
\* is closed (WaitV2Events captures the signal under the lock).
SleepersMissNothing ==
  \A w \in Polls : poll[w].phase = "waiting" /\ poll[w].signal = signal => queue = {}

\* A file operation is answered at most once, however often the agent answers,
\* so the channel has room for it and Resolve never blocks, even when the
\* caller has left; a caller that has returned leaves nothing pending (Call,
\* Resolve, removePending).
AnsweredOnce ==
  \A f \in Files :
    /\ accepted[f] <= 1
    /\ sending[f] > 0 => f \notin box \cup pending
    /\ pc[f] = "done" => f \notin pending
=============================================================================
