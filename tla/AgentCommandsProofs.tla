------------------------ MODULE AgentCommandsProofs ------------------------
(***************************************************************************)
(* Proofs about AgentCommands, for any commands, limits and losses: what is *)
(* dispatched is accounted for, no poll misses an event it waits for, and a *)
(* file operation is answered at most once.                                 *)
(*                                                                         *)
(* Argument.  An event leaves the queue with a reason at hand: the queue    *)
(* and the stamps show that what pushed it out is newer (Dropped).  A poll  *)
(* captures the signal when the queue is empty, and only an enqueue fills   *)
(* it, with a new signal.  A call that is pending has not been answered;    *)
(* the answer takes it from the pending calls first, so no second answer    *)
(* finds it, and the channel is empty when the first is sent.               *)
(***************************************************************************)
EXTENDS AgentCommands, FiniteSetTheorems, TLAPS

\* Queued commands have a stamp, and only what was dispatched has one; the
\* push acknowledges what it wrote.
Stamped ==
  /\ \A c \in queue : stamp[c] > 0
  /\ \A c \in Commands : stamp[c] > 0 => pc[c] \in {"sent", "leave", "done"}
  /\ push.done \subseteq written

\* A pending call has not been answered, and an answer is in one place.
Answers ==
  \A f \in Files :
    /\ accepted[f] <= 1
    /\ f \in pending => accepted[f] = 0 /\ pc[f] \notin {"new", "done"}
    /\ accepted[f] = 0 => sending[f] = 0 /\ f \notin box
    /\ sending[f] > 0 => sending[f] = 1 /\ f \notin box
    /\ pc[f] = "new" => accepted[f] = 0

Inv == TypeOK /\ Stamped /\ Answers /\ SleepersMissNothing /\ DispatchedIsAccounted

-----------------------------------------------------------------------------
LEMMA InitInv == Init => Inv
<1> USE CommandsAssumption DEF CommandsAssumption
<1> SUFFICES ASSUME Init PROVE Inv
  OBVIOUS
<1>1. push \in [phase : {"idle", "take", "write", "read", "close"},
                todo : SUBSET Commands, done : SUBSET Commands]
  BY DEF Init, NoPush
<1>2. poll \in [Polls -> [phase : {"idle", "waiting", "answered"}, signal : 0..signal,
                          events : SUBSET Commands]]
  BY DEF Init, NoPoll
<1>3. stamp \in [Commands -> 0..signal] /\ via \in [Commands -> 0..MaxSessions]
  BY DEF Init
<1>4. sending \in [Files -> Nat] /\ accepted \in [Files -> Nat]
  BY DEF Init
<1>5. socket \in 0..MaxSessions /\ sessions \in 0..MaxSessions /\ losses \in 0..MaxLosses
  BY DEF Init
<1>6. alive \in BOOLEAN /\ marked \in BOOLEAN /\ queue = {} /\ expired = {} /\ pending = {}
      /\ box = {} /\ reached = {} /\ written = {}
  BY DEF Init
<1>7. pc \in [Commands -> {"new", "write", "check", "sent", "leave", "done"}] /\ signal = 1
  BY DEF Init
<1>8. TypeOK
  BY <1>1, <1>2, <1>3, <1>4, <1>5, <1>6, <1>7 DEF TypeOK
<1> QED
  BY <1>8 DEF Init, Inv, Stamped, Answers, SleepersMissNothing, DispatchedIsAccounted, Commands,
     NoPush, NoPoll

LEMMA TypeOKStep ==
  ASSUME Inv, [Next]_vars PROVE TypeOK'
<1> USE CommandsAssumption DEF CommandsAssumption, Commands, Inv, conns, events, replies, agent
<1>1. ASSUME NEW c \in Commands, Expire(c) PROVE TypeOK'
  BY <1>1 DEF Expire, TypeOK
<1>2. ASSUME NEW c \in Commands, Begin(c) PROVE TypeOK'
  BY <1>2 DEF Begin, TypeOK
<1>3. ASSUME NEW c \in Commands, WriteWorks(c) PROVE TypeOK'
  BY <1>3 DEF WriteWorks, Wrote, Works, TypeOK
<1>4. ASSUME NEW c \in Commands, WriteIsLost(c) PROVE TypeOK'
  BY <1>4 DEF WriteIsLost, Wrote, TypeOK
<1>5. ASSUME NEW c \in Commands, WriteFails(c) PROVE TypeOK'
  BY <1>5 DEF WriteFails, Works, TypeOK
<1>6. ASSUME NEW c \in Commands, Refused(c) PROVE TypeOK'
  BY <1>6 DEF Refused, TypeOK
<1>7. ASSUME NEW c \in Commands, EnqueueV2Event(c) PROVE TypeOK'
  BY <1>7 DEF EnqueueV2Event, Appended, Coalesced, Pruned, Newest, TypeOK
<1>8. ASSUME NEW c \in Commands, RemovePending(c) PROVE TypeOK'
  BY <1>8 DEF RemovePending, TypeOK
<1>9. ASSUME NEW f \in Files, Receive(f) PROVE TypeOK'
  BY <1>9 DEF Receive, TypeOK
<1>10. ASSUME NEW f \in Files, GiveUp(f) PROVE TypeOK'
  BY <1>10 DEF GiveUp, TypeOK
<1>11. ASSUME NEW f \in Files, Resolve(f) PROVE TypeOK'
  BY <1>11 DEF Resolve, TypeOK
<1>12. ASSUME NEW f \in Files, Send(f) PROVE TypeOK'
  BY <1>12 DEF Send, TypeOK
<1>13. CASE Accept
  BY <1>13 DEF Accept, NoPush, TypeOK
<1>14. CASE Break
  BY <1>14 DEF Break, TypeOK
<1>15. CASE PushTake
  BY <1>15 DEF PushTake, Pruned, TypeOK
<1>16. ASSUME NEW c \in push.todo, NEW a \in BOOLEAN, PushWrite(c, a) PROVE TypeOK'
  <2>1. push' \in [phase : {"idle", "take", "write", "read", "close"},
                   todo : SUBSET Commands, done : SUBSET Commands]
    <3>1. push' = [push EXCEPT !.todo = @ \ {c}, !.done = @ \cup {c}]
      BY <1>16 DEF PushWrite
    <3>2. push.todo \ {c} \subseteq Commands /\ push.done \cup {c} \subseteq Commands
      BY DEF TypeOK
    <3> QED
      BY <3>1, <3>2 DEF TypeOK
  <2>2. written' \subseteq Commands /\ reached' \subseteq Commands
    BY <1>16 DEF PushWrite, TypeOK
  <2>3. losses' \in 0..MaxLosses
    BY <1>16 DEF PushWrite, TypeOK
  <2> QED
    BY <1>16, <2>1, <2>2, <2>3 DEF PushWrite, TypeOK
<1>17. CASE PushAck
  BY <1>17 DEF PushAck, NoPush, TypeOK
<1>18. CASE Leave
  <2>1. push' \in [phase : {"idle", "take", "write", "read", "close"},
                   todo : SUBSET Commands, done : SUBSET Commands]
    BY <1>18 DEF Leave, NoPush
  <2>2. socket' \in 0..MaxSessions
    BY <1>18 DEF Leave
  <2>3. marked' \in BOOLEAN
    BY <1>18, Zenon DEF Leave
  <2>4. UNCHANGED <<sessions, alive, pc, via, events, poll, replies, agent>>
    BY <1>18 DEF Leave
  <2> QED
    BY <2>1, <2>2, <2>3, <2>4 DEF TypeOK
<1>19. ASSUME NEW w \in Polls, Pull(w) PROVE TypeOK'
  <2> DEFINE PollType == [phase : {"idle", "waiting", "answered"}, signal : 0..signal,
                          events : SUBSET Commands]
  <2>1. ASSUME NEW q \in SUBSET Commands PROVE Answered(w, q) \in [Polls -> PollType]
    <3>1. [phase |-> "answered", signal |-> 0, events |-> q] \in PollType
      BY DEF TypeOK
    <3> QED
      BY <3>1, Zenon DEF Answered, TypeOK
  <2>2. Sleeping(w) \in [Polls -> PollType]
    <3>1. [phase |-> "waiting", signal |-> signal, events |-> {}] \in PollType
      BY DEF TypeOK
    <3> QED
      BY <3>1, Zenon DEF Sleeping, TypeOK
  <2>3. queue' \subseteq Commands /\ UNCHANGED signal
    BY <1>19 DEF Pull, Acked, Pruned, TypeOK
  <2>4. poll' \in [Polls -> PollType]
    BY <1>19, <2>1, <2>2, <2>3, Zenon DEF Pull, Oldest
  <2> QED
    BY <1>19, <2>3, <2>4 DEF Pull, TypeOK
<1>20. ASSUME NEW w \in Polls, Take(w) PROVE TypeOK'
  <2> DEFINE PollType == [phase : {"idle", "waiting", "answered"}, signal : 0..signal,
                          events : SUBSET Commands]
  <2>1. ASSUME NEW q \in SUBSET Commands PROVE Answered(w, q) \in [Polls -> PollType]
    <3>1. [phase |-> "answered", signal |-> 0, events |-> q] \in PollType
      BY DEF TypeOK
    <3> QED
      BY <3>1, Zenon DEF Answered, TypeOK
  <2>2. Sleeping(w) \in [Polls -> PollType]
    <3>1. [phase |-> "waiting", signal |-> signal, events |-> {}] \in PollType
      BY DEF TypeOK
    <3> QED
      BY <3>1, Zenon DEF Sleeping, TypeOK
  <2>3. queue' \subseteq Commands /\ UNCHANGED signal
    BY <1>20 DEF Take, Acked, Pruned, TypeOK
  <2>4. poll' \in [Polls -> PollType]
    BY <1>20, <2>1, <2>2, <2>3, Zenon DEF Take, Oldest
  <2> QED
    BY <1>20, <2>3, <2>4 DEF Take, TypeOK
<1>21. ASSUME NEW w \in Polls, Report(w) PROVE TypeOK'
  <2> DEFINE PollType == [phase : {"idle", "waiting", "answered"}, signal : 0..signal,
                          events : SUBSET Commands]
  <2>1. ASSUME NEW q \in SUBSET Commands PROVE Answered(w, q) \in [Polls -> PollType]
    <3>1. [phase |-> "answered", signal |-> 0, events |-> q] \in PollType
      BY DEF TypeOK
    <3> QED
      BY <3>1, Zenon DEF Answered, TypeOK
  <2>2. Sleeping(w) \in [Polls -> PollType]
    <3>1. [phase |-> "waiting", signal |-> signal, events |-> {}] \in PollType
      BY DEF TypeOK
    <3> QED
      BY <3>1, Zenon DEF Sleeping, TypeOK
  <2>3. queue' \subseteq Commands /\ UNCHANGED signal
    BY <1>21 DEF Report, Acked, Pruned, TypeOK
  <2>4. poll' \in [Polls -> PollType]
    BY <1>21, <2>1, <2>2, <2>3, Zenon DEF Report, Oldest
  <2> QED
    BY <1>21, <2>3, <2>4 DEF Report, TypeOK
<1>22. ASSUME NEW w \in Polls, Arrive(w) PROVE TypeOK'
  <2>1. poll' \in [Polls -> [phase : {"idle", "waiting", "answered"}, signal : 0..signal,
                             events : SUBSET Commands]]
    BY <1>22 DEF TypeOK, Arrive, NoPoll
  <2> QED
    BY <2>1, <1>22 DEF TypeOK, Arrive, NoPoll
<1>23. ASSUME NEW w \in Polls, Lose(w) PROVE TypeOK'
  <2>1. poll' \in [Polls -> [phase : {"idle", "waiting", "answered"}, signal : 0..signal,
                             events : SUBSET Commands]]
    BY <1>23 DEF TypeOK, Lose, NoPoll
  <2> QED
    BY <2>1, <1>23 DEF TypeOK, Lose, NoPoll
<1>24. CASE UNCHANGED vars
  BY <1>24 DEF vars, TypeOK
<1> QED
  BY <1>1, <1>2, <1>3, <1>4, <1>5, <1>6, <1>7, <1>8, <1>9, <1>10, <1>11, <1>12, <1>13, <1>14, <1>15, <1>16, <1>17, <1>18, <1>19, <1>20, <1>21, <1>22, <1>23, <1>24
  DEF Next, Dispatch, Handler, Wake, PollTimeout

LEMMA StampedStep ==
  ASSUME Inv, [Next]_vars PROVE Stamped'
<1> USE CommandsAssumption DEF CommandsAssumption, Commands, Inv, conns, events, replies, agent
<1>1. ASSUME NEW c \in Commands, Expire(c) PROVE Stamped'
  BY <1>1 DEF Expire, Stamped, TypeOK
<1>2. ASSUME NEW c \in Commands, Begin(c) PROVE Stamped'
  BY <1>2 DEF Begin, Stamped, TypeOK
<1>3. ASSUME NEW c \in Commands, WriteWorks(c) PROVE Stamped'
  BY <1>3 DEF WriteWorks, Wrote, Works, Stamped, TypeOK
<1>4. ASSUME NEW c \in Commands, WriteIsLost(c) PROVE Stamped'
  BY <1>4 DEF WriteIsLost, Wrote, Stamped, TypeOK
<1>5. ASSUME NEW c \in Commands, WriteFails(c) PROVE Stamped'
  BY <1>5 DEF WriteFails, Works, Stamped, TypeOK
<1>6. ASSUME NEW c \in Commands, Refused(c) PROVE Stamped'
  BY <1>6 DEF Refused, Stamped, TypeOK
<1>7. ASSUME NEW c \in Commands, EnqueueV2Event(c) PROVE Stamped'
  BY <1>7 DEF EnqueueV2Event, Appended, Coalesced, Pruned, Newest, Stamped, TypeOK
<1>8. ASSUME NEW c \in Commands, RemovePending(c) PROVE Stamped'
  BY <1>8 DEF RemovePending, Stamped, TypeOK
<1>9. ASSUME NEW f \in Files, Receive(f) PROVE Stamped'
  BY <1>9 DEF Receive, Stamped, TypeOK
<1>10. ASSUME NEW f \in Files, GiveUp(f) PROVE Stamped'
  BY <1>10 DEF GiveUp, Stamped, TypeOK
<1>11. ASSUME NEW f \in Files, Resolve(f) PROVE Stamped'
  BY <1>11 DEF Resolve, Stamped, TypeOK
<1>12. ASSUME NEW f \in Files, Send(f) PROVE Stamped'
  BY <1>12 DEF Send, Stamped, TypeOK
<1>13. CASE Accept
  BY <1>13 DEF Accept, NoPush, Stamped, TypeOK
<1>14. CASE Break
  BY <1>14 DEF Break, Stamped, TypeOK
<1>15. CASE PushTake
  BY <1>15 DEF PushTake, Pruned, Stamped, TypeOK
<1>16. ASSUME NEW c \in push.todo, NEW a \in BOOLEAN, PushWrite(c, a) PROVE Stamped'
  BY <1>16 DEF PushWrite, Oldest, Stamped, TypeOK
<1>17. CASE PushAck
  BY <1>17 DEF PushAck, NoPush, Stamped, TypeOK
<1>18. CASE Leave
  BY <1>18 DEF Leave, NoPush, Stamped, TypeOK
<1>19. ASSUME NEW w \in Polls, Pull(w) PROVE Stamped'
  BY <1>19 DEF Pull, Acked, Pruned, Sleeping, Answered, Oldest, NoPoll, Stamped, TypeOK
<1>20. ASSUME NEW w \in Polls, Take(w) PROVE Stamped'
  BY <1>20 DEF Take, Pruned, Answered, Oldest, NoPoll, Stamped, TypeOK
<1>21. ASSUME NEW w \in Polls, Report(w) PROVE Stamped'
  BY <1>21 DEF Report, Acked, Pruned, Answered, Oldest, NoPoll, Stamped, TypeOK
<1>22. ASSUME NEW w \in Polls, Arrive(w) PROVE Stamped'
  BY <1>22 DEF Arrive, NoPoll, Stamped, TypeOK
<1>23. ASSUME NEW w \in Polls, Lose(w) PROVE Stamped'
  BY <1>23 DEF Lose, NoPoll, Stamped, TypeOK
<1>24. CASE UNCHANGED vars
  BY <1>24 DEF vars, Stamped, TypeOK
<1> QED
  BY <1>1, <1>2, <1>3, <1>4, <1>5, <1>6, <1>7, <1>8, <1>9, <1>10, <1>11, <1>12, <1>13, <1>14, <1>15, <1>16, <1>17, <1>18, <1>19, <1>20, <1>21, <1>22, <1>23, <1>24
  DEF Next, Dispatch, Handler, Wake, PollTimeout

LEMMA AnswersStep ==
  ASSUME Inv, [Next]_vars PROVE Answers'
<1> USE CommandsAssumption DEF CommandsAssumption, Commands, Inv, conns, events, replies, agent
<1>1. ASSUME NEW c \in Commands, Expire(c) PROVE Answers'
  BY <1>1 DEF Expire, Answers, TypeOK
<1>2. ASSUME NEW c \in Commands, Begin(c) PROVE Answers'
  BY <1>2 DEF Begin, Answers, TypeOK
<1>3. ASSUME NEW c \in Commands, WriteWorks(c) PROVE Answers'
  BY <1>3 DEF WriteWorks, Wrote, Works, Answers, TypeOK
<1>4. ASSUME NEW c \in Commands, WriteIsLost(c) PROVE Answers'
  BY <1>4 DEF WriteIsLost, Wrote, Answers, TypeOK
<1>5. ASSUME NEW c \in Commands, WriteFails(c) PROVE Answers'
  BY <1>5 DEF WriteFails, Works, Answers, TypeOK
<1>6. ASSUME NEW c \in Commands, Refused(c) PROVE Answers'
  BY <1>6 DEF Refused, Answers, TypeOK
<1>7. ASSUME NEW c \in Commands, EnqueueV2Event(c) PROVE Answers'
  BY <1>7 DEF EnqueueV2Event, Appended, Coalesced, Pruned, Newest, Answers, TypeOK
<1>8. ASSUME NEW c \in Commands, RemovePending(c) PROVE Answers'
  BY <1>8 DEF RemovePending, Answers, TypeOK
<1>9. ASSUME NEW f \in Files, Receive(f) PROVE Answers'
  BY <1>9 DEF Receive, Answers, TypeOK
<1>10. ASSUME NEW f \in Files, GiveUp(f) PROVE Answers'
  BY <1>10 DEF GiveUp, Answers, TypeOK
<1>11. ASSUME NEW f \in Files, Resolve(f) PROVE Answers'
  BY <1>11 DEF Resolve, Answers, TypeOK
<1>12. ASSUME NEW f \in Files, Send(f) PROVE Answers'
  BY <1>12 DEF Send, Answers, TypeOK
<1>13. CASE Accept
  BY <1>13 DEF Accept, NoPush, Answers, TypeOK
<1>14. CASE Break
  BY <1>14 DEF Break, Answers, TypeOK
<1>15. CASE PushTake
  BY <1>15 DEF PushTake, Pruned, Answers, TypeOK
<1>16. ASSUME NEW c \in push.todo, NEW a \in BOOLEAN, PushWrite(c, a) PROVE Answers'
  BY <1>16 DEF PushWrite, Oldest, Answers, TypeOK
<1>17. CASE PushAck
  BY <1>17 DEF PushAck, NoPush, Answers, TypeOK
<1>18. CASE Leave
  BY <1>18 DEF Leave, NoPush, Answers, TypeOK
<1>19. ASSUME NEW w \in Polls, Pull(w) PROVE Answers'
  BY <1>19 DEF Pull, Acked, Pruned, Sleeping, Answered, Oldest, NoPoll, Answers, TypeOK
<1>20. ASSUME NEW w \in Polls, Take(w) PROVE Answers'
  BY <1>20 DEF Take, Pruned, Answered, Oldest, NoPoll, Answers, TypeOK
<1>21. ASSUME NEW w \in Polls, Report(w) PROVE Answers'
  BY <1>21 DEF Report, Acked, Pruned, Answered, Oldest, NoPoll, Answers, TypeOK
<1>22. ASSUME NEW w \in Polls, Arrive(w) PROVE Answers'
  BY <1>22 DEF Arrive, NoPoll, Answers, TypeOK
<1>23. ASSUME NEW w \in Polls, Lose(w) PROVE Answers'
  BY <1>23 DEF Lose, NoPoll, Answers, TypeOK
<1>24. CASE UNCHANGED vars
  BY <1>24 DEF vars, Answers, TypeOK
<1> QED
  BY <1>1, <1>2, <1>3, <1>4, <1>5, <1>6, <1>7, <1>8, <1>9, <1>10, <1>11, <1>12, <1>13, <1>14, <1>15, <1>16, <1>17, <1>18, <1>19, <1>20, <1>21, <1>22, <1>23, <1>24
  DEF Next, Dispatch, Handler, Wake, PollTimeout

LEMMA SleepersMissNothingStep ==
  ASSUME Inv, [Next]_vars PROVE SleepersMissNothing'
<1> USE CommandsAssumption DEF CommandsAssumption, Commands, Inv, conns, events, replies, agent
<1>1. ASSUME NEW c \in Commands, Expire(c) PROVE SleepersMissNothing'
  BY <1>1 DEF Expire, SleepersMissNothing, TypeOK
<1>2. ASSUME NEW c \in Commands, Begin(c) PROVE SleepersMissNothing'
  BY <1>2 DEF Begin, SleepersMissNothing, TypeOK
<1>3. ASSUME NEW c \in Commands, WriteWorks(c) PROVE SleepersMissNothing'
  BY <1>3 DEF WriteWorks, Wrote, Works, SleepersMissNothing, TypeOK
<1>4. ASSUME NEW c \in Commands, WriteIsLost(c) PROVE SleepersMissNothing'
  BY <1>4 DEF WriteIsLost, Wrote, SleepersMissNothing, TypeOK
<1>5. ASSUME NEW c \in Commands, WriteFails(c) PROVE SleepersMissNothing'
  BY <1>5 DEF WriteFails, Works, SleepersMissNothing, TypeOK
<1>6. ASSUME NEW c \in Commands, Refused(c) PROVE SleepersMissNothing'
  BY <1>6 DEF Refused, SleepersMissNothing, TypeOK
<1>7. ASSUME NEW c \in Commands, EnqueueV2Event(c) PROVE SleepersMissNothing'
  BY <1>7 DEF EnqueueV2Event, Appended, Coalesced, Pruned, Newest, SleepersMissNothing, TypeOK
<1>8. ASSUME NEW c \in Commands, RemovePending(c) PROVE SleepersMissNothing'
  BY <1>8 DEF RemovePending, SleepersMissNothing, TypeOK
<1>9. ASSUME NEW f \in Files, Receive(f) PROVE SleepersMissNothing'
  BY <1>9 DEF Receive, SleepersMissNothing, TypeOK
<1>10. ASSUME NEW f \in Files, GiveUp(f) PROVE SleepersMissNothing'
  BY <1>10 DEF GiveUp, SleepersMissNothing, TypeOK
<1>11. ASSUME NEW f \in Files, Resolve(f) PROVE SleepersMissNothing'
  BY <1>11 DEF Resolve, SleepersMissNothing, TypeOK
<1>12. ASSUME NEW f \in Files, Send(f) PROVE SleepersMissNothing'
  BY <1>12 DEF Send, SleepersMissNothing, TypeOK
<1>13. CASE Accept
  BY <1>13 DEF Accept, NoPush, SleepersMissNothing, TypeOK
<1>14. CASE Break
  BY <1>14 DEF Break, SleepersMissNothing, TypeOK
<1>15. CASE PushTake
  BY <1>15 DEF PushTake, Pruned, SleepersMissNothing, TypeOK
<1>16. ASSUME NEW c \in push.todo, NEW a \in BOOLEAN, PushWrite(c, a) PROVE SleepersMissNothing'
  BY <1>16 DEF PushWrite, Oldest, SleepersMissNothing, TypeOK
<1>17. CASE PushAck
  BY <1>17 DEF PushAck, NoPush, SleepersMissNothing, TypeOK
<1>18. CASE Leave
  BY <1>18 DEF Leave, NoPush, SleepersMissNothing, TypeOK
<1>19. ASSUME NEW w \in Polls, Pull(w) PROVE SleepersMissNothing'
  BY <1>19 DEF Pull, Acked, Pruned, Sleeping, Answered, Oldest, NoPoll, SleepersMissNothing, TypeOK
<1>20. ASSUME NEW w \in Polls, Take(w) PROVE SleepersMissNothing'
  BY <1>20 DEF Take, Pruned, Answered, Oldest, NoPoll, SleepersMissNothing, TypeOK
<1>21. ASSUME NEW w \in Polls, Report(w) PROVE SleepersMissNothing'
  BY <1>21 DEF Report, Acked, Pruned, Answered, Oldest, NoPoll, SleepersMissNothing, TypeOK
<1>22. ASSUME NEW w \in Polls, Arrive(w) PROVE SleepersMissNothing'
  BY <1>22 DEF Arrive, NoPoll, SleepersMissNothing, TypeOK
<1>23. ASSUME NEW w \in Polls, Lose(w) PROVE SleepersMissNothing'
  BY <1>23 DEF Lose, NoPoll, SleepersMissNothing, TypeOK
<1>24. CASE UNCHANGED vars
  BY <1>24 DEF vars, SleepersMissNothing, TypeOK
<1> QED
  BY <1>1, <1>2, <1>3, <1>4, <1>5, <1>6, <1>7, <1>8, <1>9, <1>10, <1>11, <1>12, <1>13, <1>14, <1>15, <1>16, <1>17, <1>18, <1>19, <1>20, <1>21, <1>22, <1>23, <1>24
  DEF Next, Dispatch, Handler, Wake, PollTimeout

LEMMA DispatchedIsAccountedStep ==
  ASSUME Inv, [Next]_vars PROVE DispatchedIsAccounted'
<1> USE CommandsAssumption DEF CommandsAssumption, Commands, Inv, conns, events, replies, agent
<1>1. ASSUME NEW c \in Commands, Expire(c) PROVE DispatchedIsAccounted'
  BY <1>1 DEF Expire, DispatchedIsAccounted, TypeOK, Stamped, Later
<1>2. ASSUME NEW c \in Commands, Begin(c) PROVE DispatchedIsAccounted'
  BY <1>2 DEF Begin, DispatchedIsAccounted, TypeOK, Stamped, Later
<1>3. ASSUME NEW c \in Commands, WriteWorks(c) PROVE DispatchedIsAccounted'
  BY <1>3 DEF WriteWorks, Wrote, Works, DispatchedIsAccounted, TypeOK, Stamped, Later
<1>4. ASSUME NEW c \in Commands, WriteIsLost(c) PROVE DispatchedIsAccounted'
  BY <1>4 DEF WriteIsLost, Wrote, DispatchedIsAccounted, TypeOK, Stamped, Later
<1>5. ASSUME NEW c \in Commands, WriteFails(c) PROVE DispatchedIsAccounted'
  BY <1>5 DEF WriteFails, Works, DispatchedIsAccounted, TypeOK, Stamped, Later
<1>6. ASSUME NEW c \in Commands, Refused(c) PROVE DispatchedIsAccounted'
  BY <1>6 DEF Refused, DispatchedIsAccounted, TypeOK, Stamped, Later
<1>7. ASSUME NEW c \in Commands, EnqueueV2Event(c) PROVE DispatchedIsAccounted'
  <2> DEFINE q == Coalesced(Pruned(queue), c)
  <2> SUFFICES ASSUME NEW e \in Commands, pc'[e] = "sent"
               PROVE  \/ e \in queue' \cup written' \cup reached' \cup expired'
                      \/ e \in Pings /\ Later(e)' \cap Pings # {}
                      \/ Cardinality(Later(e)') >= QueueLimit
    BY DEF DispatchedIsAccounted
  <2>1. /\ stamp' = [stamp EXCEPT ![c] = signal'] /\ signal' = signal + 1
        /\ queue' = {c} \cup Newest(q, QueueLimit - 1)
        /\ UNCHANGED <<written, reached, expired>> /\ pc[c] = "check"
        /\ pc' = [pc EXCEPT ![c] = "sent"]
    BY <1>7 DEF EnqueueV2Event, Appended
  <2>2. stamp[c] = 0 /\ c \notin queue
    BY <2>1 DEF Stamped, TypeOK
  <2>3. CASE e = c
    BY <2>1, <2>3
  <2>4. CASE e # c
    <3>1. pc[e] = "sent"
      BY <2>1, <2>4 DEF TypeOK
    <3>2. ASSUME stamp[e] > 0 PROVE Later(e)' = Later(e) \cup {c}
      BY <2>1, <2>2, <2>4, <3>2 DEF Later, TypeOK
    <3>3. IsFiniteSet(Later(e)) /\ IsFiniteSet(Later(e)')
      BY FS_Subset DEF Later
    <3>4. CASE e \in written \cup reached \cup expired
      BY <2>1, <3>4
    <3>5. CASE e \in Pings /\ Later(e) \cap Pings # {}
      <4>1. stamp[e] > 0
        BY <3>5 DEF Later
      <4> QED
        BY <3>2, <3>5, <4>1
    <3>6. CASE Cardinality(Later(e)) >= QueueLimit
      <4>1. stamp[e] > 0
        <5>1. ASSUME stamp[e] = 0 PROVE FALSE
          <6>1. Later(e) = {}
            BY <5>1 DEF Later
          <6> QED
            BY <3>6, <6>1, FS_EmptySet
        <5> QED
          BY <5>1 DEF TypeOK
      <4>2. Cardinality(Later(e)) <= Cardinality(Later(e)')
        BY <3>2, <3>3, <4>1, FS_Subset
      <4> QED
        BY <3>3, <3>6, <4>2, FS_CardinalityType
    <3>7. CASE e \in queue /\ e \notin expired
      <4>1. stamp[e] > 0
        BY <3>7 DEF Stamped
      <4>2. CASE e \notin q
        <5>1. e \in Pings /\ c \in Pings
          BY <3>7, <4>2 DEF Coalesced, Pruned
        <5> QED
          BY <3>2, <4>1, <5>1
      <4>3. CASE e \in q
        <5> DEFINE newer == {d \in q : stamp[d] > stamp[e]}
        <5>1. CASE Cardinality(newer) < QueueLimit - 1
          BY <2>1, <4>3, <5>1 DEF Newest
        <5>2. CASE ~(Cardinality(newer) < QueueLimit - 1)
          <6>1. q \subseteq queue
            BY DEF Coalesced, Pruned
          <6>2. IsFiniteSet(newer) /\ c \notin newer
            BY <2>2, <6>1, FS_Subset DEF TypeOK
          <6>3. Cardinality(newer \cup {c}) = Cardinality(newer) + 1 /\ Cardinality(newer) \in Nat
            BY <6>2, FS_AddElement, FS_CardinalityType
          <6>4. newer \cup {c} \subseteq Later(e)'
            BY <3>2, <4>1, <6>1 DEF Later, TypeOK
          <6>5. Cardinality(newer \cup {c}) <= Cardinality(Later(e)')
            BY <3>3, <6>4, FS_Subset
          <6>6. Cardinality(Later(e)') \in Nat
            BY <3>3, FS_CardinalityType
          <6> QED
            BY <5>2, <6>3, <6>5, <6>6
        <5> QED
          BY <5>1, <5>2
      <4> QED
        BY <4>2, <4>3
    <3> QED
      BY <3>1, <3>4, <3>5, <3>6, <3>7 DEF DispatchedIsAccounted
  <2> QED
    BY <2>3, <2>4
<1>8. ASSUME NEW c \in Commands, RemovePending(c) PROVE DispatchedIsAccounted'
  BY <1>8 DEF RemovePending, DispatchedIsAccounted, TypeOK, Stamped, Later
<1>9. ASSUME NEW f \in Files, Receive(f) PROVE DispatchedIsAccounted'
  BY <1>9 DEF Receive, DispatchedIsAccounted, TypeOK, Stamped, Later
<1>10. ASSUME NEW f \in Files, GiveUp(f) PROVE DispatchedIsAccounted'
  BY <1>10 DEF GiveUp, DispatchedIsAccounted, TypeOK, Stamped, Later
<1>11. ASSUME NEW f \in Files, Resolve(f) PROVE DispatchedIsAccounted'
  BY <1>11 DEF Resolve, DispatchedIsAccounted, TypeOK, Stamped, Later
<1>12. ASSUME NEW f \in Files, Send(f) PROVE DispatchedIsAccounted'
  BY <1>12 DEF Send, DispatchedIsAccounted, TypeOK, Stamped, Later
<1>13. CASE Accept
  BY <1>13 DEF Accept, NoPush, DispatchedIsAccounted, TypeOK, Stamped, Later
<1>14. CASE Break
  BY <1>14 DEF Break, DispatchedIsAccounted, TypeOK, Stamped, Later
<1>15. CASE PushTake
  BY <1>15 DEF PushTake, Pruned, DispatchedIsAccounted, TypeOK, Stamped, Later
<1>16. ASSUME NEW c \in push.todo, NEW a \in BOOLEAN, PushWrite(c, a) PROVE DispatchedIsAccounted'
  BY <1>16 DEF PushWrite, Oldest, DispatchedIsAccounted, TypeOK, Stamped, Later
<1>17. CASE PushAck
  BY <1>17 DEF PushAck, NoPush, DispatchedIsAccounted, TypeOK, Stamped, Later
<1>18. CASE Leave
  BY <1>18 DEF Leave, NoPush, DispatchedIsAccounted, TypeOK, Stamped, Later
<1>19. ASSUME NEW w \in Polls, Pull(w) PROVE DispatchedIsAccounted'
  BY <1>19 DEF Pull, Acked, Pruned, Sleeping, Answered, Oldest, NoPoll, DispatchedIsAccounted, TypeOK, Stamped, Later
<1>20. ASSUME NEW w \in Polls, Take(w) PROVE DispatchedIsAccounted'
  BY <1>20 DEF Take, Pruned, Answered, Oldest, NoPoll, DispatchedIsAccounted, TypeOK, Stamped, Later
<1>21. ASSUME NEW w \in Polls, Report(w) PROVE DispatchedIsAccounted'
  BY <1>21 DEF Report, Acked, Pruned, Answered, Oldest, NoPoll, DispatchedIsAccounted, TypeOK, Stamped, Later
<1>22. ASSUME NEW w \in Polls, Arrive(w) PROVE DispatchedIsAccounted'
  BY <1>22 DEF Arrive, NoPoll, DispatchedIsAccounted, TypeOK, Stamped, Later
<1>23. ASSUME NEW w \in Polls, Lose(w) PROVE DispatchedIsAccounted'
  BY <1>23 DEF Lose, NoPoll, DispatchedIsAccounted, TypeOK, Stamped, Later
<1>24. CASE UNCHANGED vars
  BY <1>24 DEF vars, DispatchedIsAccounted, TypeOK, Stamped, Later
<1> QED
  BY <1>1, <1>2, <1>3, <1>4, <1>5, <1>6, <1>7, <1>8, <1>9, <1>10, <1>11, <1>12, <1>13, <1>14, <1>15, <1>16, <1>17, <1>18, <1>19, <1>20, <1>21, <1>22, <1>23, <1>24
  DEF Next, Dispatch, Handler, Wake, PollTimeout

-----------------------------------------------------------------------------
THEOREM Invariance == Spec => []Inv
<1>1. Inv /\ [Next]_vars => Inv'
  BY TypeOKStep, StampedStep, AnswersStep, SleepersMissNothingStep, DispatchedIsAccountedStep DEF Inv
<1> QED
  BY InitInv, <1>1, PTL DEF Spec

\* The variables keep their types.
THEOREM TypeCorrect == Spec => []TypeOK
<1>1. Inv => TypeOK
  BY DEF Inv
<1> QED
  BY Invariance, <1>1, PTL

\* A command reported as dispatched is queued, written, received or gone for a
\* reason (EnqueueV2Event, AckV2Events).
THEOREM DispatchedAccounted == Spec => []DispatchedIsAccounted
<1>1. Inv => DispatchedIsAccounted
  BY DEF Inv
<1> QED
  BY Invariance, <1>1, PTL

\* No poll sleeps over a queued event with a signal nobody closed (WaitV2Events).
THEOREM SleepersSafe == Spec => []SleepersMissNothing
<1>1. Inv => SleepersMissNothing
  BY DEF Inv
<1> QED
  BY Invariance, <1>1, PTL

\* A file operation takes one answer, and its channel has room for it (Resolve).
THEOREM AnsweredOnceSafe == Spec => []AnsweredOnce
<1>1. Inv => AnsweredOnce
  BY DEF Inv, TypeOK, Answers, AnsweredOnce
<1> QED
  BY Invariance, <1>1, PTL
=============================================================================
