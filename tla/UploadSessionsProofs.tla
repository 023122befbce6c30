----------------------- MODULE UploadSessionsProofs -----------------------
(***************************************************************************)
(* Proofs about UploadSessions, for any number of uploads, requests, slots  *)
(* and restarts: slots and sessions match, and what is reported as complete *)
(* the agent has put together.                                              *)
(*                                                                         *)
(* Argument.  A struct is in the map under one id at most (OneId), since it *)
(* enters the map only when nothing refers to it.  So whoever removes the   *)
(* entry of its own struct removes the last one, and the struct with it     *)
(* gives back the one slot it holds; a request with an older struct removes *)
(* nothing.  A request finishes an upload only after the agent has said     *)
(* that its target is there, and the target stays (Positions).              *)
(***************************************************************************)
EXTENDS UploadSessions, FiniteSetTheorems, TLAPS

\* A struct is in the map under one id.
OneId ==
  \A i, j \in Ids : uploads[i] = uploads[j] /\ uploads[i] # None => i = j

\* A request that is under way has an id, one that has acquired its session a
\* struct, and one that finishes a target.
Positions ==
  \A r \in Requests :
    /\ request[r].pc # "idle" => request[r].id \in Ids
    /\ request[r].pc \notin {"idle", "lookup", "load", "restore"} => request[r].obj \in Objects
    /\ request[r].pc = "finish" => request[r].id \in target \cup Overwritten

Inv == TypeOK /\ OneId /\ SlotsMatchSessions /\ Positions /\ CompleteIsCommitted

-----------------------------------------------------------------------------
\* The structs are many but finite, so slots can be counted.
LEMMA HeldFinite ==
  ASSUME TypeOK PROVE IsFiniteSet(held) /\ Cardinality(held) \in Nat
BY SessionsAssumption, FS_Subset, FS_CardinalityType DEF SessionsAssumption, TypeOK

\* Removing a struct's own entry keeps the map, the slots and their number
\* together; removing another's does nothing (Remove).
LEMMA RemoveKeeps ==
  ASSUME TypeOK, OneId, SlotsMatchSessions, NEW i \in Ids, NEW o \in Objects, Remove(i, o)
  PROVE  /\ uploads' \in [Ids -> Objects \cup {None}] /\ slots' \in 0..Slots
         /\ held' \subseteq Objects /\ OneId' /\ SlotsMatchSessions'
<1> USE SessionsAssumption DEF SessionsAssumption
<1>1. CASE uploads[i] # o
  BY <1>1 DEF Remove, TypeOK, OneId, SlotsMatchSessions
<1>2. CASE uploads[i] = o
  <2>1. o \in held /\ o # None
    BY <1>2 DEF SlotsMatchSessions
  <2>2. /\ uploads' = [uploads EXCEPT ![i] = None] /\ slots' = slots - 1
        /\ held' = held \ {o}
    BY <1>2, <2>1 DEF Remove, Removed
  <2>3. uploads' \in [Ids -> Objects \cup {None}] /\ held' \subseteq Objects
    BY <2>2 DEF TypeOK
  <2>4. Cardinality(held \ {o}) = Cardinality(held) - 1
    BY <2>1, HeldFinite, FS_RemoveElement
  <2>5. Cardinality(held \ {o}) \in Nat
    BY HeldFinite, FS_RemoveElement, FS_CardinalityType
  <2>6. slots' \in 0..Slots /\ slots' = Cardinality(held') /\ slots' <= Slots
    BY <2>2, <2>4, <2>5 DEF SlotsMatchSessions, TypeOK
  <2>7. OneId'
    BY <2>2 DEF OneId, TypeOK
  <2>8. \A p \in held' : \E j \in Ids : uploads'[j] = p
    BY <1>2, <2>2 DEF SlotsMatchSessions, TypeOK
  <2>9. \A j \in Ids : uploads'[j] # None => uploads'[j] \in held'
    BY <1>2, <2>1, <2>2 DEF SlotsMatchSessions, OneId, TypeOK
  <2> QED
    BY <2>3, <2>6, <2>7, <2>8, <2>9 DEF SlotsMatchSessions
<1> QED
  BY <1>1, <1>2

\* A struct nobody refers to takes a slot and the entry of an id (InitUpload,
\* Restore).
LEMMA EnterKeeps ==
  ASSUME TypeOK, OneId, SlotsMatchSessions, NEW i \in Ids, NEW o \in Objects,
         uploads[i] = None, \A j \in Ids : uploads[j] # o, slots < Slots,
         uploads' = [uploads EXCEPT ![i] = o], slots' = slots + 1, held' = held \cup {o}
  PROVE  /\ uploads' \in [Ids -> Objects \cup {None}] /\ slots' \in 0..Slots
         /\ held' \subseteq Objects /\ OneId' /\ SlotsMatchSessions'
<1> USE SessionsAssumption DEF SessionsAssumption
<1>1. uploads' \in [Ids -> Objects \cup {None}] /\ held' \subseteq Objects
  BY DEF TypeOK
<1>2. slots' \in 0..Slots /\ slots' <= Slots
  BY DEF TypeOK
<1>3. o \notin held
  BY DEF SlotsMatchSessions
<1>4. Cardinality(held \cup {o}) = Cardinality(held) + 1
  BY <1>3, HeldFinite, FS_AddElement
<1>5. OneId'
  BY DEF OneId, TypeOK
<1>6. \A p \in held' : \E j \in Ids : uploads'[j] = p
  BY DEF SlotsMatchSessions, TypeOK
<1>7. \A j \in Ids : uploads'[j] # None => uploads'[j] \in held'
  BY DEF SlotsMatchSessions, TypeOK
<1> QED
  BY <1>1, <1>2, <1>4, <1>5, <1>6, <1>7 DEF SlotsMatchSessions

-----------------------------------------------------------------------------
LEMMA InitInv == Init => Inv
<1> USE SessionsAssumption DEF SessionsAssumption
<1> SUFFICES ASSUME Init PROVE Inv
  OBVIOUS
<1>1. uploads \in [Ids -> Objects \cup {None}] /\ slots \in 0..Slots
  BY DEF Init
<1>2. request \in [Requests -> [pc : {"idle", "lookup", "check", "expire", "load", "restore",
                                      "chunk", "relay", "answered", "merge",
                                      "commit", "stat", "refuse", "finish", "cancel",
                                      "cancelled"},
                                id : Ids \cup {None}, obj : Objects \cup {None}]]
  BY DEF Init, Quiet
<1>3. lock \in [Objects -> BOOLEAN] /\ part \in [Ids -> SUBSET Chunks]
  BY DEF Init
<1>4. restarts \in 0..MaxRestarts
  BY DEF Init
<1>5. TypeOK
  BY <1>1, <1>2, <1>3, <1>4 DEF Init, TypeOK
<1>6. SlotsMatchSessions
  BY FS_EmptySet DEF Init, SlotsMatchSessions
<1> QED
  BY <1>5, <1>6 DEF Init, Inv, OneId, Positions, CompleteIsCommitted, Quiet

-----------------------------------------------------------------------------
SlotsKept ==
  /\ uploads' \in [Ids -> Objects \cup {None}] /\ slots' \in 0..Slots
  /\ held' \subseteq Objects /\ OneId' /\ SlotsMatchSessions'

RequestsKept ==
  /\ request' \in [Requests -> [pc : {"idle", "lookup", "check", "expire", "load", "restore", "chunk",
                                 "relay", "answered", "merge", "commit", "stat", "refuse",
                                 "finish", "cancel", "cancelled"},
                           id : Ids \cup {None}, obj : Objects \cup {None}]]
  /\ Positions'

RestKept ==
  /\ files' \subseteq Ids /\ lock' \in [Objects -> BOOLEAN]
  /\ doomed' \in (Ids \X Objects) \cup {None}
  /\ leftover' \subseteq Ids /\ part' \in [Ids -> SUBSET Chunks]
  /\ target' \subseteq Ids /\ complete' \subseteq Ids
  /\ restarts' \in 0..MaxRestarts /\ CompleteIsCommitted'

\* The map and its slots.
LEMMA SlotsStep ==
  ASSUME Inv, [Next]_vars PROVE SlotsKept
<1> USE SessionsAssumption DEF SessionsAssumption, Inv
<1>1. ASSUME NEW i \in Ids, NEW o \in Objects, InitUpload(i, o)
      PROVE  SlotsKept
  BY <1>1, EnterKeeps DEF InitUpload, Unreferenced, SlotsKept
<1>2. ASSUME NEW r \in Requests, NEW i \in Ids, Ask(r, i)
      PROVE  SlotsKept
  BY <1>2 DEF Ask, server, TypeOK, OneId, SlotsMatchSessions, SlotsKept
<1>3. ASSUME NEW r \in Requests, Lookup(r)
      PROVE  SlotsKept
  BY <1>3 DEF Lookup, server, TypeOK, OneId, SlotsMatchSessions, SlotsKept
<1>4. ASSUME NEW r \in Requests, Check(r)
      PROVE  SlotsKept
  BY <1>4 DEF Check, server, TypeOK, OneId, SlotsMatchSessions, SlotsKept
<1>5. ASSUME NEW r \in Requests, ExpireFirst(r)
      PROVE  SlotsKept
  <2>1. request[r].id \in Ids /\ request[r].obj \in Objects
    BY <1>5 DEF ExpireFirst, Positions
  <2>2. Remove(request[r].id, request[r].obj)
    BY <1>5 DEF ExpireFirst
  <2> QED
    BY <2>1, <2>2, RemoveKeeps DEF SlotsKept
<1>6. ASSUME NEW r \in Requests, Load(r)
      PROVE  SlotsKept
  BY <1>6 DEF Load, server, TypeOK, OneId, SlotsMatchSessions, SlotsKept
<1>7. ASSUME NEW r \in Requests, NEW o \in Objects, Restore(r, o)
      PROVE  SlotsKept
  <2>1. request[r].id \in Ids
    BY <1>7 DEF Restore, Positions
  <2> QED
    BY <1>7, <2>1, EnterKeeps DEF Restore, Unreferenced, SlotsKept
<1>8. ASSUME NEW r \in Requests, FoundRestored(r)
      PROVE  SlotsKept
  BY <1>8 DEF FoundRestored, server, TypeOK, OneId, SlotsMatchSessions, SlotsKept
<1>9. ASSUME NEW r \in Requests, NoSlot(r)
      PROVE  SlotsKept
  BY <1>9 DEF NoSlot, server, TypeOK, OneId, SlotsMatchSessions, SlotsKept
<1>10. ASSUME NEW r \in Requests, Extend(r)
      PROVE  SlotsKept
  BY <1>10 DEF Extend, server, TypeOK, OneId, SlotsMatchSessions, SlotsKept
<1>11. ASSUME NEW r \in Requests, NEW k \in Chunks, NEW a \in BOOLEAN, NEW h \in {"ok", "error", "body"},
              Deliver(r, k, a, h)
      PROVE  SlotsKept
  BY <1>11 DEF Deliver, server, TypeOK, OneId, SlotsMatchSessions, SlotsKept
<1>12. ASSUME NEW r \in Requests, Answered(r)
      PROVE  SlotsKept
  BY <1>12 DEF Answered, server, TypeOK, OneId, SlotsMatchSessions, SlotsKept
<1>13. ASSUME NEW r \in Requests, Merge(r)
      PROVE  SlotsKept
  BY <1>13 DEF Merge, server, TypeOK, OneId, SlotsMatchSessions, SlotsKept
<1>14. ASSUME NEW r \in Requests, NEW a \in BOOLEAN, NEW h \in BOOLEAN, Commit(r, a, h)
      PROVE  SlotsKept
  BY <1>14 DEF Commit, server, TypeOK, OneId, SlotsMatchSessions, SlotsKept
<1>15. ASSUME NEW r \in Requests, NEW h \in BOOLEAN, Stat(r, h)
      PROVE  SlotsKept
  BY <1>15 DEF Stat, server, TypeOK, OneId, SlotsMatchSessions, SlotsKept
<1>16. ASSUME NEW r \in Requests, Refuse(r)
      PROVE  SlotsKept
  BY <1>16 DEF Refuse, server, TypeOK, OneId, SlotsMatchSessions, SlotsKept
<1>17. ASSUME NEW r \in Requests, Finish(r)
      PROVE  SlotsKept
  <2>1. request[r].id \in Ids /\ request[r].obj \in Objects
    BY <1>17 DEF Finish, Positions
  <2>2. Remove(request[r].id, request[r].obj)
    BY <1>17 DEF Finish
  <2> QED
    BY <2>1, <2>2, RemoveKeeps DEF SlotsKept
<1>18. ASSUME NEW r \in Requests, NEW a \in BOOLEAN, TellAgent(r, a)
      PROVE  SlotsKept
  BY <1>18 DEF TellAgent, server, TypeOK, OneId, SlotsMatchSessions, SlotsKept
<1>19. ASSUME NEW r \in Requests, Cancelled(r)
      PROVE  SlotsKept
  <2>1. request[r].id \in Ids /\ request[r].obj \in Objects
    BY <1>19 DEF Cancelled, Positions
  <2>2. Remove(request[r].id, request[r].obj)
    BY <1>19 DEF Cancelled
  <2> QED
    BY <2>1, <2>2, RemoveKeeps DEF SlotsKept
<1>20. ASSUME NEW i \in Ids, FindExpired(i)
      PROVE  SlotsKept
  BY <1>20 DEF FindExpired, server, TypeOK, OneId, SlotsMatchSessions, SlotsKept
<1>21. ASSUME NEW i \in Ids, NEW o \in Objects, RemoveExpired(i, o)
      PROVE  SlotsKept
  <2>1. i \in Ids /\ o \in Objects
    BY <1>21 DEF RemoveExpired, Positions
  <2>2. Remove(i, o)
    BY <1>21 DEF RemoveExpired
  <2> QED
    BY <2>1, <2>2, RemoveKeeps DEF SlotsKept
<1>22. ASSUME NEW i \in Ids, NEW a \in BOOLEAN, CancelAgent(i, a)
      PROVE  SlotsKept
  BY <1>22 DEF CancelAgent, server, TypeOK, OneId, SlotsMatchSessions, SlotsKept
<1>23. CASE Restart
  <2>1. SlotsMatchSessions'
    BY <1>23, FS_EmptySet DEF Restart, SlotsMatchSessions
  <2> QED
    BY <1>23, <2>1 DEF Restart, OneId, SlotsKept
<1>24. CASE UNCHANGED vars
  BY <1>24 DEF vars, server, TypeOK, OneId, SlotsMatchSessions, SlotsKept
<1> QED
  BY <1>1, <1>2, <1>3, <1>4, <1>5, <1>6, <1>7, <1>8, <1>9, <1>10, <1>11, <1>12, <1>13, <1>14, <1>15, <1>16, <1>17, <1>18, <1>19, <1>20, <1>21, <1>22, <1>23, <1>24
  DEF Next, Browser, Background, Handler, Acquire, Chunk, MergeUpload, CancelUpload

\* The requests.
LEMMA RequestsStep ==
  ASSUME Inv, [Next]_vars PROVE RequestsKept
<1> USE SessionsAssumption DEF SessionsAssumption, Inv
<1>1. ASSUME NEW i \in Ids, NEW o \in Objects, InitUpload(i, o)
      PROVE  RequestsKept
  BY <1>1 DEF InitUpload, Saved, Unreferenced, cleaning, agent, TypeOK, Positions, RequestsKept
<1>2. ASSUME NEW r \in Requests, NEW i \in Ids, Ask(r, i)
      PROVE  RequestsKept
  BY <1>2 DEF Ask, server, cleaning, agent, TypeOK, Positions, RequestsKept
<1>3. ASSUME NEW r \in Requests, Lookup(r)
      PROVE  RequestsKept
  BY <1>3 DEF Lookup, server, cleaning, agent, TypeOK, Positions, RequestsKept
<1>4. ASSUME NEW r \in Requests, Check(r)
      PROVE  RequestsKept
  BY <1>4 DEF Check, Go, Operations, server, cleaning, agent, TypeOK, Positions, RequestsKept
<1>5. ASSUME NEW r \in Requests, ExpireFirst(r)
      PROVE  RequestsKept
  <2>1. request[r].obj \in Objects /\ request[r].id \in Ids /\ target' = target
    BY <1>5 DEF ExpireFirst, Positions, agent
  <2>2. CASE request' = [request EXCEPT ![r].pc = "load", ![r].obj = None]
    BY <2>1, <2>2 DEF TypeOK, Positions, RequestsKept
  <2>3. CASE \E op \in Operations : Go(r, op)
    BY <2>1, <2>3 DEF Go, Operations, TypeOK, Positions, RequestsKept
  <2> QED
    BY <1>5, <2>2, <2>3 DEF ExpireFirst
<1>6. ASSUME NEW r \in Requests, Load(r)
      PROVE  RequestsKept
  BY <1>6 DEF Load, Go, Answer, Deleted, Quiet, server, cleaning, agent, TypeOK, Positions, RequestsKept
<1>7. ASSUME NEW r \in Requests, NEW o \in Objects, Restore(r, o)
      PROVE  RequestsKept
  BY <1>7 DEF Restore, Unreferenced, Operations, cleaning, agent, TypeOK, Positions, RequestsKept
<1>8. ASSUME NEW r \in Requests, FoundRestored(r)
      PROVE  RequestsKept
  BY <1>8 DEF FoundRestored, Operations, server, cleaning, agent, TypeOK, Positions, RequestsKept
<1>9. ASSUME NEW r \in Requests, NoSlot(r)
      PROVE  RequestsKept
  BY <1>9 DEF NoSlot, Answer, Quiet, server, cleaning, agent, TypeOK, Positions, RequestsKept
<1>10. ASSUME NEW r \in Requests, Extend(r)
      PROVE  RequestsKept
  BY <1>10 DEF Extend, Go, Saved, server, cleaning, agent, TypeOK, Positions, RequestsKept
<1>11. ASSUME NEW r \in Requests, NEW k \in Chunks, NEW a \in BOOLEAN, NEW h \in {"ok", "error", "body"},
              Deliver(r, k, a, h)
      PROVE  RequestsKept
  BY <1>11, SMTT(30) DEF Deliver, Go, Answer, Receive, Quiet, server, cleaning, agent, TypeOK, Positions, RequestsKept
<1>12. ASSUME NEW r \in Requests, Answered(r)
      PROVE  RequestsKept
  BY <1>12 DEF Answered, Answer, Saved, Quiet, server, cleaning, agent, TypeOK, Positions, RequestsKept
<1>13. ASSUME NEW r \in Requests, Merge(r)
      PROVE  RequestsKept
  BY <1>13 DEF Merge, Go, cleaning, agent, TypeOK, Positions, RequestsKept
<1>14. ASSUME NEW r \in Requests, NEW a \in BOOLEAN, NEW h \in BOOLEAN, Commit(r, a, h)
      PROVE  RequestsKept
  BY <1>14 DEF Commit, Go, Whole, server, cleaning, agent, TypeOK, Positions, RequestsKept
<1>15. ASSUME NEW r \in Requests, NEW h \in BOOLEAN, Stat(r, h)
      PROVE  RequestsKept
  BY <1>15 DEF Stat, Go, server, cleaning, agent, TypeOK, Positions, RequestsKept
<1>16. ASSUME NEW r \in Requests, Refuse(r)
      PROVE  RequestsKept
  BY <1>16 DEF Refuse, Answer, Saved, Quiet, cleaning, agent, TypeOK, Positions, RequestsKept
<1>17. ASSUME NEW r \in Requests, Finish(r)
      PROVE  RequestsKept
  BY <1>17 DEF Finish, Answer, Deleted, Quiet, cleaning, agent, TypeOK, Positions, RequestsKept
<1>18. ASSUME NEW r \in Requests, NEW a \in BOOLEAN, TellAgent(r, a)
      PROVE  RequestsKept
  BY <1>18 DEF TellAgent, Go, Drop, server, cleaning, agent, TypeOK, Positions, RequestsKept
<1>19. ASSUME NEW r \in Requests, Cancelled(r)
      PROVE  RequestsKept
  BY <1>19 DEF Cancelled, Answer, Deleted, Quiet, cleaning, agent, TypeOK, Positions, RequestsKept
<1>20. ASSUME NEW i \in Ids, FindExpired(i)
      PROVE  RequestsKept
  BY <1>20 DEF FindExpired, server, agent, TypeOK, Positions, RequestsKept
<1>21. ASSUME NEW i \in Ids, NEW o \in Objects, RemoveExpired(i, o)
      PROVE  RequestsKept
  BY <1>21 DEF RemoveExpired, Deleted, agent, TypeOK, Positions, RequestsKept
<1>22. ASSUME NEW i \in Ids, NEW a \in BOOLEAN, CancelAgent(i, a)
      PROVE  RequestsKept
  BY <1>22 DEF CancelAgent, Drop, server, agent, TypeOK, Positions, RequestsKept
<1>23. CASE Restart
  <2>1. request' = [r \in Requests |-> Quiet]
    BY <1>23 DEF Restart
  <2>2. Positions'
    BY <2>1 DEF Quiet, Positions
  <2>3. Quiet \in [pc : {"idle", "lookup", "check", "expire", "load", "restore", "chunk",
                      "relay", "answered", "merge", "commit", "stat", "refuse",
                      "finish", "cancel", "cancelled"},
                id : Ids \cup {None}, obj : Objects \cup {None}]
    BY DEF Quiet
  <2>4. request' \in [Requests -> [pc : {"idle", "lookup", "check", "expire", "load", "restore", "chunk",
                                 "relay", "answered", "merge", "commit", "stat", "refuse",
                                 "finish", "cancel", "cancelled"},
                           id : Ids \cup {None}, obj : Objects \cup {None}]]
    BY <2>1, <2>3, Zenon
  <2> QED
    BY <2>2, <2>4 DEF RequestsKept
<1>24. CASE UNCHANGED vars
  BY <1>24 DEF vars, agent, TypeOK, Positions, RequestsKept
<1> QED
  BY <1>1, <1>2, <1>3, <1>4, <1>5, <1>6, <1>7, <1>8, <1>9, <1>10, <1>11, <1>12, <1>13, <1>14, <1>15, <1>16, <1>17, <1>18, <1>19, <1>20, <1>21, <1>22, <1>23, <1>24
  DEF Next, Browser, Background, Handler, Acquire, Chunk, MergeUpload, CancelUpload

\* The files, the cleanup and the agent.
LEMMA RestStep ==
  ASSUME Inv, [Next]_vars PROVE RestKept
<1> USE SessionsAssumption DEF SessionsAssumption, Inv
<1>1. ASSUME NEW i \in Ids, NEW o \in Objects, InitUpload(i, o)
      PROVE  RestKept
  BY <1>1 DEF InitUpload, Saved, Unreferenced, cleaning, agent, TypeOK, Positions, CompleteIsCommitted, RestKept
<1>2. ASSUME NEW r \in Requests, NEW i \in Ids, Ask(r, i)
      PROVE  RestKept
  BY <1>2 DEF Ask, server, cleaning, agent, TypeOK, Positions, CompleteIsCommitted, RestKept
<1>3. ASSUME NEW r \in Requests, Lookup(r)
      PROVE  RestKept
  BY <1>3 DEF Lookup, server, cleaning, agent, TypeOK, Positions, CompleteIsCommitted, RestKept
<1>4. ASSUME NEW r \in Requests, Check(r)
      PROVE  RestKept
  BY <1>4 DEF Check, Go, Operations, server, cleaning, agent, TypeOK, Positions, CompleteIsCommitted, RestKept
<1>5. ASSUME NEW r \in Requests, ExpireFirst(r)
      PROVE  RestKept
  BY <1>5 DEF ExpireFirst, Go, Deleted, Operations, agent, TypeOK, Positions, CompleteIsCommitted, RestKept
<1>6. ASSUME NEW r \in Requests, Load(r)
      PROVE  RestKept
  BY <1>6 DEF Load, Go, Answer, Deleted, Quiet, server, cleaning, agent, TypeOK, Positions, CompleteIsCommitted, RestKept
<1>7. ASSUME NEW r \in Requests, NEW o \in Objects, Restore(r, o)
      PROVE  RestKept
  BY <1>7 DEF Restore, Unreferenced, Operations, cleaning, agent, TypeOK, Positions, CompleteIsCommitted, RestKept
<1>8. ASSUME NEW r \in Requests, FoundRestored(r)
      PROVE  RestKept
  BY <1>8 DEF FoundRestored, Operations, server, cleaning, agent, TypeOK, Positions, CompleteIsCommitted, RestKept
<1>9. ASSUME NEW r \in Requests, NoSlot(r)
      PROVE  RestKept
  BY <1>9 DEF NoSlot, Answer, Quiet, server, cleaning, agent, TypeOK, Positions, CompleteIsCommitted, RestKept
<1>10. ASSUME NEW r \in Requests, Extend(r)
      PROVE  RestKept
  BY <1>10 DEF Extend, Go, Saved, server, cleaning, agent, TypeOK, Positions, CompleteIsCommitted, RestKept
<1>11. ASSUME NEW r \in Requests, NEW k \in Chunks, NEW a \in BOOLEAN, NEW h \in {"ok", "error", "body"},
              Deliver(r, k, a, h)
      PROVE  RestKept
  BY <1>11 DEF Deliver, Go, Answer, Receive, Quiet, server, cleaning, agent, TypeOK, Positions, CompleteIsCommitted, RestKept
<1>12. ASSUME NEW r \in Requests, Answered(r)
      PROVE  RestKept
  BY <1>12 DEF Answered, Answer, Saved, Quiet, server, cleaning, agent, TypeOK, Positions, CompleteIsCommitted, RestKept
<1>13. ASSUME NEW r \in Requests, Merge(r)
      PROVE  RestKept
  BY <1>13 DEF Merge, Go, cleaning, agent, TypeOK, Positions, CompleteIsCommitted, RestKept
<1>14. ASSUME NEW r \in Requests, NEW a \in BOOLEAN, NEW h \in BOOLEAN, Commit(r, a, h)
      PROVE  RestKept
  BY <1>14 DEF Commit, Go, Whole, server, cleaning, agent, TypeOK, Positions, CompleteIsCommitted, RestKept
<1>15. ASSUME NEW r \in Requests, NEW h \in BOOLEAN, Stat(r, h)
      PROVE  RestKept
  BY <1>15 DEF Stat, Go, server, cleaning, agent, TypeOK, Positions, CompleteIsCommitted, RestKept
<1>16. ASSUME NEW r \in Requests, Refuse(r)
      PROVE  RestKept
  BY <1>16 DEF Refuse, Answer, Saved, Quiet, cleaning, agent, TypeOK, Positions, CompleteIsCommitted, RestKept
<1>17. ASSUME NEW r \in Requests, Finish(r)
      PROVE  RestKept
  BY <1>17 DEF Finish, Answer, Deleted, Quiet, cleaning, agent, TypeOK, Positions, CompleteIsCommitted, RestKept
<1>18. ASSUME NEW r \in Requests, NEW a \in BOOLEAN, TellAgent(r, a)
      PROVE  RestKept
  BY <1>18 DEF TellAgent, Go, Drop, server, cleaning, agent, TypeOK, Positions, CompleteIsCommitted, RestKept
<1>19. ASSUME NEW r \in Requests, Cancelled(r)
      PROVE  RestKept
  BY <1>19 DEF Cancelled, Answer, Deleted, Quiet, cleaning, agent, TypeOK, Positions, CompleteIsCommitted, RestKept
<1>20. ASSUME NEW i \in Ids, FindExpired(i)
      PROVE  RestKept
  BY <1>20 DEF FindExpired, server, agent, TypeOK, Positions, CompleteIsCommitted, RestKept
<1>21. ASSUME NEW i \in Ids, NEW o \in Objects, RemoveExpired(i, o)
      PROVE  RestKept
  BY <1>21 DEF RemoveExpired, Deleted, agent, TypeOK, Positions, CompleteIsCommitted, RestKept
<1>22. ASSUME NEW i \in Ids, NEW a \in BOOLEAN, CancelAgent(i, a)
      PROVE  RestKept
  BY <1>22 DEF CancelAgent, Drop, server, agent, TypeOK, Positions, CompleteIsCommitted, RestKept
<1>23. CASE Restart
  BY <1>23 DEF Restart, Quiet, agent, TypeOK, Positions, CompleteIsCommitted, RestKept
<1>24. CASE UNCHANGED vars
  BY <1>24 DEF vars, server, cleaning, agent, TypeOK, Positions, CompleteIsCommitted, RestKept
<1> QED
  BY <1>1, <1>2, <1>3, <1>4, <1>5, <1>6, <1>7, <1>8, <1>9, <1>10, <1>11, <1>12, <1>13, <1>14, <1>15, <1>16, <1>17, <1>18, <1>19, <1>20, <1>21, <1>22, <1>23, <1>24
  DEF Next, Browser, Background, Handler, Acquire, Chunk, MergeUpload, CancelUpload

-----------------------------------------------------------------------------
THEOREM Invariance == Spec => []Inv
<1>1. ASSUME Inv, [Next]_vars PROVE Inv'
  <2>1. SlotsKept /\ RequestsKept /\ RestKept
    BY <1>1, SlotsStep, RequestsStep, RestStep
  <2>2. TypeOK'
    BY <2>1 DEF SlotsKept, RequestsKept, RestKept, TypeOK
  <2> QED
    BY <2>1, <2>2 DEF SlotsKept, RequestsKept, RestKept, Inv
<1> QED
  BY InitInv, <1>1, PTL DEF Spec

\* The variables keep their types.
THEOREM TypeCorrect == Spec => []TypeOK
<1>1. Inv => TypeOK
  BY DEF Inv
<1> QED
  BY Invariance, <1>1, PTL

\* No slot leaks and none is given back twice: the slots are those of the
\* sessions in the map (acquireUploadSession, releaseUploadSlotLocked).
THEOREM SlotsSafe == Spec => []SlotsMatchSessions
<1>1. Inv => SlotsMatchSessions
  BY DEF Inv
<1> QED
  BY Invariance, <1>1, PTL

\* What is reported as complete the agent has put together, unless the target
\* was an old file of the same size (mergeRemoteUpload).
THEOREM CompleteSafe == Spec => []CompleteIsCommitted
<1>1. Inv => CompleteIsCommitted
  BY DEF Inv
<1> QED
  BY Invariance, <1>1, PTL
=============================================================================
