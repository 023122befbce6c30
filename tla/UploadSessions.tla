--------------------------- MODULE UploadSessions ---------------------------
(***************************************************************************)
(* Uploads to an agent (Upload in web/filemanager/transfer.go).  A session  *)
(* lives in a map, holds one of a few slots and is also kept in a file, from *)
(* which a request restores it when the server was restarted.  Requests of  *)
(* the browser, the cleanup and restarts interleave between the locks: a    *)
(* request keeps a pointer to its session, which may meanwhile be expired,  *)
(* finished, or have a successor with the same id.                          *)
(*                                                                         *)
(* How a chunk's bytes are relayed to the agent is left out: the agent has   *)
(* received the chunk or not, and answered or not.  Time is                 *)
(* abstracted: whoever looks at the deadline of a session or of its file    *)
(* may find it over.                                                        *)
(***************************************************************************)
EXTENDS Integers, FiniteSets

CONSTANTS
  Ids,        \* upload ids
  Objects,    \* uploadSession structs; one is used again when unreferenced
  Requests,   \* requests of browsers that may run at once
  Slots,      \* maxConcurrentUploads
  Chunks,     \* the chunks of a file
  MaxRestarts, \* bound: restarts of the server
  Overwritten, \* ids whose target is an old file of the same size
  None        \* a model value: no session

ASSUME SessionsAssumption ==
  /\ IsFiniteSet(Objects) /\ None \notin Objects
  /\ Slots \in Nat \ {0} /\ Chunks # {} /\ MaxRestarts \in Nat
  /\ Overwritten \subseteq Ids

VARIABLES
  uploads,   \* uploadSessions: the struct of each id
  slots,     \* uploadSlots
  held,      \* structs with slotHeld
  files,     \* ids whose session is persisted
  request,   \* requests: where they are, their id and struct
  lock,      \* structs: session.mu held by a merge
  doomed,    \* what the cleanup has found expired: id and struct, or None
  leftover,  \* ids whose upload the agent is still told to cancel
  part,      \* the chunks in the agent's part file; without one, there is no file
  target,    \* ids whose file the agent has put together
  complete,  \* history: ids reported as complete
  restarts   \* bound: restarts so far

server == <<uploads, slots, held, lock>>
agent == <<part, target>>
cleaning == <<doomed, leftover>>
vars == <<server, files, request, cleaning, agent, complete, restarts>>

Quiet == [pc |-> "idle", id |-> None, obj |-> None]

Operations == {"chunk", "merge", "cancel"}

Init ==
  /\ uploads = [i \in Ids |-> None] /\ slots = 0
  /\ held = {} /\ lock = [o \in Objects |-> FALSE]
  /\ files = {} /\ request = [r \in Requests |-> Quiet]
  /\ doomed = None /\ leftover = {} /\ part = [i \in Ids |-> {}] /\ target = {}
  /\ complete = {} /\ restarts = 0

-----------------------------------------------------------------------------
Go(r, pc) == request' = [request EXCEPT ![r].pc = pc]
Answer(r) == request' = [request EXCEPT ![r] = Quiet]

\* saveUploadSession and removeUploadSessionState
Saved(i) == files \cup {i}
Deleted(i) == files \ {i}

Unreferenced(o) ==
  /\ \A i \in Ids : doomed # <<i, o>>
  /\ \A i \in Ids : uploads[i] # o
  /\ \A r \in Requests : request[r].obj # o

\* The part of finishUploadSession and removeExpiredUploadSession under
\* uploadMu: the entry and its slot go, if the id still has this struct.
Removed(i, o) ==
  /\ uploads' = [uploads EXCEPT ![i] = None]
  /\ slots' = IF o \in held THEN slots - 1 ELSE slots
  /\ held' = held \ {o}

\* Faulty variant: the entry is removed whatever struct it has.
RemoveEntry(i, o) == Removed(i, o)

Remove(i, o) == IF uploads[i] = o THEN Removed(i, o) ELSE UNCHANGED <<uploads, slots, held>>

-----------------------------------------------------------------------------
(* initRemoteUpload.  Nobody knows the id before the answer, so the request is
   one step.  A request that finds no slot is refused and changes nothing. *)
InitUpload(i, o) ==
  /\ \A r \in Requests : request[r].id # i
  /\ uploads[i] = None /\ i \notin files /\ Unreferenced(o)
  /\ part[i] = {} /\ i \notin target \cup leftover \cup complete
  /\ slots < Slots
  /\ slots' = slots + 1
  /\ uploads' = [uploads EXCEPT ![i] = o]
  /\ held' = held \cup {o}
  /\ files' = Saved(i)
  /\ UNCHANGED <<request, lock, cleaning, agent, complete, restarts>>

\* A browser sends a chunk, or asks to merge or to cancel; which of them matters
\* only once the request has its session, and is chosen then.
Ask(r, i) ==
  /\ request[r].pc = "idle"
  /\ request' = [request EXCEPT ![r] = [pc |-> "lookup", id |-> i, obj |-> None]]
  /\ UNCHANGED <<server, files, cleaning, agent, complete, restarts>>

-----------------------------------------------------------------------------
(* acquireUploadSession *)

\* The map is read under uploadMu, then the deadline under session.mu.
Lookup(r) ==
  LET i == request[r].id
      o == uploads[i]
  IN  /\ request[r].pc = "lookup"
      /\ request' = [request EXCEPT ![r].obj = o,
                                    ![r].pc = IF o = None THEN "load" ELSE "check"]
      /\ UNCHANGED <<server, files, cleaning, agent, complete, restarts>>

Check(r) ==
  LET o == request[r].obj
  IN  /\ request[r].pc = "check" /\ ~lock[o]
      /\ \E pc \in Operations \cup {"expire"} : Go(r, pc)
      /\ UNCHANGED <<server, files, cleaning, agent, complete, restarts>>

\* An expired session is removed, if no one else did; then the file is tried.
ExpireFirst(r) ==
  LET i == request[r].id
      o == request[r].obj
      mine == uploads[i] = o
  IN  /\ request[r].pc = "expire"
      /\ Remove(i, o)
      /\ files' = IF mine THEN Deleted(i) ELSE files
      /\ leftover' = IF mine THEN leftover \cup {i} ELSE leftover
      /\ IF mine THEN request' = [request EXCEPT ![r].pc = "load", ![r].obj = None]
                 ELSE \E op \in Operations : Go(r, op)
      /\ UNCHANGED <<doomed, lock, agent, complete, restarts>>

\* loadUploadSession, outside uploadMu; an expired file is deleted.
Load(r) ==
  LET i == request[r].id
  IN  /\ request[r].pc = "load"
      /\ \/ i \in files /\ Go(r, "restore") /\ UNCHANGED files
         \/ Answer(r) /\ files' = Deleted(i)
      /\ UNCHANGED <<server, cleaning, agent, complete, restarts>>

\* Under uploadMu another request may have restored it already.
Restore(r, o) ==
  LET i == request[r].id
  IN  /\ request[r].pc = "restore" /\ uploads[i] = None /\ Unreferenced(o) /\ slots < Slots
      /\ slots' = slots + 1
      /\ uploads' = [uploads EXCEPT ![i] = o]
      /\ held' = held \cup {o}
      /\ \E op \in Operations : request' = [request EXCEPT ![r].obj = o, ![r].pc = op]
      /\ UNCHANGED <<lock, files, cleaning, agent, complete, restarts>>

FoundRestored(r) ==
  LET i == request[r].id
  IN  /\ request[r].pc = "restore" /\ uploads[i] # None
      /\ \E op \in Operations :
           request' = [request EXCEPT ![r].obj = uploads[i], ![r].pc = op]
      /\ UNCHANGED <<server, files, cleaning, agent, complete, restarts>>

NoSlot(r) ==
  /\ request[r].pc = "restore" /\ uploads[request[r].id] = None /\ slots = Slots
  /\ Answer(r)
  /\ UNCHANGED <<server, files, cleaning, agent, complete, restarts>>

-----------------------------------------------------------------------------
(* The agent is external.  It keeps the chunks of an upload in a part file,
   which it makes the target when it is told to and all chunks are there. *)

Whole(i) == part[i] = Chunks

Receive(i, k) ==
  /\ part' = [part EXCEPT ![i] = @ \cup {k}]
  /\ UNCHANGED target

Drop(i) ==
  /\ part' = [part EXCEPT ![i] = {}]
  /\ UNCHANGED target

-----------------------------------------------------------------------------
(* uploadRemoteChunkStream *)

\* The deadline is moved past the longest call, and saved.
Extend(r) ==
  /\ request[r].pc = "chunk" /\ ~lock[request[r].obj]
  /\ files' = Saved(request[r].id)
  /\ Go(r, "relay")
  /\ UNCHANGED <<server, cleaning, agent, complete, restarts>>

\* The chunk reaches the agent, or not; the server hears that it did, or an
\* error, of the agent's answer or of the body.
Deliver(r, k, arrives, heard) ==
  /\ request[r].pc = "relay"
  /\ heard = "ok" => arrives
  /\ IF arrives THEN Receive(request[r].id, k) ELSE UNCHANGED agent
  /\ IF heard = "body" THEN Answer(r) ELSE Go(r, "answered")
  /\ UNCHANGED <<server, files, cleaning, complete, restarts>>

\* NextOffset is only reported back; the file is saved, except after an error
\* of the body.
Answered(r) ==
  /\ request[r].pc = "answered" /\ ~lock[request[r].obj]
  /\ files' = Saved(request[r].id)
  /\ Answer(r)
  /\ UNCHANGED <<server, cleaning, agent, complete, restarts>>

-----------------------------------------------------------------------------
(* mergeRemoteUpload holds session.mu across its calls. *)

Merge(r) ==
  LET o == request[r].obj
  IN  /\ request[r].pc = "merge" /\ ~lock[o]
      /\ lock' = [lock EXCEPT ![o] = TRUE]
      /\ Go(r, "commit")
      /\ UNCHANGED <<uploads, slots, held, files, cleaning, agent, complete, restarts>>

\* upload_commit; the call or its answer may be lost.
Commit(r, arrives, heard) ==
  LET i == request[r].id
  IN  /\ request[r].pc = "commit"
      /\ heard => arrives
      /\ IF arrives /\ Whole(i)
         THEN /\ target' = target \cup {i}
              /\ part' = [part EXCEPT ![i] = {}]
              /\ Go(r, IF heard THEN "finish" ELSE "refuse")
         ELSE /\ UNCHANGED agent
              /\ Go(r, IF heard /\ part[i] = {} THEN "stat" ELSE "refuse")
      /\ UNCHANGED <<server, files, cleaning, complete, restarts>>

\* The agent does not know the upload: perhaps it has put the file together
\* before; then the target has the right size.
Stat(r, heard) ==
  LET i == request[r].id
  IN  /\ request[r].pc = "stat"
      /\ Go(r, IF heard /\ i \in target \cup Overwritten THEN "finish" ELSE "refuse")
      /\ UNCHANGED <<server, files, cleaning, agent, complete, restarts>>

Refuse(r) ==
  LET o == request[r].obj
  IN  /\ request[r].pc = "refuse"
      /\ files' = Saved(request[r].id)
      /\ lock' = [lock EXCEPT ![o] = FALSE]
      /\ Answer(r)
      /\ UNCHANGED <<uploads, slots, held, cleaning, agent, complete, restarts>>

\* finishUploadSession: first the file goes, then the entry and the slot.
Finish(r) ==
  LET i == request[r].id
      o == request[r].obj
  IN  /\ request[r].pc = "finish"
      /\ Remove(i, o)
      /\ files' = Deleted(i)
      /\ lock' = [lock EXCEPT ![o] = FALSE]
      /\ complete' = complete \cup {i}
      /\ Answer(r)
      /\ UNCHANGED <<cleaning, agent, restarts>>

-----------------------------------------------------------------------------
(* cancelUpload: the agent is told, whether it answers or not. *)

TellAgent(r, arrives) ==
  /\ request[r].pc = "cancel"
  /\ IF arrives THEN Drop(request[r].id) ELSE UNCHANGED agent
  /\ Go(r, "cancelled")
  /\ UNCHANGED <<server, files, cleaning, complete, restarts>>

Cancelled(r) ==
  LET i == request[r].id
      o == request[r].obj
  IN  /\ request[r].pc = "cancelled" /\ ~lock[o]
      /\ Remove(i, o)
      /\ files' = Deleted(i)
      /\ Answer(r)
      /\ UNCHANGED <<lock, cleaning, agent, complete, restarts>>

-----------------------------------------------------------------------------
(* startUploadCleanup *)

\* The deadline is read under session.mu, the rest is done under uploadMu: a
\* chunk may move the deadline in between.
FindExpired(i) ==
  LET o == uploads[i]
  IN  /\ doomed = None /\ o # None /\ ~lock[o]
      /\ doomed' = <<i, o>>
      /\ UNCHANGED <<server, files, request, leftover, agent, complete, restarts>>

RemoveExpired(i, o) ==
  /\ doomed = <<i, o>>
  /\ Remove(i, o)
  /\ files' = IF uploads[i] = o THEN Deleted(i) ELSE files
  /\ leftover' = IF uploads[i] = o THEN leftover \cup {i} ELSE leftover
  /\ doomed' = None
  /\ UNCHANGED <<lock, request, agent, complete, restarts>>

\* cancelAgentUpload runs in a goroutine of its own.
CancelAgent(i, arrives) ==
  /\ i \in leftover
  /\ leftover' = leftover \ {i} /\ UNCHANGED doomed
  /\ IF arrives THEN Drop(i) ELSE UNCHANGED agent
  /\ UNCHANGED <<server, files, request, complete, restarts>>

\* Only the files and the agent outlive the server.
Restart ==
  /\ restarts < MaxRestarts
  /\ restarts' = restarts + 1
  /\ uploads' = [i \in Ids |-> None] /\ slots' = 0
  /\ held' = {} /\ lock' = [o \in Objects |-> FALSE]
  /\ request' = [r \in Requests |-> Quiet] /\ doomed' = None /\ leftover' = {}
  /\ UNCHANGED <<files, agent, complete>>

-----------------------------------------------------------------------------
Acquire(r) ==
  \/ Lookup(r) \/ Check(r) \/ ExpireFirst(r) \/ Load(r)
  \/ (\E o \in Objects : Restore(r, o)) \/ FoundRestored(r) \/ NoSlot(r)

Chunk(r) ==
  \/ Extend(r) \/ Answered(r)
  \/ \E k \in Chunks, arrives \in BOOLEAN, heard \in {"ok", "error", "body"} :
       Deliver(r, k, arrives, heard)

MergeUpload(r) ==
  \/ Merge(r) \/ Refuse(r) \/ Finish(r)
  \/ \E heard \in BOOLEAN : Stat(r, heard) \/ \E arrives \in BOOLEAN : Commit(r, arrives, heard)

CancelUpload(r) == Cancelled(r) \/ \E a \in BOOLEAN : TellAgent(r, a)

Handler(r) == Acquire(r) \/ Chunk(r) \/ MergeUpload(r) \/ CancelUpload(r)

Browser ==
  \/ \E i \in Ids, o \in Objects : InitUpload(i, o)
  \/ \E r \in Requests, i \in Ids : Ask(r, i)

Background ==
  \E i \in Ids : \/ FindExpired(i)
                \/ \E o \in Objects : RemoveExpired(i, o)
                \/ \E arrives \in BOOLEAN : CancelAgent(i, arrives)

Next == Browser \/ Background \/ Restart \/ \E r \in Requests : Handler(r)

Spec == Init /\ [][Next]_vars

-----------------------------------------------------------------------------
TypeOK ==
  /\ uploads \in [Ids -> Objects \cup {None}] /\ slots \in 0..Slots
  /\ held \subseteq Objects /\ files \subseteq Ids
  /\ request \in [Requests -> [pc : {"idle", "lookup", "check", "expire", "load", "restore",
                                     "chunk", "relay", "answered", "merge",
                                     "commit", "stat", "refuse", "finish", "cancel",
                                     "cancelled"},
                               id : Ids \cup {None}, obj : Objects \cup {None}]]
  /\ lock \in [Objects -> BOOLEAN] /\ doomed \in (Ids \X Objects) \cup {None}
  /\ leftover \subseteq Ids /\ part \in [Ids -> SUBSET Chunks]
  /\ target \subseteq Ids /\ complete \subseteq Ids
  /\ restarts \in 0..MaxRestarts

\* Every slot that is taken belongs to the one struct its id has in the map,
\* and every entry of the map holds a slot: whatever requests, the cleanup and
\* restarts do with one upload, no slot leaks and none is given back twice
\* (acquireUploadSession, removeExpiredUploadSession, finishUploadSession).
SlotsMatchSessions ==
  /\ slots = Cardinality(held) /\ slots <= Slots
  /\ \A o \in held : \E i \in Ids : uploads[i] = o
  /\ \A i \in Ids : uploads[i] # None => uploads[i] \in held

\* An upload that is reported as complete was put together by the agent from
\* all of its chunks, whichever answers were lost (mergeRemoteUpload), unless
\* the target was an old file of the same size.
CompleteIsCommitted == complete \ Overwritten \subseteq target

\* The same without the exception, which the code does not promise: see
\* UploadOverwrite.cfg.
CompleteIsUploaded == complete \subseteq target
=============================================================================
