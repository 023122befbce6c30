-------------------------- MODULE FileRelayProofs --------------------------
(***************************************************************************)
(* Proofs about FileRelay, for any requests, transfers, slots, sizes and    *)
(* numbers of attempts: the response is a beginning of the requested range, *)
(* and slots and open transfers match.                                      *)
(*                                                                         *)
(* Argument.  A transfer serves one request at a time (Owned), and its      *)
(* copier does not outlive the chunk, since the handler waits for it        *)
(* (Copying).  So only the copier of the current transfer writes, and the   *)
(* response has grown by exactly what that copier has written (Jobs).  A    *)
(* chunk is tried again only when that is nothing, and followed by the next *)
(* one only when that is all of it: when the handler waits for a slot, the  *)
(* response ends where the next chunk begins (Waiting).                     *)
(***************************************************************************)
EXTENDS FileRelay, FiniteSetTheorems, TLAPS

\* A chunk stays within the range.
Sizes == \A d \in Downloads : loop[d].off + loop[d].len <= Size[d]

\* A request that runs a chunk has a transfer, of its own.
Owned ==
  /\ \A d \in Downloads : (cur[d] # NoTransfer) <=> phase[d] = "run"
  /\ \A d, e \in Downloads : cur[d] = cur[e] /\ cur[d] # NoTransfer => d = e

Holding(t) == IF copier[t] = "holding" THEN 1 ELSE 0

\* The transfer of a request has the chunk's job; what it wrote is what the
\* response has grown by; what is written, held or still to come fits in.
Jobs ==
  \A d \in Downloads : phase[d] = "run" =>
    /\ job[cur[d]].owner = d /\ job[cur[d]].first = loop[d].off /\ job[cur[d]].len = loop[d].len
    /\ out[d] = loop[d].off + copied[cur[d]]
    /\ copied[cur[d]] + Holding(cur[d]) + left[cur[d]] <= loop[d].len
    /\ copier[cur[d]] = "done" /\ copyErr[cur[d]] = "none" => copied[cur[d]] = loop[d].len

\* Copiers belong to running chunks.
Copying ==
  \A t \in Transfers : copier[t] # "done" => \E d \in Downloads : phase[d] = "run" /\ cur[d] = t

\* Between chunks the response ends where the next chunk begins.
Waiting ==
  \A d \in Downloads :
    /\ phase[d] = "new" => out[d] = 0
    /\ phase[d] = "slot" => out[d] = loop[d].off
    /\ phase[d] # "done" => answer[d] = "none"

Headers == \A d \in Downloads : out[d] > 0 => committed[d]

Inv ==
  /\ TypeOK /\ Sizes /\ Owned /\ Jobs /\ Copying /\ Waiting /\ Headers
  /\ ResponseIsPrefix /\ SlotsHeldByRequests

-----------------------------------------------------------------------------
\* Smaller chunks are not empty and not larger (nextReducedTransferChunkSize).
LEMMA ReducedSize ==
  ASSUME NEW failed \in Nat, NEW upper \in 1..ChunkSize, failed > 1
  PROVE  NextReduced(failed, upper) \in 1..ChunkSize
<1> USE RelayAssumption DEF RelayAssumption
<1> DEFINE high == Min2(failed, upper)
           next == 1 + ((high - 1) \div 2)
<1>1. high \in 1..ChunkSize /\ high <= failed
  BY DEF Min2
<1>2. next \in 1..ChunkSize /\ next <= high
  <2> HIDE DEF high
  <2> QED
    BY <1>1
<1>3. NextReduced(failed, upper) = IF high <= 1 THEN 1 ELSE IF next >= failed THEN failed - 1 ELSE next
  BY DEF NextReduced
<1> HIDE DEF high, next
<1> QED
  BY <1>1, <1>2, <1>3

LEMMA ChunkType ==
  ASSUME NEW d \in Downloads, NEW off \in Nat, off < Size[d], NEW size \in 1..ChunkSize,
         NEW upper \in 1..ChunkSize, NEW attempt \in 1..Attempts
  PROVE  /\ Chunk(d, off, size, upper, attempt)
              \in [size : 1..ChunkSize, len : Nat \ {0}, off : Nat,
                   upper : 1..ChunkSize, attempt : 1..Attempts]
         /\ Chunk(d, off, size, upper, attempt).off = off
         /\ off + Chunk(d, off, size, upper, attempt).len <= Size[d]
<1>1. Min2(size, Size[d] - off) \in Nat \ {0} /\ off + Min2(size, Size[d] - off) <= Size[d]
  BY RelayAssumption DEF RelayAssumption, Min2
<1> QED
  BY <1>1 DEF Chunk

LEMMA FirstType ==
  ASSUME NEW d \in Downloads, NEW size \in 1..ChunkSize
  PROVE  /\ First(d, size) \in [size : 1..ChunkSize, len : Nat \ {0}, off : Nat,
                                upper : 1..ChunkSize, attempt : 1..Attempts]
         /\ First(d, size).off = 0 /\ First(d, size).len <= Size[d]
<1>1. Size[d] \in Nat \ {0} /\ 1 \in 1..Attempts /\ 0 < Size[d]
  BY RelayAssumption DEF RelayAssumption
<1>2. /\ Chunk(d, 0, size, size, 1) \in [size : 1..ChunkSize, len : Nat \ {0}, off : Nat,
                                        upper : 1..ChunkSize, attempt : 1..Attempts]
      /\ Chunk(d, 0, size, size, 1).off = 0 /\ 0 + Chunk(d, 0, size, size, 1).len <= Size[d]
  BY <1>1, ChunkType
<1> QED
  BY <1>2 DEF First

\* The chunk of a request is not empty and within the range.
LEMMA LoopFacts ==
  ASSUME TypeOK, Sizes, NEW d \in Downloads
  PROVE  /\ loop[d] \in [size : 1..ChunkSize, len : Nat \ {0}, off : Nat,
                         upper : 1..ChunkSize, attempt : 1..Attempts]
         /\ loop[d].size \in 1..ChunkSize /\ loop[d].upper \in 1..ChunkSize
         /\ loop[d].attempt \in 1..Attempts
         /\ loop[d].len \in Nat \ {0} /\ loop[d].off \in Nat /\ Size[d] \in Nat \ {0}
         /\ loop[d].off + loop[d].len <= Size[d] /\ loop[d].off < Size[d]
<1>1. loop[d] \in [size : 1..ChunkSize, len : Nat \ {0}, off : Nat,
                  upper : 1..ChunkSize, attempt : 1..Attempts]
  BY DEF TypeOK
<1>2. Size[d] \in Nat \ {0}
  BY RelayAssumption DEF RelayAssumption
<1>3. loop[d].off + loop[d].len <= Size[d]
  BY DEF Sizes
<1> QED
  BY <1>1, <1>2, <1>3

LEMMA OpenFinite ==
  ASSUME TypeOK PROVE IsFiniteSet(open) /\ Cardinality(open) \in Nat
BY RelayAssumption, FS_Subset, FS_CardinalityType DEF RelayAssumption, TypeOK

\* Taking a transfer away from the open ones gives its slot back.
LEMMA Shut ==
  ASSUME TypeOK, SlotsHeldByRequests, NEW t, open' = open \ {t},
         slots' = IF t \in open THEN slots - 1 ELSE slots
  PROVE  open' \subseteq open /\ slots' \in 0..StreamSlots /\ slots' = Cardinality(open')
<1> USE RelayAssumption DEF RelayAssumption
<1>1. CASE t \in open
  <2>1. Cardinality(open \ {t}) = Cardinality(open) - 1
    BY <1>1, OpenFinite, FS_RemoveElement
  <2>2. Cardinality(open \ {t}) \in Nat
    BY OpenFinite, FS_RemoveElement, FS_CardinalityType
  <2> QED
    BY <1>1, <2>1, <2>2 DEF SlotsHeldByRequests, TypeOK
<1>2. CASE t \notin open
  <2>1. open \ {t} = open
    BY <1>2
  <2> QED
    BY <1>2, <2>1 DEF SlotsHeldByRequests, TypeOK
<1> QED
  BY <1>1, <1>2

\* close, whoever calls it.
LEMMA CloseKeeps ==
  ASSUME TypeOK, SlotsHeldByRequests, NEW t, NEW failed, Close(t, failed)
  PROVE  /\ open' \subseteq open /\ slots' \in 0..StreamSlots /\ slots' = Cardinality(open')
         /\ pipe' \in [Transfers -> {"open", "eof", "torn", "shut"}]
<1>1. CASE t \in open
  <2>1. open' = open \ {t} /\ slots' = IF t \in open THEN slots - 1 ELSE slots
    BY <1>1 DEF Close, Release
  <2>2. pipe' \in [Transfers -> {"open", "eof", "torn", "shut"}]
    BY <1>1 DEF Close, Release, TypeOK
  <2> QED
    BY <2>1, <2>2, Shut
<1>2. CASE t \notin open
  BY <1>2 DEF Close, SlotsHeldByRequests, TypeOK
<1> QED
  BY <1>1, <1>2

-----------------------------------------------------------------------------
LEMMA InitInv == Init => Inv
<1> USE RelayAssumption DEF RelayAssumption
<1> SUFFICES ASSUME Init PROVE Inv
  OBVIOUS
<1>1. loop \in [Downloads -> [size : 1..ChunkSize, len : Nat \ {0}, off : Nat,
                              upper : 1..ChunkSize, attempt : 1..Attempts]] /\ Sizes
  BY FirstType DEF Init, Sizes
<1>2. phase \in [Downloads -> {"new", "slot", "run", "done"}]
      /\ cur \in [Downloads -> Transfers \cup {NoTransfer}]
  BY DEF Init
<1>3. gone \in [Downloads -> BOOLEAN] /\ clean \in [Downloads -> BOOLEAN]
      /\ committed \in [Downloads -> BOOLEAN]
  BY Zenon DEF Init
<1>4. out \in [Downloads -> Nat] /\ answer \in [Downloads -> {"none", "whole", "broken", "error"}]
  BY DEF Init
<1>5. cache \in 1..ChunkSize /\ slots \in 0..StreamSlots /\ open \subseteq Transfers
  BY DEF Init
<1>6. job \in [Transfers -> [owner : Downloads \cup {Nobody}, first : Nat, len : Nat]]
  BY DEF Init, NoJob
<1>7. agent \in [Transfers -> {"away", "sending", "sent", "failed", "gone"}]
      /\ pipe \in [Transfers -> {"open", "eof", "torn", "shut"}]
  BY DEF Init
<1>8. left \in [Transfers -> Nat] /\ copied \in [Transfers -> Nat]
  BY DEF Init
<1>9. copier \in [Transfers -> {"reading", "holding", "done"}]
      /\ copyErr \in [Transfers -> {"none", "pipe", "reset", "other"}]
      /\ call \in [Transfers -> Results \cup {"running"}]
  BY DEF Init, Results
<1>10. TypeOK
  BY <1>1, <1>2, <1>3, <1>4, <1>5, <1>6, <1>7, <1>8, <1>9 DEF TypeOK
<1>11. SlotsHeldByRequests
  BY FS_EmptySet DEF Init, SlotsHeldByRequests
<1>12. Owned /\ Jobs /\ Copying /\ Waiting /\ Headers /\ ResponseIsPrefix
  BY DEF Init, Owned, Jobs, Copying, Waiting, Headers, ResponseIsPrefix
<1> QED
  BY <1>1, <1>10, <1>11, <1>12 DEF Inv

-----------------------------------------------------------------------------
\* What a step keeps, variable by variable.
SlotsKept ==
  /\ open' \subseteq Transfers /\ slots' \in 0..StreamSlots
  /\ pipe' \in [Transfers -> {"open", "eof", "torn", "shut"}]
  /\ SlotsHeldByRequests'

LoopType == [size : 1..ChunkSize, len : Nat \ {0}, off : Nat, upper : 1..ChunkSize,
             attempt : 1..Attempts]

RequestsKept ==
  /\ phase' \in [Downloads -> {"new", "slot", "run", "done"}]
  /\ loop' \in [Downloads -> LoopType]
  /\ cur' \in [Downloads -> Transfers \cup {NoTransfer}]
  /\ gone' \in [Downloads -> BOOLEAN] /\ cache' \in 1..ChunkSize
  /\ Sizes' /\ Owned'

StreamsKept ==
  /\ job' \in [Transfers -> [owner : Downloads \cup {Nobody}, first : Nat, len : Nat]]
  /\ agent' \in [Transfers -> {"away", "sending", "sent", "failed", "gone"}]
  /\ left' \in [Transfers -> Nat] /\ copied' \in [Transfers -> Nat]
  /\ copier' \in [Transfers -> {"reading", "holding", "done"}]
  /\ copyErr' \in [Transfers -> {"none", "pipe", "reset", "other"}]
  /\ call' \in [Transfers -> Results \cup {"running"}]
  /\ Jobs' /\ Copying'

ResponseKept ==
  /\ out' \in [Downloads -> Nat] /\ clean' \in [Downloads -> BOOLEAN]
  /\ committed' \in [Downloads -> BOOLEAN]
  /\ answer' \in [Downloads -> {"none", "whole", "broken", "error"}]
  /\ Waiting' /\ Headers' /\ ResponseIsPrefix'

\* What a step has to leave of the open transfers and their slots.
LEMMA SlotsFrom ==
  ASSUME StreamSlots \in Nat, open' \subseteq Transfers, slots' \in 0..StreamSlots,
         slots' = Cardinality(open'), pipe' \in [Transfers -> {"open", "eof", "torn", "shut"}],
         \A u \in open' : \E e \in Downloads : phase'[e] = "run" /\ cur'[e] = u
  PROVE  SlotsKept
BY DEF SlotsKept, SlotsHeldByRequests

LEMMA SlotsSame ==
  ASSUME Inv, StreamSlots \in Nat, NEW d \in Downloads, phase[d] # "run",
         \A e \in Downloads : e # d => phase'[e] = phase[e],
         UNCHANGED <<cur, open, slots, pipe>>
  PROVE  SlotsKept
<1>1. /\ open \subseteq Transfers /\ slots \in 0..StreamSlots /\ slots = Cardinality(open)
      /\ pipe \in [Transfers -> {"open", "eof", "torn", "shut"}]
  BY DEF Inv, TypeOK, SlotsHeldByRequests
<1>2. \A u \in open : \E e \in Downloads : e # d /\ phase[e] = "run" /\ cur[e] = u
  BY DEF Inv, SlotsHeldByRequests
<1>3. \A u \in open' : \E e \in Downloads : phase'[e] = "run" /\ cur'[e] = u
  BY <1>2
<1> QED
  BY <1>1, <1>3, SlotsFrom

\* Open transfers and their slots.
LEMMA SlotsStep ==
  ASSUME Inv, [Next]_vars PROVE SlotsKept
<1> USE RelayAssumption DEF RelayAssumption, Inv
<1>1. ASSUME NEW d \in Downloads, Start(d)
      PROVE  SlotsKept
  <2>1. phase[d] # "run" /\ \A e \in Downloads : e # d => phase'[e] = phase[e]
    BY <1>1 DEF Start, response, stream, copying, TypeOK
  <2>2. UNCHANGED <<cur, open, slots, pipe>>
    BY <1>1 DEF Start
  <2> QED
    BY <2>1, <2>2, SlotsSame
<1>2. ASSUME NEW d \in Downloads, Leave(d)
      PROVE  SlotsKept
  <2>1. Close(cur[d], TRUE) \/ UNCHANGED <<open, slots, pipe>>
    BY <1>2 DEF Leave, CloseOnError
  <2>2. /\ open' \subseteq open /\ slots' \in 0..StreamSlots /\ slots' = Cardinality(open')
        /\ pipe' \in [Transfers -> {"open", "eof", "torn", "shut"}]
    <3>1. CASE Close(cur[d], TRUE)
      BY <3>1, CloseKeeps
    <3>2. CASE UNCHANGED <<open, slots, pipe>>
      BY <3>2 DEF SlotsHeldByRequests, TypeOK
    <3> QED
      BY <2>1, <3>1, <3>2
  <2>3. UNCHANGED <<phase, cur>>
    BY <1>2 DEF Leave, request, response, stream, copying
  <2> QED
    BY <2>2, <2>3 DEF SlotsHeldByRequests, SlotsKept, TypeOK
<1>3. ASSUME NEW d \in Downloads, NEW t \in Transfers, NewTransfer(d, t)
      PROVE  SlotsKept
  <2>1. t \notin open /\ open' = open \cup {t} /\ slots' = slots + 1 /\ slots < StreamSlots
    BY <1>3 DEF NewTransfer, Unused
  <2>2. slots' = Cardinality(open') /\ slots' \in 0..StreamSlots /\ open' \subseteq Transfers
    <3>1. Cardinality(open') = Cardinality(open) + 1
      BY <2>1, OpenFinite, FS_AddElement
    <3> QED
      BY <2>1, <3>1 DEF SlotsHeldByRequests, TypeOK
  <2>3. pipe' \in [Transfers -> {"open", "eof", "torn", "shut"}]
    BY <1>3 DEF NewTransfer, TypeOK
  <2>4. phase[d] = "slot" /\ phase' = [phase EXCEPT ![d] = "run"] /\ cur' = [cur EXCEPT ![d] = t]
    BY <1>3 DEF NewTransfer
  <2>5. \A u \in open' : \E e \in Downloads : phase'[e] = "run" /\ cur'[e] = u
    BY <2>1, <2>4 DEF SlotsHeldByRequests, TypeOK
  <2> QED
    BY <2>2, <2>3, <2>5, SlotsFrom
<1>4. ASSUME NEW d \in Downloads, NextChunk(d)
      PROVE  SlotsKept
  <2>1. open' = open \ {cur[d]} /\ slots' = IF cur[d] \in open THEN slots - 1 ELSE slots
    BY <1>4 DEF NextChunk, Return
  <2>2. pipe' \in [Transfers -> {"open", "eof", "torn", "shut"}]
    BY <1>4 DEF NextChunk, Return, TypeOK
  <2>3. open' \subseteq open /\ slots' \in 0..StreamSlots /\ slots' = Cardinality(open')
    BY <2>1, Shut
  <2>4. phase[d] = "run" /\ \A e \in Downloads : e # d => phase'[e] = phase[e] /\ cur'[e] = cur[e]
    BY <1>4 DEF NextChunk, Return, Finished, Delivered, rest, stream, TypeOK
  <2>5. \A u \in open' : \E e \in Downloads : phase'[e] = "run" /\ cur'[e] = u
    BY <2>1, <2>4 DEF SlotsHeldByRequests
  <2> QED
    BY <2>2, <2>3, <2>5, SlotsFrom DEF TypeOK
<1>5. ASSUME NEW d \in Downloads, Resize(d)
      PROVE  SlotsKept
  <2>1. open' = open \ {cur[d]} /\ slots' = IF cur[d] \in open THEN slots - 1 ELSE slots
    BY <1>5 DEF Resize, Return
  <2>2. pipe' \in [Transfers -> {"open", "eof", "torn", "shut"}]
    BY <1>5 DEF Resize, Return, TypeOK
  <2>3. open' \subseteq open /\ slots' \in 0..StreamSlots /\ slots' = Cardinality(open')
    BY <2>1, Shut
  <2>4. phase[d] = "run" /\ \A e \in Downloads : e # d => phase'[e] = phase[e] /\ cur'[e] = cur[e]
    BY <1>5 DEF Resize, Return, Finished, rest, response, stream, TypeOK
  <2>5. \A u \in open' : \E e \in Downloads : phase'[e] = "run" /\ cur'[e] = u
    BY <2>1, <2>4 DEF SlotsHeldByRequests
  <2> QED
    BY <2>2, <2>3, <2>5, SlotsFrom DEF TypeOK
<1>6. ASSUME NEW d \in Downloads, Retry(d)
      PROVE  SlotsKept
  <2>1. open' = open \ {cur[d]} /\ slots' = IF cur[d] \in open THEN slots - 1 ELSE slots
    BY <1>6 DEF Retry, Return
  <2>2. pipe' \in [Transfers -> {"open", "eof", "torn", "shut"}]
    BY <1>6 DEF Retry, Return, TypeOK
  <2>3. open' \subseteq open /\ slots' \in 0..StreamSlots /\ slots' = Cardinality(open')
    BY <2>1, Shut
  <2>4. phase[d] = "run" /\ \A e \in Downloads : e # d => phase'[e] = phase[e] /\ cur'[e] = cur[e]
    BY <1>6 DEF Retry, Return, Finished, rest, response, stream, TypeOK
  <2>5. \A u \in open' : \E e \in Downloads : phase'[e] = "run" /\ cur'[e] = u
    BY <2>1, <2>4 DEF SlotsHeldByRequests
  <2> QED
    BY <2>2, <2>3, <2>5, SlotsFrom DEF TypeOK
<1>7. ASSUME NEW d \in Downloads, GiveUp(d)
      PROVE  SlotsKept
  <2>1. open' = open \ {cur[d]} /\ slots' = IF cur[d] \in open THEN slots - 1 ELSE slots
    BY <1>7 DEF GiveUp, Return
  <2>2. pipe' \in [Transfers -> {"open", "eof", "torn", "shut"}]
    BY <1>7 DEF GiveUp, Return, TypeOK
  <2>3. open' \subseteq open /\ slots' \in 0..StreamSlots /\ slots' = Cardinality(open')
    BY <2>1, Shut
  <2>4. phase[d] = "run" /\ \A e \in Downloads : e # d => phase'[e] = phase[e] /\ cur'[e] = cur[e]
    BY <1>7 DEF GiveUp, Fail, Return, Finished, Delivered, rest, stream, TypeOK
  <2>5. \A u \in open' : \E e \in Downloads : phase'[e] = "run" /\ cur'[e] = u
    BY <2>1, <2>4 DEF SlotsHeldByRequests
  <2> QED
    BY <2>2, <2>3, <2>5, SlotsFrom DEF TypeOK
<1>8. ASSUME NEW d \in Downloads, Abandon(d)
      PROVE  SlotsKept
  <2>1. phase[d] # "run" /\ \A e \in Downloads : e # d => phase'[e] = phase[e]
    BY <1>8 DEF Abandon, Fail, rest, stream, TypeOK
  <2>2. UNCHANGED <<cur, open, slots, pipe>>
    BY <1>8 DEF Abandon
  <2> QED
    BY <2>1, <2>2, SlotsSame
<1>9. ASSUME NEW t \in Transfers, Cleanup(t)
      PROVE  SlotsKept
  <2>1. Close(t, TRUE)
    BY <1>9 DEF Cleanup
  <2>2. /\ open' \subseteq open /\ slots' \in 0..StreamSlots /\ slots' = Cardinality(open')
        /\ pipe' \in [Transfers -> {"open", "eof", "torn", "shut"}]
    <3>1. CASE Close(t, TRUE)
      BY <3>1, CloseKeeps
    <3>2. CASE UNCHANGED <<open, slots, pipe>>
      BY <3>2 DEF SlotsHeldByRequests, TypeOK
    <3> QED
      BY <2>1, <3>1, <3>2
  <2>3. UNCHANGED <<phase, cur>>
    BY <1>9 DEF Cleanup, request, response, stream, copying
  <2> QED
    BY <2>2, <2>3 DEF SlotsHeldByRequests, SlotsKept, TypeOK
<1>10. ASSUME NEW t \in Transfers, WriteUnit(t)
      PROVE  SlotsKept
  BY <1>10 DEF WriteUnit, request, stream, SlotsHeldByRequests, SlotsKept, TypeOK
<1>11. ASSUME NEW t \in Transfers, WriteFails(t)
      PROVE  SlotsKept
  <2>1. Close(t, TRUE) \/ UNCHANGED <<open, slots, pipe>>
    BY <1>11 DEF WriteFails, CloseOnError
  <2>2. /\ open' \subseteq open /\ slots' \in 0..StreamSlots /\ slots' = Cardinality(open')
        /\ pipe' \in [Transfers -> {"open", "eof", "torn", "shut"}]
    <3>1. CASE Close(t, TRUE)
      BY <3>1, CloseKeeps
    <3>2. CASE UNCHANGED <<open, slots, pipe>>
      BY <3>2 DEF SlotsHeldByRequests, TypeOK
    <3> QED
      BY <2>1, <3>1, <3>2
  <2>3. UNCHANGED <<phase, cur>>
    BY <1>11 DEF WriteFails, request, response, stream
  <2> QED
    BY <2>2, <2>3 DEF SlotsHeldByRequests, SlotsKept, TypeOK
<1>12. ASSUME NEW t \in Transfers, NEW err \in {"none", "pipe", "reset", "other"}, CopyEnds(t, err)
      PROVE  SlotsKept
  <2>1. Close(t, TRUE) \/ UNCHANGED <<open, slots, pipe>>
    BY <1>12 DEF CopyEnds, CloseOnError
  <2>2. /\ open' \subseteq open /\ slots' \in 0..StreamSlots /\ slots' = Cardinality(open')
        /\ pipe' \in [Transfers -> {"open", "eof", "torn", "shut"}]
    <3>1. CASE Close(t, TRUE)
      BY <3>1, CloseKeeps
    <3>2. CASE UNCHANGED <<open, slots, pipe>>
      BY <3>2 DEF SlotsHeldByRequests, TypeOK
    <3> QED
      BY <2>1, <3>1, <3>2
  <2>3. UNCHANGED <<phase, cur>>
    BY <1>12 DEF CopyEnds, request, response, stream
  <2> QED
    BY <2>2, <2>3 DEF SlotsHeldByRequests, SlotsKept, TypeOK
<1>13. ASSUME NEW t \in Transfers, NEW res \in Results, CallReturns(t, res)
      PROVE  SlotsKept
  <2>1. Close(t, TRUE) \/ UNCHANGED <<open, slots, pipe>>
    BY <1>13 DEF CallReturns, CloseOnError
  <2>2. /\ open' \subseteq open /\ slots' \in 0..StreamSlots /\ slots' = Cardinality(open')
        /\ pipe' \in [Transfers -> {"open", "eof", "torn", "shut"}]
    <3>1. CASE Close(t, TRUE)
      BY <3>1, CloseKeeps
    <3>2. CASE UNCHANGED <<open, slots, pipe>>
      BY <3>2 DEF SlotsHeldByRequests, TypeOK
    <3> QED
      BY <2>1, <3>1, <3>2
  <2>3. UNCHANGED <<phase, cur>>
    BY <1>13 DEF CallReturns, request, response, stream, copying
  <2> QED
    BY <2>2, <2>3 DEF SlotsHeldByRequests, SlotsKept, TypeOK
<1>14. ASSUME NEW t \in Transfers, Hand(t)
      PROVE  SlotsKept
  BY <1>14 DEF Hand, request, response, SlotsHeldByRequests, SlotsKept, TypeOK
<1>15. ASSUME NEW t \in Transfers, AgentFinishes(t)
      PROVE  SlotsKept
  BY <1>15 DEF AgentFinishes, request, response, copying, SlotsHeldByRequests, SlotsKept, TypeOK
<1>16. ASSUME NEW t \in Transfers, AgentCloses(t)
      PROVE  SlotsKept
  <2>1. Close(t, agent[t] = "failed")
    BY <1>16 DEF AgentCloses
  <2>2. /\ open' \subseteq open /\ slots' \in 0..StreamSlots /\ slots' = Cardinality(open')
        /\ pipe' \in [Transfers -> {"open", "eof", "torn", "shut"}]
    <3>1. CASE Close(t, agent[t] = "failed")
      BY <3>1, CloseKeeps
    <3>2. CASE UNCHANGED <<open, slots, pipe>>
      BY <3>2 DEF SlotsHeldByRequests, TypeOK
    <3> QED
      BY <2>1, <3>1, <3>2
  <2>3. UNCHANGED <<phase, cur>>
    BY <1>16 DEF AgentCloses, request, response, copying
  <2> QED
    BY <2>2, <2>3 DEF SlotsHeldByRequests, SlotsKept, TypeOK
<1>17. ASSUME NEW t \in Transfers, AgentFails(t)
      PROVE  SlotsKept
  BY <1>17 DEF AgentFails, request, response, copying, SlotsHeldByRequests, SlotsKept, TypeOK
<1>18. ASSUME NEW t \in Transfers, Connect(t)
      PROVE  SlotsKept
  BY <1>18 DEF Connect, request, response, copying, SlotsHeldByRequests, SlotsKept, TypeOK
<1>19. ASSUME NEW t \in Transfers, Reject(t)
      PROVE  SlotsKept
  <2>1. Close(t, TRUE)
    BY <1>19 DEF Reject
  <2>2. /\ open' \subseteq open /\ slots' \in 0..StreamSlots /\ slots' = Cardinality(open')
        /\ pipe' \in [Transfers -> {"open", "eof", "torn", "shut"}]
    <3>1. CASE Close(t, TRUE)
      BY <3>1, CloseKeeps
    <3>2. CASE UNCHANGED <<open, slots, pipe>>
      BY <3>2 DEF SlotsHeldByRequests, TypeOK
    <3> QED
      BY <2>1, <3>1, <3>2
  <2>3. UNCHANGED <<phase, cur>>
    BY <1>19 DEF Reject, request, response, stream, copying
  <2> QED
    BY <2>2, <2>3 DEF SlotsHeldByRequests, SlotsKept, TypeOK
<1>20. CASE UNCHANGED vars
  BY <1>20 DEF vars, request, response, stream, copying, SlotsHeldByRequests, SlotsKept, TypeOK
<1> QED
  BY <1>1, <1>2, <1>3, <1>4, <1>5, <1>6, <1>7, <1>8, <1>9, <1>10, <1>11, <1>12, <1>13, <1>14, <1>15, <1>16, <1>17, <1>18, <1>19, <1>20
  DEF Next, Handler, Goroutines, Outside, Copier

\* The handlers' requests and loops.
LEMMA RequestsStep ==
  ASSUME Inv, [Next]_vars PROVE RequestsKept
<1> USE RelayAssumption DEF RelayAssumption, Inv
<1>1. ASSUME NEW d \in Downloads, Start(d)
      PROVE  RequestsKept
  <2>1. First(d, cache) \in LoopType /\ First(d, cache).off = 0 /\ First(d, cache).len <= Size[d]
    BY FirstType DEF TypeOK, LoopType
  <2>2. loop' = [loop EXCEPT ![d] = First(d, cache)] /\ phase' = [phase EXCEPT ![d] = "slot"]
        /\ phase[d] = "new" /\ UNCHANGED <<cur, gone, cache>>
    BY <1>1 DEF Start
  <2>3. loop' \in [Downloads -> LoopType] /\ Sizes'
    BY <2>1, <2>2 DEF TypeOK, LoopType, Sizes
  <2> QED
    BY <2>2, <2>3 DEF TypeOK, Owned, RequestsKept
<1>2. ASSUME NEW d \in Downloads, Leave(d)
      PROVE  RequestsKept
  <2>1. gone' \in [Downloads -> BOOLEAN]
    BY <1>2, Zenon DEF Leave, TypeOK
  <2> QED
    BY <1>2, <2>1 DEF Leave, request, response, stream, copying, TypeOK, LoopType, Sizes, Owned, RequestsKept
<1>3. ASSUME NEW d \in Downloads, NEW t \in Transfers, NewTransfer(d, t)
      PROVE  RequestsKept
  <2>1. \A e \in Downloads : cur[e] # t
    BY <1>3 DEF NewTransfer, Unused
  <2>2. loop' = loop /\ phase' = [phase EXCEPT ![d] = "run"] /\ cur' = [cur EXCEPT ![d] = t]
        /\ UNCHANGED <<gone, cache>>
    BY <1>3 DEF NewTransfer
  <2> QED
    BY <2>1, <2>2 DEF TypeOK, LoopType, Sizes, Owned, RequestsKept
<1>4. ASSUME NEW d \in Downloads, NextChunk(d)
      PROVE  RequestsKept
  <2>1. cur' = [cur EXCEPT ![d] = NoTransfer] /\ phase[d] = "run" /\ gone' = gone
    BY <1>4 DEF NextChunk, Return, Finished, Delivered, rest, stream
  <2>2. cache' \in 1..ChunkSize
    BY <1>4 DEF NextChunk, Min2, TypeOK
  <2>3. phase' \in [Downloads -> {"new", "slot", "run", "done"}]
        /\ phase'[d] # "run" /\ \A e \in Downloads : e # d => phase'[e] = phase[e]
    <3>1. phase' = [phase EXCEPT ![d] = "done"] \/ phase' = [phase EXCEPT ![d] = "slot"]
      BY <1>4 DEF NextChunk
    <3>2. phase \in [Downloads -> {"new", "slot", "run", "done"}] /\ d \in Downloads
      BY DEF TypeOK
    <3> QED
      BY ONLY <3>1, <3>2
  <2>4. loop' \in [Downloads -> LoopType] /\ Sizes'
    <3> DEFINE off == loop[d].off + loop[d].len
    <3>1. CASE off = Size[d]
      <4>1. loop' = [loop EXCEPT ![d] = First(d, ChunkSize)]
        BY <1>4, <3>1 DEF NextChunk
      <4>2. First(d, ChunkSize) \in LoopType /\ First(d, ChunkSize).off = 0
            /\ First(d, ChunkSize).len <= Size[d]
        BY FirstType DEF LoopType
      <4> QED
        BY <4>1, <4>2 DEF TypeOK, LoopType, Sizes
    <3>2. CASE off # Size[d]
      <4>1. loop' = [loop EXCEPT ![d] = Chunk(d, off, loop[d].size, loop[d].upper, 1)]
        BY <1>4, <3>2 DEF NextChunk
      <4>2. off \in Nat /\ off < Size[d] /\ 1 \in 1..Attempts
        BY <3>2, LoopFacts
      <4>3. /\ Chunk(d, off, loop[d].size, loop[d].upper, 1) \in LoopType
            /\ Chunk(d, off, loop[d].size, loop[d].upper, 1).off = off
            /\ off + Chunk(d, off, loop[d].size, loop[d].upper, 1).len <= Size[d]
        <5> HIDE DEF off
        <5> QED
          BY <4>2, LoopFacts, ChunkType DEF LoopType
      <4> HIDE DEF off
      <4> QED
        BY <4>1, <4>3 DEF TypeOK, LoopType, Sizes
    <3> QED
      BY <3>1, <3>2
  <2>5. Owned' /\ cur' \in [Downloads -> Transfers \cup {NoTransfer}]
    BY <2>1, <2>3 DEF Owned, TypeOK
  <2> QED
    BY <2>1, <2>2, <2>3, <2>4, <2>5 DEF RequestsKept, TypeOK
<1>5. ASSUME NEW d \in Downloads, Resize(d)
      PROVE  RequestsKept
  <2>1. cur' = [cur EXCEPT ![d] = NoTransfer] /\ phase[d] = "run" /\ gone' = gone
    BY <1>5 DEF Resize, Return, Finished, rest, response, stream
  <2>2. cache' \in 1..ChunkSize
    BY <1>5 DEF Resize, TypeOK
  <2>3. phase' \in [Downloads -> {"new", "slot", "run", "done"}]
        /\ phase'[d] # "run" /\ \A e \in Downloads : e # d => phase'[e] = phase[e]
    BY <1>5 DEF Resize, TypeOK
  <2>4. loop' \in [Downloads -> LoopType] /\ Sizes'
    <3> DEFINE upper == Min2(loop[d].upper, loop[d].len)
               next == NextReduced(loop[d].len, upper)
    <3>1. loop[d].len \in Nat /\ loop[d].len > 1 /\ upper \in 1..ChunkSize
      BY <1>5 DEF Resize, Shrinks, Min2, TypeOK
    <3>2. next \in 1..ChunkSize
      BY <3>1, ReducedSize
    <3> DEFINE off == loop[d].off
               new == Chunk(d, off, next, upper, 1)
    <3>3. loop' = [loop EXCEPT ![d] = new]
      BY <1>5 DEF Resize
    <3>4. off \in Nat /\ off < Size[d] /\ 1 \in 1..Attempts
      BY LoopFacts
    <3>5. new \in LoopType /\ new.off = off /\ off + new.len <= Size[d]
      <4>1. /\ d \in Downloads /\ off \in Nat /\ off < Size[d]
            /\ next \in 1..ChunkSize /\ upper \in 1..ChunkSize /\ 1 \in 1..Attempts
        BY <3>1, <3>2, <3>4
      <4> HIDE DEF next, upper, off
      <4>2. /\ Chunk(d, off, next, upper, 1)
                 \in [size : 1..ChunkSize, len : Nat \ {0}, off : Nat,
                      upper : 1..ChunkSize, attempt : 1..Attempts]
            /\ Chunk(d, off, next, upper, 1).off = off
            /\ off + Chunk(d, off, next, upper, 1).len <= Size[d]
        BY ONLY <4>1, ChunkType
      <4> QED
        BY <4>2 DEF LoopType
    <3> HIDE DEF new
    <3> QED
      BY <3>3, <3>5 DEF TypeOK, LoopType, Sizes
  <2>5. Owned' /\ cur' \in [Downloads -> Transfers \cup {NoTransfer}]
    BY <2>1, <2>3 DEF Owned, TypeOK
  <2> QED
    BY <2>1, <2>2, <2>3, <2>4, <2>5 DEF RequestsKept, TypeOK
<1>6. ASSUME NEW d \in Downloads, Retry(d)
      PROVE  RequestsKept
  <2>1. cur' = [cur EXCEPT ![d] = NoTransfer] /\ phase[d] = "run" /\ gone' = gone
    BY <1>6 DEF Retry, Return, Finished, rest, response, stream
  <2>2. cache' \in 1..ChunkSize
    BY <1>6 DEF Retry, TypeOK
  <2>3. phase' \in [Downloads -> {"new", "slot", "run", "done"}]
        /\ phase'[d] # "run" /\ \A e \in Downloads : e # d => phase'[e] = phase[e]
    BY <1>6 DEF Retry, TypeOK
  <2>4. loop' \in [Downloads -> LoopType] /\ Sizes'
    <3> DEFINE off == loop[d].off
               size == loop[d].size
               upper == loop[d].upper
               attempt == loop[d].attempt + 1
               new == Chunk(d, off, size, upper, attempt)
    <3>1. loop' = [loop EXCEPT ![d] = new] /\ loop[d].attempt < Attempts
      BY <1>6 DEF Retry, Retries
    <3>2. attempt \in 1..Attempts
      BY <3>1, LoopFacts
    <3>3. off \in Nat /\ off < Size[d] /\ size \in 1..ChunkSize /\ upper \in 1..ChunkSize
      BY LoopFacts
    <3>4. new \in LoopType /\ new.off = off /\ off + new.len <= Size[d]
      <4> HIDE DEF off, size, upper, attempt
      <4> QED
        BY <3>2, <3>3, ChunkType DEF LoopType
    <3> HIDE DEF new
    <3> QED
      BY <3>1, <3>4 DEF TypeOK, LoopType, Sizes
  <2>5. Owned' /\ cur' \in [Downloads -> Transfers \cup {NoTransfer}]
    BY <2>1, <2>3 DEF Owned, TypeOK
  <2> QED
    BY <2>1, <2>2, <2>3, <2>4, <2>5 DEF RequestsKept, TypeOK
<1>7. ASSUME NEW d \in Downloads, GiveUp(d)
      PROVE  RequestsKept
  <2>1. cur' = [cur EXCEPT ![d] = NoTransfer] /\ phase[d] = "run" /\ gone' = gone
    BY <1>7 DEF GiveUp, Fail, Return, Finished, Delivered, rest, stream
  <2>2. cache' \in 1..ChunkSize
    <3>1. CASE cache' = cache
      BY <3>1 DEF TypeOK
    <3>2. CASE loop[d].size > 1 /\ cache' = Min2(cache, NextReduced(loop[d].size, loop[d].size))
      BY <3>2, ReducedSize DEF Min2, TypeOK
    <3> QED
      BY <1>7, <3>1, <3>2 DEF GiveUp
  <2>3. phase' \in [Downloads -> {"new", "slot", "run", "done"}]
        /\ phase'[d] # "run" /\ \A e \in Downloads : e # d => phase'[e] = phase[e]
    BY <1>7 DEF GiveUp, Fail, TypeOK
  <2>4. loop' \in [Downloads -> LoopType] /\ Sizes'
    <3>1. First(d, ChunkSize) \in LoopType /\ First(d, ChunkSize).off = 0
          /\ First(d, ChunkSize).len <= Size[d]
      BY FirstType DEF LoopType
    <3>2. loop' = [loop EXCEPT ![d] = First(d, ChunkSize)]
      BY <1>7 DEF GiveUp, Fail
    <3> QED
      BY <3>1, <3>2 DEF TypeOK, LoopType, Sizes
  <2>5. Owned' /\ cur' \in [Downloads -> Transfers \cup {NoTransfer}]
    BY <2>1, <2>3 DEF Owned, TypeOK
  <2> QED
    BY <2>1, <2>2, <2>3, <2>4, <2>5 DEF RequestsKept, TypeOK
<1>8. ASSUME NEW d \in Downloads, Abandon(d)
      PROVE  RequestsKept
  <2>1. cur' = cur /\ phase[d] = "slot" /\ gone' = gone
    BY <1>8 DEF Abandon, Fail, rest, stream
  <2>2. cache' \in 1..ChunkSize
    BY <1>8 DEF Abandon, TypeOK
  <2>3. phase' \in [Downloads -> {"new", "slot", "run", "done"}]
        /\ phase'[d] # "run" /\ \A e \in Downloads : e # d => phase'[e] = phase[e]
    BY <1>8 DEF Abandon, Fail, TypeOK
  <2>4. loop' \in [Downloads -> LoopType] /\ Sizes'
    <3>1. First(d, ChunkSize) \in LoopType /\ First(d, ChunkSize).off = 0
          /\ First(d, ChunkSize).len <= Size[d]
      BY FirstType DEF LoopType
    <3>2. loop' = [loop EXCEPT ![d] = First(d, ChunkSize)]
      BY <1>8 DEF Abandon, Fail
    <3> QED
      BY <3>1, <3>2 DEF TypeOK, LoopType, Sizes
  <2>5. Owned' /\ cur' \in [Downloads -> Transfers \cup {NoTransfer}]
    BY <2>1, <2>3 DEF Owned, TypeOK
  <2> QED
    BY <2>1, <2>2, <2>3, <2>4, <2>5 DEF RequestsKept, TypeOK
<1>9. ASSUME NEW t \in Transfers, Cleanup(t)
      PROVE  RequestsKept
  BY <1>9 DEF Cleanup, request, response, stream, copying, TypeOK, LoopType, Sizes, Owned, RequestsKept
<1>10. ASSUME NEW t \in Transfers, WriteUnit(t)
      PROVE  RequestsKept
  BY <1>10 DEF WriteUnit, request, stream, TypeOK, LoopType, Sizes, Owned, RequestsKept
<1>11. ASSUME NEW t \in Transfers, WriteFails(t)
      PROVE  RequestsKept
  BY <1>11 DEF WriteFails, request, response, stream, TypeOK, LoopType, Sizes, Owned, RequestsKept
<1>12. ASSUME NEW t \in Transfers, NEW err \in {"none", "pipe", "reset", "other"}, CopyEnds(t, err)
      PROVE  RequestsKept
  BY <1>12 DEF CopyEnds, request, response, stream, TypeOK, LoopType, Sizes, Owned, RequestsKept
<1>13. ASSUME NEW t \in Transfers, NEW res \in Results, CallReturns(t, res)
      PROVE  RequestsKept
  BY <1>13 DEF CallReturns, request, response, stream, copying, TypeOK, LoopType, Sizes, Owned, RequestsKept
<1>14. ASSUME NEW t \in Transfers, Hand(t)
      PROVE  RequestsKept
  BY <1>14 DEF Hand, request, response, TypeOK, LoopType, Sizes, Owned, RequestsKept
<1>15. ASSUME NEW t \in Transfers, AgentFinishes(t)
      PROVE  RequestsKept
  BY <1>15 DEF AgentFinishes, request, response, copying, TypeOK, LoopType, Sizes, Owned, RequestsKept
<1>16. ASSUME NEW t \in Transfers, AgentCloses(t)
      PROVE  RequestsKept
  BY <1>16 DEF AgentCloses, request, response, copying, TypeOK, LoopType, Sizes, Owned, RequestsKept
<1>17. ASSUME NEW t \in Transfers, AgentFails(t)
      PROVE  RequestsKept
  BY <1>17 DEF AgentFails, request, response, copying, TypeOK, LoopType, Sizes, Owned, RequestsKept
<1>18. ASSUME NEW t \in Transfers, Connect(t)
      PROVE  RequestsKept
  BY <1>18 DEF Connect, request, response, copying, TypeOK, LoopType, Sizes, Owned, RequestsKept
<1>19. ASSUME NEW t \in Transfers, Reject(t)
      PROVE  RequestsKept
  BY <1>19 DEF Reject, request, response, stream, copying, TypeOK, LoopType, Sizes, Owned, RequestsKept
<1>20. CASE UNCHANGED vars
  BY <1>20 DEF vars, request, response, stream, copying, TypeOK, LoopType, Sizes, Owned, RequestsKept
<1> QED
  BY <1>1, <1>2, <1>3, <1>4, <1>5, <1>6, <1>7, <1>8, <1>9, <1>10, <1>11, <1>12, <1>13, <1>14, <1>15, <1>16, <1>17, <1>18, <1>19, <1>20
  DEF Next, Handler, Goroutines, Outside, Copier

\* The transfers and their goroutines.
LEMMA StreamsStep ==
  ASSUME Inv, [Next]_vars PROVE StreamsKept
<1> USE RelayAssumption DEF RelayAssumption, Inv
<1>1. ASSUME NEW d \in Downloads, Start(d)
      PROVE  StreamsKept
  <2>1. phase[d] # "run" /\ phase'[d] # "run"
        /\ \A e \in Downloads : e # d => phase'[e] = phase[e] /\ loop'[e] = loop[e]
    BY <1>1 DEF Start, response, stream, copying, TypeOK
  <2>2. UNCHANGED <<cur, out, job, agent, left, copied, copier, copyErr, call>>
    BY <1>1 DEF Start, response, stream, copying
  <2>3. Jobs'
    BY <2>1, <2>2 DEF Jobs, Holding
  <2>4. Copying'
    BY <2>1, <2>2 DEF Copying
  <2> QED
    BY <2>2, <2>3, <2>4 DEF TypeOK, StreamsKept
<1>2. ASSUME NEW d \in Downloads, Leave(d)
      PROVE  StreamsKept
  BY <1>2 DEF Leave, request, response, stream, copying, TypeOK, Owned, Jobs, Copying, Holding, StreamsKept
<1>3. ASSUME NEW d \in Downloads, NEW t \in Transfers, NewTransfer(d, t)
      PROVE  StreamsKept
  <2>1. /\ phase[d] = "slot" /\ phase' = [phase EXCEPT ![d] = "run"]
        /\ cur' = [cur EXCEPT ![d] = t] /\ UNCHANGED <<loop, out>>
        /\ job' = [job EXCEPT ![t] = [owner |-> d, first |-> loop[d].off, len |-> loop[d].len]]
        /\ agent' = [agent EXCEPT ![t] = "away"]
        /\ left' = [left EXCEPT ![t] = loop[d].len] /\ copied' = [copied EXCEPT ![t] = 0]
        /\ copier' = [copier EXCEPT ![t] = "reading"] /\ copyErr' = [copyErr EXCEPT ![t] = "none"]
        /\ call' = [call EXCEPT ![t] = "running"]
    BY <1>3 DEF NewTransfer, response
  <2>2. job' \in [Transfers -> [owner : Downloads \cup {Nobody}, first : Nat, len : Nat]]
    BY <2>1 DEF TypeOK
  <2>3. \A e \in Downloads : cur[e] # t
    BY <1>3 DEF NewTransfer, Unused
  <2>4. Jobs'
    BY <2>1, <2>3 DEF Jobs, Owned, Waiting, Holding, TypeOK
  <2>5. Copying'
    BY <2>1, <2>3 DEF Copying, TypeOK
  <2> QED
    BY <2>1, <2>2, <2>4, <2>5 DEF StreamsKept, TypeOK
<1>4. ASSUME NEW d \in Downloads, NextChunk(d)
      PROVE  StreamsKept
  <2>1. /\ job' = [job EXCEPT ![cur[d]] = NoJob] /\ copied' = [copied EXCEPT ![cur[d]] = 0]
        /\ copyErr' = [copyErr EXCEPT ![cur[d]] = "none"] /\ call' = [call EXCEPT ![cur[d]] = "ok"]
        /\ agent' = [agent EXCEPT ![cur[d]] = "away"] /\ left' = [left EXCEPT ![cur[d]] = 0]
        /\ UNCHANGED copier /\ cur' = [cur EXCEPT ![d] = NoTransfer]
        /\ phase[d] = "run" /\ copier[cur[d]] = "done"
    BY <1>4 DEF NextChunk, Return, Finished, Delivered, rest, stream
  <2>2. /\ phase'[d] # "run"
        /\ \A e \in Downloads : e # d => phase'[e] = phase[e] /\ loop'[e] = loop[e]
    BY <1>4 DEF NextChunk, Return, Finished, Delivered, rest, stream, TypeOK
  <2>3. out' = out
    BY <1>4 DEF NextChunk, Return, Finished, Delivered, rest, stream
  <2>4. job' \in [Transfers -> [owner : Downloads \cup {Nobody}, first : Nat, len : Nat]]
    BY <2>1 DEF NoJob, TypeOK
  <2>5. cur[d] \in Transfers /\ \A e \in Downloads : e # d => cur[e] # cur[d]
    BY <2>1 DEF Owned, TypeOK
  <2>6. Jobs'
    <3> SUFFICES ASSUME NEW e \in Downloads, phase'[e] = "run"
        PROVE /\ job'[cur'[e]].owner = e /\ job'[cur'[e]].first = loop'[e].off
              /\ job'[cur'[e]].len = loop'[e].len
              /\ out'[e] = loop'[e].off + copied'[cur'[e]]
              /\ copied'[cur'[e]] + Holding(cur[e])' + left'[cur'[e]] <= loop'[e].len
              /\ copier'[cur'[e]] = "done" /\ copyErr'[cur'[e]] = "none"
                 => copied'[cur'[e]] = loop'[e].len
      BY DEF Jobs
    <3>1. e # d /\ phase[e] = "run" /\ loop'[e] = loop[e] /\ cur'[e] = cur[e] /\ cur[e] # cur[d]
          /\ cur[e] \in Transfers
      BY <2>1, <2>2, <2>5 DEF Owned, TypeOK
    <3>2. /\ job'[cur[e]] = job[cur[e]] /\ copied'[cur[e]] = copied[cur[e]]
          /\ copyErr'[cur[e]] = copyErr[cur[e]] /\ left'[cur[e]] = left[cur[e]]
      BY <2>1, <3>1 DEF TypeOK
    <3> QED
      BY <2>1, <2>3, <3>1, <3>2 DEF Jobs, Holding
  <2>7. Copying'
    <3> SUFFICES ASSUME NEW t \in Transfers, copier[t] # "done"
        PROVE  \E e \in Downloads : phase'[e] = "run" /\ cur'[e] = t
      BY <2>1 DEF Copying
    <3>1. PICK e \in Downloads : phase[e] = "run" /\ cur[e] = t
      BY DEF Copying
    <3>2. e # d
      BY <2>1, <3>1
    <3>3. phase'[e] = "run" /\ cur'[e] = t
      BY <2>1, <2>2, <3>1, <3>2 DEF TypeOK
    <3> QED
      BY <3>3
  <2> QED
    <3>1. agent' \in [Transfers -> {"away", "sending", "sent", "failed", "gone"}]
      BY <2>1 DEF TypeOK
    <3>2. left' \in [Transfers -> Nat] /\ copied' \in [Transfers -> Nat]
      BY <2>1 DEF TypeOK
    <3>3. copyErr' \in [Transfers -> {"none", "pipe", "reset", "other"}]
      BY <2>1 DEF TypeOK
    <3>4. call' \in [Transfers -> Results \cup {"running"}]
      BY <2>1 DEF TypeOK, Results
    <3>5. copier' \in [Transfers -> {"reading", "holding", "done"}]
      BY <2>1 DEF TypeOK
    <3> QED
      BY <2>4, <2>6, <2>7, <3>1, <3>2, <3>3, <3>4, <3>5 DEF StreamsKept
<1>5. ASSUME NEW d \in Downloads, Resize(d)
      PROVE  StreamsKept
  <2>1. /\ job' = [job EXCEPT ![cur[d]] = NoJob] /\ copied' = [copied EXCEPT ![cur[d]] = 0]
        /\ copyErr' = [copyErr EXCEPT ![cur[d]] = "none"] /\ call' = [call EXCEPT ![cur[d]] = "ok"]
        /\ agent' = [agent EXCEPT ![cur[d]] = "away"] /\ left' = [left EXCEPT ![cur[d]] = 0]
        /\ UNCHANGED copier /\ cur' = [cur EXCEPT ![d] = NoTransfer]
        /\ phase[d] = "run" /\ copier[cur[d]] = "done"
    BY <1>5 DEF Resize, Return, Finished, rest, response, stream
  <2>2. /\ phase'[d] # "run"
        /\ \A e \in Downloads : e # d => phase'[e] = phase[e] /\ loop'[e] = loop[e]
    BY <1>5 DEF Resize, Return, Finished, rest, response, stream, TypeOK
  <2>3. out' = out
    BY <1>5 DEF Resize, Return, Finished, rest, response, stream
  <2>4. job' \in [Transfers -> [owner : Downloads \cup {Nobody}, first : Nat, len : Nat]]
    BY <2>1 DEF NoJob, TypeOK
  <2>5. cur[d] \in Transfers /\ \A e \in Downloads : e # d => cur[e] # cur[d]
    BY <2>1 DEF Owned, TypeOK
  <2>6. Jobs'
    <3> SUFFICES ASSUME NEW e \in Downloads, phase'[e] = "run"
        PROVE /\ job'[cur'[e]].owner = e /\ job'[cur'[e]].first = loop'[e].off
              /\ job'[cur'[e]].len = loop'[e].len
              /\ out'[e] = loop'[e].off + copied'[cur'[e]]
              /\ copied'[cur'[e]] + Holding(cur[e])' + left'[cur'[e]] <= loop'[e].len
              /\ copier'[cur'[e]] = "done" /\ copyErr'[cur'[e]] = "none"
                 => copied'[cur'[e]] = loop'[e].len
      BY DEF Jobs
    <3>1. e # d /\ phase[e] = "run" /\ loop'[e] = loop[e] /\ cur'[e] = cur[e] /\ cur[e] # cur[d]
          /\ cur[e] \in Transfers
      BY <2>1, <2>2, <2>5 DEF Owned, TypeOK
    <3>2. /\ job'[cur[e]] = job[cur[e]] /\ copied'[cur[e]] = copied[cur[e]]
          /\ copyErr'[cur[e]] = copyErr[cur[e]] /\ left'[cur[e]] = left[cur[e]]
      BY <2>1, <3>1 DEF TypeOK
    <3> QED
      BY <2>1, <2>3, <3>1, <3>2 DEF Jobs, Holding
  <2>7. Copying'
    <3> SUFFICES ASSUME NEW t \in Transfers, copier[t] # "done"
        PROVE  \E e \in Downloads : phase'[e] = "run" /\ cur'[e] = t
      BY <2>1 DEF Copying
    <3>1. PICK e \in Downloads : phase[e] = "run" /\ cur[e] = t
      BY DEF Copying
    <3>2. e # d
      BY <2>1, <3>1
    <3>3. phase'[e] = "run" /\ cur'[e] = t
      BY <2>1, <2>2, <3>1, <3>2 DEF TypeOK
    <3> QED
      BY <3>3
  <2> QED
    <3>1. agent' \in [Transfers -> {"away", "sending", "sent", "failed", "gone"}]
      BY <2>1 DEF TypeOK
    <3>2. left' \in [Transfers -> Nat] /\ copied' \in [Transfers -> Nat]
      BY <2>1 DEF TypeOK
    <3>3. copyErr' \in [Transfers -> {"none", "pipe", "reset", "other"}]
      BY <2>1 DEF TypeOK
    <3>4. call' \in [Transfers -> Results \cup {"running"}]
      BY <2>1 DEF TypeOK, Results
    <3>5. copier' \in [Transfers -> {"reading", "holding", "done"}]
      BY <2>1 DEF TypeOK
    <3> QED
      BY <2>4, <2>6, <2>7, <3>1, <3>2, <3>3, <3>4, <3>5 DEF StreamsKept
<1>6. ASSUME NEW d \in Downloads, Retry(d)
      PROVE  StreamsKept
  <2>1. /\ job' = [job EXCEPT ![cur[d]] = NoJob] /\ copied' = [copied EXCEPT ![cur[d]] = 0]
        /\ copyErr' = [copyErr EXCEPT ![cur[d]] = "none"] /\ call' = [call EXCEPT ![cur[d]] = "ok"]
        /\ agent' = [agent EXCEPT ![cur[d]] = "away"] /\ left' = [left EXCEPT ![cur[d]] = 0]
        /\ UNCHANGED copier /\ cur' = [cur EXCEPT ![d] = NoTransfer]
        /\ phase[d] = "run" /\ copier[cur[d]] = "done"
    BY <1>6 DEF Retry, Return, Finished, rest, response, stream
  <2>2. /\ phase'[d] # "run"
        /\ \A e \in Downloads : e # d => phase'[e] = phase[e] /\ loop'[e] = loop[e]
    BY <1>6 DEF Retry, Return, Finished, rest, response, stream, TypeOK
  <2>3. out' = out
    BY <1>6 DEF Retry, Return, Finished, rest, response, stream
  <2>4. job' \in [Transfers -> [owner : Downloads \cup {Nobody}, first : Nat, len : Nat]]
    BY <2>1 DEF NoJob, TypeOK
  <2>5. cur[d] \in Transfers /\ \A e \in Downloads : e # d => cur[e] # cur[d]
    BY <2>1 DEF Owned, TypeOK
  <2>6. Jobs'
    <3> SUFFICES ASSUME NEW e \in Downloads, phase'[e] = "run"
        PROVE /\ job'[cur'[e]].owner = e /\ job'[cur'[e]].first = loop'[e].off
              /\ job'[cur'[e]].len = loop'[e].len
              /\ out'[e] = loop'[e].off + copied'[cur'[e]]
              /\ copied'[cur'[e]] + Holding(cur[e])' + left'[cur'[e]] <= loop'[e].len
              /\ copier'[cur'[e]] = "done" /\ copyErr'[cur'[e]] = "none"
                 => copied'[cur'[e]] = loop'[e].len
      BY DEF Jobs
    <3>1. e # d /\ phase[e] = "run" /\ loop'[e] = loop[e] /\ cur'[e] = cur[e] /\ cur[e] # cur[d]
          /\ cur[e] \in Transfers
      BY <2>1, <2>2, <2>5 DEF Owned, TypeOK
    <3>2. /\ job'[cur[e]] = job[cur[e]] /\ copied'[cur[e]] = copied[cur[e]]
          /\ copyErr'[cur[e]] = copyErr[cur[e]] /\ left'[cur[e]] = left[cur[e]]
      BY <2>1, <3>1 DEF TypeOK
    <3> QED
      BY <2>1, <2>3, <3>1, <3>2 DEF Jobs, Holding
  <2>7. Copying'
    <3> SUFFICES ASSUME NEW t \in Transfers, copier[t] # "done"
        PROVE  \E e \in Downloads : phase'[e] = "run" /\ cur'[e] = t
      BY <2>1 DEF Copying
    <3>1. PICK e \in Downloads : phase[e] = "run" /\ cur[e] = t
      BY DEF Copying
    <3>2. e # d
      BY <2>1, <3>1
    <3>3. phase'[e] = "run" /\ cur'[e] = t
      BY <2>1, <2>2, <3>1, <3>2 DEF TypeOK
    <3> QED
      BY <3>3
  <2> QED
    <3>1. agent' \in [Transfers -> {"away", "sending", "sent", "failed", "gone"}]
      BY <2>1 DEF TypeOK
    <3>2. left' \in [Transfers -> Nat] /\ copied' \in [Transfers -> Nat]
      BY <2>1 DEF TypeOK
    <3>3. copyErr' \in [Transfers -> {"none", "pipe", "reset", "other"}]
      BY <2>1 DEF TypeOK
    <3>4. call' \in [Transfers -> Results \cup {"running"}]
      BY <2>1 DEF TypeOK, Results
    <3>5. copier' \in [Transfers -> {"reading", "holding", "done"}]
      BY <2>1 DEF TypeOK
    <3> QED
      BY <2>4, <2>6, <2>7, <3>1, <3>2, <3>3, <3>4, <3>5 DEF StreamsKept
<1>7. ASSUME NEW d \in Downloads, GiveUp(d)
      PROVE  StreamsKept
  <2>1. /\ job' = [job EXCEPT ![cur[d]] = NoJob] /\ copied' = [copied EXCEPT ![cur[d]] = 0]
        /\ copyErr' = [copyErr EXCEPT ![cur[d]] = "none"] /\ call' = [call EXCEPT ![cur[d]] = "ok"]
        /\ agent' = [agent EXCEPT ![cur[d]] = "away"] /\ left' = [left EXCEPT ![cur[d]] = 0]
        /\ UNCHANGED copier /\ cur' = [cur EXCEPT ![d] = NoTransfer]
        /\ phase[d] = "run" /\ copier[cur[d]] = "done"
    BY <1>7 DEF GiveUp, Fail, Return, Finished, Delivered, rest, stream
  <2>2. /\ phase'[d] # "run"
        /\ \A e \in Downloads : e # d => phase'[e] = phase[e] /\ loop'[e] = loop[e]
    BY <1>7 DEF GiveUp, Fail, Return, Finished, Delivered, rest, stream, TypeOK
  <2>3. out' = out
    BY <1>7 DEF GiveUp, Fail, Return, Finished, Delivered, rest, stream
  <2>4. job' \in [Transfers -> [owner : Downloads \cup {Nobody}, first : Nat, len : Nat]]
    BY <2>1 DEF NoJob, TypeOK
  <2>5. cur[d] \in Transfers /\ \A e \in Downloads : e # d => cur[e] # cur[d]
    BY <2>1 DEF Owned, TypeOK
  <2>6. Jobs'
    <3> SUFFICES ASSUME NEW e \in Downloads, phase'[e] = "run"
        PROVE /\ job'[cur'[e]].owner = e /\ job'[cur'[e]].first = loop'[e].off
              /\ job'[cur'[e]].len = loop'[e].len
              /\ out'[e] = loop'[e].off + copied'[cur'[e]]
              /\ copied'[cur'[e]] + Holding(cur[e])' + left'[cur'[e]] <= loop'[e].len
              /\ copier'[cur'[e]] = "done" /\ copyErr'[cur'[e]] = "none"
                 => copied'[cur'[e]] = loop'[e].len
      BY DEF Jobs
    <3>1. e # d /\ phase[e] = "run" /\ loop'[e] = loop[e] /\ cur'[e] = cur[e] /\ cur[e] # cur[d]
          /\ cur[e] \in Transfers
      BY <2>1, <2>2, <2>5 DEF Owned, TypeOK
    <3>2. /\ job'[cur[e]] = job[cur[e]] /\ copied'[cur[e]] = copied[cur[e]]
          /\ copyErr'[cur[e]] = copyErr[cur[e]] /\ left'[cur[e]] = left[cur[e]]
      BY <2>1, <3>1 DEF TypeOK
    <3> QED
      BY <2>1, <2>3, <3>1, <3>2 DEF Jobs, Holding
  <2>7. Copying'
    <3> SUFFICES ASSUME NEW t \in Transfers, copier[t] # "done"
        PROVE  \E e \in Downloads : phase'[e] = "run" /\ cur'[e] = t
      BY <2>1 DEF Copying
    <3>1. PICK e \in Downloads : phase[e] = "run" /\ cur[e] = t
      BY DEF Copying
    <3>2. e # d
      BY <2>1, <3>1
    <3>3. phase'[e] = "run" /\ cur'[e] = t
      BY <2>1, <2>2, <3>1, <3>2 DEF TypeOK
    <3> QED
      BY <3>3
  <2> QED
    <3>1. agent' \in [Transfers -> {"away", "sending", "sent", "failed", "gone"}]
      BY <2>1 DEF TypeOK
    <3>2. left' \in [Transfers -> Nat] /\ copied' \in [Transfers -> Nat]
      BY <2>1 DEF TypeOK
    <3>3. copyErr' \in [Transfers -> {"none", "pipe", "reset", "other"}]
      BY <2>1 DEF TypeOK
    <3>4. call' \in [Transfers -> Results \cup {"running"}]
      BY <2>1 DEF TypeOK, Results
    <3>5. copier' \in [Transfers -> {"reading", "holding", "done"}]
      BY <2>1 DEF TypeOK
    <3> QED
      BY <2>4, <2>6, <2>7, <3>1, <3>2, <3>3, <3>4, <3>5 DEF StreamsKept
<1>8. ASSUME NEW d \in Downloads, Abandon(d)
      PROVE  StreamsKept
  <2>1. phase[d] # "run" /\ phase'[d] # "run"
        /\ \A e \in Downloads : e # d => phase'[e] = phase[e] /\ loop'[e] = loop[e]
    BY <1>8 DEF Abandon, Fail, rest, stream, TypeOK
  <2>2. UNCHANGED <<cur, out, job, agent, left, copied, copier, copyErr, call>>
    BY <1>8 DEF Abandon, Fail, rest, stream
  <2>3. Jobs'
    BY <2>1, <2>2 DEF Jobs, Holding
  <2>4. Copying'
    BY <2>1, <2>2 DEF Copying
  <2> QED
    BY <2>2, <2>3, <2>4 DEF TypeOK, StreamsKept
<1>9. ASSUME NEW t \in Transfers, Cleanup(t)
      PROVE  StreamsKept
  BY <1>9 DEF Cleanup, request, response, stream, copying, TypeOK, Owned, Jobs, Copying, Holding, StreamsKept
<1>10. ASSUME NEW t \in Transfers, WriteUnit(t)
      PROVE  StreamsKept
  <2>1. PICK d \in Downloads : phase[d] = "run" /\ cur[d] = t
    BY <1>10 DEF WriteUnit, Copying
  <2>2. job[t].owner = d
    BY <2>1 DEF Jobs
  <2>3. /\ copier[t] = "holding" /\ copier' = [copier EXCEPT ![t] = "reading"]
        /\ copied' = [copied EXCEPT ![t] = @ + 1] /\ out' = [out EXCEPT ![d] = @ + 1]
        /\ UNCHANGED <<phase, loop, cur, job, agent, left, copyErr, call>>
    BY <1>10, <2>2 DEF WriteUnit, request, stream
  <2>4. Jobs'
    BY <2>1, <2>3 DEF Jobs, Owned, Holding, TypeOK
  <2>5. Copying'
    BY <2>3 DEF Copying, TypeOK
  <2> QED
    BY <2>3, <2>4, <2>5 DEF StreamsKept, TypeOK
<1>11. ASSUME NEW t \in Transfers, WriteFails(t)
      PROVE  StreamsKept
  BY <1>11 DEF WriteFails, request, response, stream, TypeOK, Owned, Jobs, Copying, Holding, StreamsKept
<1>12. ASSUME NEW t \in Transfers, NEW err \in {"none", "pipe", "reset", "other"}, CopyEnds(t, err)
      PROVE  StreamsKept
  <2>1. /\ copier[t] = "reading" /\ err \in ReadErrors(t)
        /\ copier' = [copier EXCEPT ![t] = "done"] /\ copyErr' = [copyErr EXCEPT ![t] = err]
        /\ UNCHANGED <<phase, loop, cur, out, job, agent, left, copied, call>>
    BY <1>12 DEF CopyEnds, request, response, stream
  <2>2. err = "none" => copied[t] = job[t].len
    <3>1. pipe[t] \in {"eof", "torn", "shut"}
      BY <1>12 DEF CopyEnds, TypeOK
    <3>2. CASE pipe[t] = "eof"
      BY <2>1, <3>2 DEF ReadErrors
    <3>3. CASE pipe[t] = "torn"
      BY <2>1, <3>3 DEF ReadErrors
    <3>4. CASE pipe[t] = "shut"
      BY <2>1, <3>4 DEF ReadErrors
    <3> QED
      BY <3>1, <3>2, <3>3, <3>4
  <2>3. Jobs'
    BY <2>1, <2>2 DEF Jobs, Holding, TypeOK
  <2> QED
    BY <2>1, <2>3 DEF Copying, StreamsKept, TypeOK
<1>13. ASSUME NEW t \in Transfers, NEW res \in Results, CallReturns(t, res)
      PROVE  StreamsKept
  BY <1>13 DEF CallReturns, request, response, stream, copying, TypeOK, Owned, Jobs, Copying, Holding, StreamsKept
<1>14. ASSUME NEW t \in Transfers, Hand(t)
      PROVE  StreamsKept
  BY <1>14 DEF Hand, request, response, TypeOK, Owned, Jobs, Copying, Holding, StreamsKept
<1>15. ASSUME NEW t \in Transfers, AgentFinishes(t)
      PROVE  StreamsKept
  BY <1>15 DEF AgentFinishes, request, response, copying, TypeOK, Owned, Jobs, Copying, Holding, StreamsKept
<1>16. ASSUME NEW t \in Transfers, AgentCloses(t)
      PROVE  StreamsKept
  BY <1>16 DEF AgentCloses, request, response, copying, TypeOK, Owned, Jobs, Copying, Holding, StreamsKept
<1>17. ASSUME NEW t \in Transfers, AgentFails(t)
      PROVE  StreamsKept
  BY <1>17 DEF AgentFails, request, response, copying, TypeOK, Owned, Jobs, Copying, Holding, StreamsKept
<1>18. ASSUME NEW t \in Transfers, Connect(t)
      PROVE  StreamsKept
  BY <1>18 DEF Connect, request, response, copying, TypeOK, Owned, Jobs, Copying, Holding, StreamsKept
<1>19. ASSUME NEW t \in Transfers, Reject(t)
      PROVE  StreamsKept
  BY <1>19 DEF Reject, request, response, stream, copying, TypeOK, Owned, Jobs, Copying, Holding, StreamsKept
<1>20. CASE UNCHANGED vars
  BY <1>20 DEF vars, request, response, stream, copying, TypeOK, Owned, Jobs, Copying, Holding, StreamsKept
<1> QED
  BY <1>1, <1>2, <1>3, <1>4, <1>5, <1>6, <1>7, <1>8, <1>9, <1>10, <1>11, <1>12, <1>13, <1>14, <1>15, <1>16, <1>17, <1>18, <1>19, <1>20
  DEF Next, Handler, Goroutines, Outside, Copier

\* The responses.
LEMMA ResponseStep ==
  ASSUME Inv, [Next]_vars PROVE ResponseKept
<1> USE RelayAssumption DEF RelayAssumption, Inv
<1>1. ASSUME NEW d \in Downloads, Start(d)
      PROVE  ResponseKept
  <2>1. UNCHANGED <<out, clean, committed, answer>>
    BY <1>1 DEF Start, response
  <2>2. phase[d] = "new" /\ phase' = [phase EXCEPT ![d] = "slot"] /\ loop'[d].off = 0
        /\ \A e \in Downloads : e # d => loop'[e] = loop[e]
    BY <1>1 DEF Start, First, Chunk, TypeOK
  <2> QED
    BY <2>1, <2>2 DEF Waiting, Headers, ResponseIsPrefix, ResponseKept, TypeOK
<1>2. ASSUME NEW d \in Downloads, Leave(d)
      PROVE  ResponseKept
  BY <1>2 DEF Leave, request, response, stream, copying, TypeOK, Waiting, Headers, ResponseIsPrefix, ResponseKept
<1>3. ASSUME NEW d \in Downloads, NEW t \in Transfers, NewTransfer(d, t)
      PROVE  ResponseKept
  <2>1. UNCHANGED <<out, clean, committed, answer, loop>>
        /\ phase[d] = "slot" /\ phase' = [phase EXCEPT ![d] = "run"]
    BY <1>3 DEF NewTransfer, response
  <2> QED
    BY <2>1 DEF Waiting, Headers, ResponseIsPrefix, ResponseKept, TypeOK
<1>4. ASSUME NEW d \in Downloads, NextChunk(d)
      PROVE  ResponseKept
  <2>1. UNCHANGED <<out, clean, committed>>
    BY <1>4 DEF NextChunk, Return, Finished, Delivered, rest, stream
  <2>2. phase[d] = "run" /\ out[d] = loop[d].off + loop[d].len
    BY <1>4 DEF NextChunk, Finished, Delivered, Jobs
  <2>3. CASE loop[d].off + loop[d].len = Size[d]
    <3>1. phase' = [phase EXCEPT ![d] = "done"] /\ answer' = [answer EXCEPT ![d] = "whole"]
          /\ \A e \in Downloads : e # d => loop'[e] = loop[e]
      BY <1>4, <2>3 DEF NextChunk, TypeOK
    <3> QED
      BY <2>1, <2>2, <2>3, <3>1 DEF Waiting, Headers, ResponseIsPrefix, ResponseKept, TypeOK
  <2>4. CASE loop[d].off + loop[d].len # Size[d]
    <3>1. phase' = [phase EXCEPT ![d] = "slot"] /\ answer' = answer
          /\ loop'[d].off = loop[d].off + loop[d].len
          /\ \A e \in Downloads : e # d => loop'[e] = loop[e]
      BY <1>4, <2>4 DEF NextChunk, Chunk, TypeOK
    <3> QED
      BY <2>1, <2>2, <3>1 DEF Waiting, Headers, ResponseIsPrefix, ResponseKept, TypeOK
  <2> QED
    BY <2>3, <2>4
<1>5. ASSUME NEW d \in Downloads, Resize(d)
      PROVE  ResponseKept
  <2>1. UNCHANGED <<out, clean, committed, answer>>
    BY <1>5 DEF Resize, Return, Finished, rest, response, stream
  <2>2. phase[d] = "run" /\ phase' = [phase EXCEPT ![d] = "slot"] /\ copied[cur[d]] = 0
    BY <1>5 DEF Resize, Return, Finished, rest, response, stream, Shrinks, Retries, Clean
  <2>3. loop'[d].off = loop[d].off /\ \A e \in Downloads : e # d => loop'[e] = loop[e]
    BY <1>5 DEF Resize, Chunk, TypeOK
  <2>4. out[d] = loop[d].off
    BY <2>2 DEF Jobs, TypeOK
  <2> QED
    BY <2>1, <2>2, <2>3, <2>4 DEF Waiting, Headers, ResponseIsPrefix, ResponseKept, TypeOK
<1>6. ASSUME NEW d \in Downloads, Retry(d)
      PROVE  ResponseKept
  <2>1. UNCHANGED <<out, clean, committed, answer>>
    BY <1>6 DEF Retry, Return, Finished, rest, response, stream
  <2>2. phase[d] = "run" /\ phase' = [phase EXCEPT ![d] = "slot"] /\ copied[cur[d]] = 0
    BY <1>6 DEF Retry, Return, Finished, rest, response, stream, Shrinks, Retries, Clean
  <2>3. loop'[d].off = loop[d].off /\ \A e \in Downloads : e # d => loop'[e] = loop[e]
    BY <1>6 DEF Retry, Chunk, TypeOK
  <2>4. out[d] = loop[d].off
    BY <2>2 DEF Jobs, TypeOK
  <2> QED
    BY <2>1, <2>2, <2>3, <2>4 DEF Waiting, Headers, ResponseIsPrefix, ResponseKept, TypeOK
<1>7. ASSUME NEW d \in Downloads, GiveUp(d)
      PROVE  ResponseKept
  <2>1. UNCHANGED <<out, clean, committed>>
    BY <1>7 DEF GiveUp, Fail, Return, Finished, Delivered, rest, stream
  <2>2. phase[d] \in {"run", "slot"} /\ phase' = [phase EXCEPT ![d] = "done"]
        /\ answer' = [answer EXCEPT ![d] = IF committed[d] THEN "broken" ELSE "error"]
        /\ \A e \in Downloads : e # d => loop'[e] = loop[e]
    BY <1>7 DEF GiveUp, Fail, Return, Finished, Delivered, rest, stream, TypeOK
  <2>3. ~committed[d] => out[d] = 0
    BY DEF Headers, TypeOK
  <2> QED
    BY <2>1, <2>2, <2>3 DEF Waiting, Headers, ResponseIsPrefix, ResponseKept, TypeOK
<1>8. ASSUME NEW d \in Downloads, Abandon(d)
      PROVE  ResponseKept
  <2>1. UNCHANGED <<out, clean, committed>>
    BY <1>8 DEF Abandon, Fail, rest, stream
  <2>2. phase[d] \in {"run", "slot"} /\ phase' = [phase EXCEPT ![d] = "done"]
        /\ answer' = [answer EXCEPT ![d] = IF committed[d] THEN "broken" ELSE "error"]
        /\ \A e \in Downloads : e # d => loop'[e] = loop[e]
    BY <1>8 DEF Abandon, Fail, rest, stream, TypeOK
  <2>3. ~committed[d] => out[d] = 0
    BY DEF Headers, TypeOK
  <2> QED
    BY <2>1, <2>2, <2>3 DEF Waiting, Headers, ResponseIsPrefix, ResponseKept, TypeOK
<1>9. ASSUME NEW t \in Transfers, Cleanup(t)
      PROVE  ResponseKept
  BY <1>9 DEF Cleanup, request, response, stream, copying, TypeOK, Waiting, Headers, ResponseIsPrefix, ResponseKept
<1>10. ASSUME NEW t \in Transfers, WriteUnit(t)
      PROVE  ResponseKept
  <2>1. PICK d \in Downloads : phase[d] = "run" /\ cur[d] = t
    BY <1>10 DEF WriteUnit, Copying
  <2>2. job[t].owner = d /\ job[t].first = loop[d].off /\ out[d] = loop[d].off + copied[t]
    BY <2>1 DEF Jobs
  <2> DEFINE set == committed[d] \/ job[t].first = 0
  <2>3. set /\ set \in BOOLEAN
    BY <2>2 DEF Headers, TypeOK
  <2>4. committed' = [committed EXCEPT ![d] = set] /\ out' = [out EXCEPT ![d] = @ + 1]
        /\ clean' = [clean EXCEPT ![d] = @ /\ set /\ out[d] = job[t].first + copied[t]]
        /\ UNCHANGED <<phase, loop, answer>>
    BY <1>10, <2>2 DEF WriteUnit, request
  <2>5. committed' \in [Downloads -> BOOLEAN] /\ committed'[d]
        /\ \A e \in Downloads : committed[e] => committed'[e]
    <3> HIDE DEF set
    <3> QED
      BY <2>3, <2>4, ZenonT(60) DEF TypeOK
  <2>6. clean' \in [Downloads -> BOOLEAN] /\ \A e \in Downloads : clean[e] => clean'[e]
    <3>1. set /\ out[d] = job[t].first + copied[t]
      BY <2>2, <2>3
    <3> HIDE DEF set
    <3> QED
      BY <2>4, <3>1, ZenonT(60) DEF TypeOK
  <2>7. out' \in [Downloads -> Nat] /\ \A e \in Downloads : e # d => out'[e] = out[e]
    BY <2>4 DEF TypeOK
  <2>8. answer[d] = "none"
    BY <2>1 DEF Waiting
  <2>9. Headers'
    BY <2>5, <2>7 DEF Headers
  <2>10. Waiting'
    BY <2>1, <2>4, <2>7 DEF Waiting
  <2>11. ResponseIsPrefix'
    BY <2>4, <2>6, <2>7, <2>8 DEF ResponseIsPrefix
  <2> QED
    BY <2>4, <2>5, <2>6, <2>7, <2>9, <2>10, <2>11 DEF ResponseKept, TypeOK
<1>11. ASSUME NEW t \in Transfers, WriteFails(t)
      PROVE  ResponseKept
  <2> DEFINE o == job[t].owner
             set == committed[o] \/ job[t].first = 0
  <2>1. committed' = [committed EXCEPT ![o] = set]
    BY <1>11 DEF WriteFails
  <2>2. set \in BOOLEAN /\ (committed[o] => set)
    OBVIOUS
  <2>3. committed' \in [Downloads -> BOOLEAN] /\ \A d \in Downloads : committed[d] => committed'[d]
    <3>1. committed \in [Downloads -> BOOLEAN]
      BY DEF TypeOK
    <3> HIDE DEF set, o
    <3> QED
      BY ONLY <2>1, <2>2, <3>1, ZenonT(60)
  <2>4. UNCHANGED <<phase, loop, out, clean, answer>>
    BY <1>11 DEF WriteFails, request
  <2>5. Waiting' /\ ResponseIsPrefix'
    BY <2>4 DEF Waiting, ResponseIsPrefix
  <2>6. Headers'
    BY <2>3, <2>4 DEF Headers
  <2> QED
    BY <2>3, <2>4, <2>5, <2>6 DEF ResponseKept, TypeOK
<1>12. ASSUME NEW t \in Transfers, NEW err \in {"none", "pipe", "reset", "other"}, CopyEnds(t, err)
      PROVE  ResponseKept
  BY <1>12 DEF CopyEnds, request, response, stream, TypeOK, Waiting, Headers, ResponseIsPrefix, ResponseKept
<1>13. ASSUME NEW t \in Transfers, NEW res \in Results, CallReturns(t, res)
      PROVE  ResponseKept
  BY <1>13 DEF CallReturns, request, response, stream, copying, TypeOK, Waiting, Headers, ResponseIsPrefix, ResponseKept
<1>14. ASSUME NEW t \in Transfers, Hand(t)
      PROVE  ResponseKept
  BY <1>14 DEF Hand, request, response, TypeOK, Waiting, Headers, ResponseIsPrefix, ResponseKept
<1>15. ASSUME NEW t \in Transfers, AgentFinishes(t)
      PROVE  ResponseKept
  BY <1>15 DEF AgentFinishes, request, response, copying, TypeOK, Waiting, Headers, ResponseIsPrefix, ResponseKept
<1>16. ASSUME NEW t \in Transfers, AgentCloses(t)
      PROVE  ResponseKept
  BY <1>16 DEF AgentCloses, request, response, copying, TypeOK, Waiting, Headers, ResponseIsPrefix, ResponseKept
<1>17. ASSUME NEW t \in Transfers, AgentFails(t)
      PROVE  ResponseKept
  BY <1>17 DEF AgentFails, request, response, copying, TypeOK, Waiting, Headers, ResponseIsPrefix, ResponseKept
<1>18. ASSUME NEW t \in Transfers, Connect(t)
      PROVE  ResponseKept
  BY <1>18 DEF Connect, request, response, copying, TypeOK, Waiting, Headers, ResponseIsPrefix, ResponseKept
<1>19. ASSUME NEW t \in Transfers, Reject(t)
      PROVE  ResponseKept
  BY <1>19 DEF Reject, request, response, stream, copying, TypeOK, Waiting, Headers, ResponseIsPrefix, ResponseKept
<1>20. CASE UNCHANGED vars
  BY <1>20 DEF vars, request, response, stream, copying, TypeOK, Waiting, Headers, ResponseIsPrefix, ResponseKept
<1> QED
  BY <1>1, <1>2, <1>3, <1>4, <1>5, <1>6, <1>7, <1>8, <1>9, <1>10, <1>11, <1>12, <1>13, <1>14, <1>15, <1>16, <1>17, <1>18, <1>19, <1>20
  DEF Next, Handler, Goroutines, Outside, Copier

-----------------------------------------------------------------------------
THEOREM Invariance == Spec => []Inv
<1>1. ASSUME Inv, [Next]_vars PROVE Inv'
  <2>1. SlotsKept /\ RequestsKept /\ StreamsKept /\ ResponseKept
    BY <1>1, SlotsStep, RequestsStep, StreamsStep, ResponseStep
  <2>2. TypeOK'
    BY <2>1 DEF SlotsKept, RequestsKept, StreamsKept, ResponseKept, LoopType, TypeOK
  <2> QED
    BY <2>1, <2>2 DEF SlotsKept, RequestsKept, StreamsKept, ResponseKept, Inv
<1> QED
  BY InitInv, <1>1, PTL DEF Spec

\* The variables keep their types.
THEOREM TypeCorrect == Spec => []TypeOK
<1>1. Inv => TypeOK
  BY DEF Inv
<1> QED
  BY Invariance, <1>1, PTL

\* The response is a beginning of the requested range, and all of it when the
\* request ends well (streamDownloadRelay).
THEOREM ResponseSafe == Spec => []ResponseIsPrefix
<1>1. Inv => ResponseIsPrefix
  BY DEF Inv
<1> QED
  BY Invariance, <1>1, PTL

\* Slots are those of the open transfers, and these belong to running requests
\* (newStreamTransfer, close).
THEOREM SlotsSafe == Spec => []SlotsHeldByRequests
<1>1. Inv => SlotsHeldByRequests
  BY DEF Inv
<1> QED
  BY Invariance, <1>1, PTL
=============================================================================
