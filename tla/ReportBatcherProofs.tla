------------------------ MODULE ReportBatcherProofs ------------------------
(***************************************************************************)
(* Theorems about ReportBatcher, for any agents, callers, capacity, chunk  *)
(* size and bounds: nothing accepted is lost, repeated or overtaken, a     *)
(* flush or a stop that returns without error has covered what it          *)
(* promises, and every client is charged exactly what its counter rose.    *)
(*                                                                         *)
(* The first invariant follows a request through the worker.  What was     *)
(* accepted before a flush is bounded by what is accepted now, hence, once *)
(* the request has drained the queues, by what is written or pending       *)
(* (Covered); as long as the request has met no error, the kinds it has    *)
(* passed have nothing pending (Passed).  After a stop was called nothing  *)
(* is accepted any more, so the queues stay empty once its request has     *)
(* drained them (Stopped).                                                 *)
(*                                                                         *)
(* The second follows a client's account.  Its traffic state and its       *)
(* latest stored counter, if there are any, are those of its last written  *)
(* report, and there is a stored counter once a report was written since   *)
(* its records were deleted (Known, Followed).  A batch thus starts where  *)
(* the reports before it ended, and a client's own report makes its        *)
(* counter independent of where the batch started (CourseForgets).  The    *)
(* same holds of what is persisted, for the reports that a crash would     *)
(* leave (KeptKnown, KeptFollowed).                                        *)
(***************************************************************************)
EXTENDS ReportBatcher, SequenceTheorems, WellFoundedInduction, TLAPS

Items == Report \cup Nat

Work == [pc : {"idle", "reports", "pings", "reply", "tick pings", "tick reports", "exited"},
         for : Callers \cup {"none"}, err : BOOLEAN]

Call == [pc : {"ready", "sending", "waiting", "done"},
         reply : {"none", "ok", "error", "stopped", "expired"}, upto : [Kinds -> Nat]]

\* The types of what the theorems are about; the store and the traffic states
\* are not.
FlowType ==
  /\ registered \in BOOLEAN /\ stopping \in BOOLEAN
  /\ queue \in [Kinds -> Seq(Items)] /\ pending \in [Kinds -> Seq(Items)]
  /\ accepted \in [Kinds -> Seq(Items)] /\ written \in [Kinds -> Seq(Items)]
  /\ requests \in Seq(Callers)
  /\ work \in Work /\ calls \in [Callers -> Call]

\* The worker is busy with a caller's request.
Serving == work.pc \in {"reports", "pings", "reply"}

\* A request belongs to a caller that has made its call.
Called ==
  /\ \A c \in Callers : calls[c].pc = "ready" => calls[c] = NoCall
  /\ \A i \in 1..Len(requests) : calls[requests[i]].pc # "ready"
  /\ Serving => work.for \in Callers /\ calls[work.for].pc # "ready"

\* A call covers what is accepted; once its request is served, what is
\* written or pending; once it is answered, what is written.
Covered ==
  /\ \A c \in Callers : \A k \in Kinds : calls[c].upto[k] <= Len(accepted[k])
  /\ Serving => \A k \in Kinds : calls[work.for].upto[k] <= Len(written[k]) + Len(pending[k])
  /\ \A c \in Callers : calls[c].reply = "ok" => \A k \in Kinds : calls[c].upto[k] <= Len(written[k])

\* A request without an error has nothing pending of the kinds it has passed.
Passed ==
  /\ work.pc \in {"pings", "reply"} /\ ~work.err => pending["report"] = <<>>
  /\ work.pc = "reply" /\ ~work.err => pending["ping"] = <<>>

\* A stop that has been called has stopped the producers, whom only a stop
\* leaves without a worker; its request has emptied the queues.
Stopped ==
  /\ ~registered => \A c \in Stoppers : calls[c].pc # "ready"
  /\ \A c \in Stoppers : calls[c].pc # "ready" => stopping
  /\ Serving /\ work.for \in Stoppers => \A k \in Kinds : queue[k] = <<>>
  /\ \A c \in Stoppers : calls[c].reply = "ok" =>
       work.pc = "exited" /\ \A k \in Kinds : queue[k] = <<>> /\ pending[k] = <<>>

Inv == FlowType /\ AcceptedInOrder /\ Called /\ Covered /\ Passed /\ Stopped

flow == <<registered, stopping, channels, work, calls, accepted, written>>

\* No more is persisted than was written.
Persisted ==
  durable \in [Kinds -> Nat] /\ \A k \in Kinds : durable[k] <= Len(written[k])

-----------------------------------------------------------------------------
(* Sequences: what is written, pending and queued, joined. *)

LEMMA JoinAssociative ==
  \A w, p, q \in Seq(Items) : (w \o p) \o q = w \o (p \o q)
<1> SUFFICES ASSUME NEW w \in Seq(Items), NEW p \in Seq(Items), NEW q \in Seq(Items)
             PROVE  (w \o p) \o q = w \o (p \o q)
  OBVIOUS
<1> QED
  BY ONLY ConcatAssociative, w \in Seq(Items), p \in Seq(Items), q \in Seq(Items), SMT

LEMMA JoinAppend ==
  \A w, p, q \in Seq(Items) : \A e \in Items :
    (w \o p) \o Append(q, e) = Append((w \o p) \o q, e)
<1> SUFFICES ASSUME NEW w \in Seq(Items), NEW p \in Seq(Items), NEW q \in Seq(Items),
                    NEW e \in Items
             PROVE  (w \o p) \o Append(q, e) = Append((w \o p) \o q, e)
  OBVIOUS
<1>1. w \o p \in Seq(Items) /\ (w \o p) \o q \in Seq(Items) /\ <<e>> \in Seq(Items)
  BY ConcatProperties
<1>2. (w \o p) \o Append(q, e) = (w \o p) \o (q \o <<e>>)
  BY AppendIsConcat
<1>3. (w \o p) \o (q \o <<e>>) = ((w \o p) \o q) \o <<e>>
  <2> DEFINE a == w \o p
             b == <<e>>
  <2>1. a \in Seq(Items) /\ b \in Seq(Items)
    BY <1>1
  <2> HIDE DEF a, b
  <2>2. (a \o q) \o b = a \o (q \o b)
    BY ONLY <2>1, q \in Seq(Items), ConcatAssociative
  <2> QED
    BY <2>2, Zenon DEF a, b
<1>4. ((w \o p) \o q) \o <<e>> = Append((w \o p) \o q, e)
  BY <1>1, AppendIsConcat
<1> QED
  BY <1>2, <1>3, <1>4

LEMMA JoinDrain ==
  \A w, p, q \in Seq(Items) : (w \o (p \o q)) \o <<>> = (w \o p) \o q
<1> SUFFICES ASSUME NEW w \in Seq(Items), NEW p \in Seq(Items), NEW q \in Seq(Items)
             PROVE  (w \o (p \o q)) \o <<>> = (w \o p) \o q
  OBVIOUS
<1>1. p \o q \in Seq(Items) /\ w \o (p \o q) \in Seq(Items)
  BY ConcatProperties
<1>2. (w \o (p \o q)) \o <<>> = w \o (p \o q)
  BY <1>1, ConcatEmptySeq
<1>3. (w \o p) \o q = w \o (p \o q)
  BY JoinAssociative, Zenon
<1> QED
  BY <1>2, <1>3

LEMMA JoinEmpty == \A w \in Seq(Items) : w \o <<>> = w /\ (w \o <<>>) \o <<>> = w
BY ConcatEmptySeq

LEMMA JoinWrite == \A w, p \in Seq(Items) : (w \o p) \o <<>> = w \o p
BY ConcatProperties, ConcatEmptySeq

LEMMA JoinChunk ==
  ASSUME NEW w \in Seq(Items), NEW p \in Seq(Items), NEW n \in 1..Len(p)
  PROVE  /\ SubSeq(p, 1, n) \in Seq(Items) /\ SubSeq(p, n + 1, Len(p)) \in Seq(Items)
         /\ Len(SubSeq(p, 1, n)) = n /\ Len(SubSeq(p, n + 1, Len(p))) = Len(p) - n
         /\ (w \o SubSeq(p, 1, n)) \o SubSeq(p, n + 1, Len(p)) = w \o p
<1>1. Len(p) \in Nat /\ \A i \in 1..Len(p) : p[i] \in Items
  BY LenProperties, ElementOfSeq
<1>2. SubSeq(p, 1, n) \in Seq(Items) /\ Len(SubSeq(p, 1, n)) = n
  BY <1>1, SubSeqProperties
<1>3. SubSeq(p, n + 1, Len(p)) \in Seq(Items) /\ Len(SubSeq(p, n + 1, Len(p))) = Len(p) - n
  <2>1. \A i \in (n + 1)..Len(p) : p[i] \in Items
    BY <1>1
  <2>2. n + 1 \in Int /\ Len(p) \in Int
    BY <1>1
  <2>3. /\ SubSeq(p, n + 1, Len(p)) \in Seq(Items)
        /\ Len(SubSeq(p, n + 1, Len(p))) = IF n + 1 <= Len(p) THEN Len(p) - (n + 1) + 1 ELSE 0
    BY <2>1, <2>2, SubSeqProperties
  <2> QED
    BY <2>3, <1>1
<1>4. SubSeq(p, 1, n) \o SubSeq(p, n + 1, Len(p)) = p
  <2>1. 1 \in 1..Len(p) + 1 /\ n \in 1 - 1..Len(p) /\ Len(p) \in n..Len(p)
    BY <1>1
  <2>2. SubSeq(p, 1, n) \o SubSeq(p, n + 1, Len(p)) = SubSeq(p, 1, Len(p))
    BY <2>1, ConcatAdjacentSubSeq
  <2> QED
    BY <2>2, SubSeqFull
<1>5. (w \o SubSeq(p, 1, n)) \o SubSeq(p, n + 1, Len(p))
      = w \o (SubSeq(p, 1, n) \o SubSeq(p, n + 1, Len(p)))
  <2> DEFINE a == SubSeq(p, 1, n)
             b == SubSeq(p, n + 1, Len(p))
  <2>1. a \in Seq(Items) /\ b \in Seq(Items)
    BY <1>2, <1>3
  <2> HIDE DEF a, b
  <2>2. (w \o a) \o b = w \o (a \o b)
    BY <2>1, JoinAssociative, Zenon
  <2> QED
    BY <2>2 DEF a, b
<1> QED
  BY <1>2, <1>3, <1>4, <1>5, Zenon

-----------------------------------------------------------------------------
(* The steps. *)

LEMMA InitInv == Init => Inv
<1> SUFFICES ASSUME Init PROVE Inv
  OBVIOUS
<1>1. <<>> \in Seq(Items) /\ <<>> \in Seq(Callers) /\ Len(<<>>) = 0
  BY EmptySeq
<1>2. FlowType
  BY <1>1 DEF Init, FlowType, Work, Call, NoItems, Idle, NoCall
<1>3. AcceptedInOrder
  BY <1>1, JoinEmpty, BatcherAssumption DEF BatcherAssumption, Init, AcceptedInOrder, NoItems
<1>4. ~Serving /\ calls = [c \in Callers |-> NoCall] /\ registered
  BY DEF Init, Serving, Idle
<1>5. Called
  <2>1. \A i \in 1..Len(requests) : FALSE
    BY <1>1 DEF Init
  <2> QED
    BY <1>4, <2>1 DEF Called
<1>6. Covered
  <2>1. \A k \in Kinds : NoCall.upto[k] <= Len(accepted[k]) /\ NoCall.reply # "ok"
    BY <1>1 DEF Init, NoItems, NoCall
  <2> QED
    BY <1>4, <2>1 DEF Covered
<1>7. Passed
  BY DEF Init, Passed, Idle
<1>8. Stopped
  BY <1>4 DEF Stopped, NoCall, Callers
<1> QED
  BY <1>2, <1>3, <1>5, <1>6, <1>7, <1>8 DEF Inv

\* Nothing of this concerns the store, the traffic states or the deletions.
LEMMA FlowSame == Inv /\ UNCHANGED flow => Inv'
<1> SUFFICES ASSUME Inv, UNCHANGED flow PROVE Inv'
  OBVIOUS
<1> USE DEF flow, channels
<1>1. FlowType'
  BY DEF Inv, FlowType
<1>2. AcceptedInOrder'
  BY DEF Inv, AcceptedInOrder
<1>3. Called'
  BY DEF Inv, Called, Serving
<1>4. Covered'
  BY DEF Inv, Covered, Serving
<1>5. Passed'
  BY DEF Inv, Passed
<1>6. Stopped'
  BY DEF Inv, Stopped, Serving
<1> QED
  BY <1>1, <1>2, <1>3, <1>4, <1>5, <1>6 DEF Inv

\* Numbers that are compared.
LEMMA Numbers ==
  ASSUME FlowType
  PROVE  /\ \A c \in Callers : \A k \in Kinds : calls[c].upto[k] \in Nat
         /\ \A k \in Kinds : /\ Len(queue[k]) \in Nat /\ Len(pending[k]) \in Nat
                            /\ Len(accepted[k]) \in Nat /\ Len(written[k]) \in Nat
<1>1. \A c \in Callers : calls[c].upto \in [Kinds -> Nat]
  BY DEF FlowType, Call
<1>2. \A k \in Kinds : /\ queue[k] \in Seq(Items) /\ pending[k] \in Seq(Items)
                      /\ accepted[k] \in Seq(Items) /\ written[k] \in Seq(Items)
  BY DEF FlowType
<1>3. \A s \in Seq(Items) : Len(s) \in Nat
  BY LenProperties
<1> QED
  BY <1>1, <1>2, <1>3

\* Comparisons of lengths.
LEMMA AtMost ==
  /\ \A a, b, c \in Nat : a <= b /\ b <= c => a <= c
  /\ \A a, b, c, d, e \in Nat : a <= b + c /\ d + e >= b + c => a <= d + e
  /\ \A a, b, c, d : a \in Nat /\ b \in Nat /\ c = b + a /\ d = 0 => d <= a /\ c >= b
  /\ \A a, b, c \in Nat : c >= b => a + c >= a + b
  /\ \A a, b \in Nat : a <= a /\ a >= a /\ a + b >= a + b
  /\ \A a, b, c, d : a \in Nat /\ b \in Nat /\ c = a + b /\ d = 0 => c >= a /\ c + d >= a + b
OBVIOUS

\* A producer appends to what is queued and to what is accepted.
LEMMA EnqueueStep ==
  ASSUME Inv, NEW k \in Kinds, NEW item \in Items, Enqueue(k, item)
  PROVE  Inv'
<1> DEFINE q == Append(queue[k], item)
           a == Append(accepted[k], item)
<1>1. /\ ~stopping /\ Len(queue[k]) < Capacity
      /\ queue' = [queue EXCEPT ![k] = q] /\ accepted' = [accepted EXCEPT ![k] = a]
      /\ UNCHANGED <<registered, stopping, requests, pending, work, calls, written>>
  BY DEF Enqueue, Accepts
<1>2. /\ queue[k] \in Seq(Items) /\ accepted[k] \in Seq(Items)
      /\ written[k] \in Seq(Items) /\ pending[k] \in Seq(Items)
  BY DEF Inv, FlowType
<1>3. /\ q \in Seq(Items) /\ Len(q) = Len(queue[k]) + 1
      /\ a \in Seq(Items) /\ Len(a) = Len(accepted[k]) + 1
      /\ Len(queue[k]) \in Nat /\ Len(accepted[k]) \in Nat
  BY <1>2, AppendProperties, LenProperties
<1>4. (written[k] \o pending[k]) \o q = a /\ Len(q) <= Capacity
  <2>1. (written[k] \o pending[k]) \o q = a
    <3>1. (written[k] \o pending[k]) \o queue[k] = accepted[k]
      BY DEF Inv, AcceptedInOrder
    <3>2. (written[k] \o pending[k]) \o Append(queue[k], item)
          = Append((written[k] \o pending[k]) \o queue[k], item)
      BY <1>2, JoinAppend, Zenon
    <3> QED
      BY ONLY <3>1, <3>2
  <2>2. Len(q) <= Capacity
    <3> HIDE DEF q
    <3>1. Capacity \in Nat
      BY BatcherAssumption DEF BatcherAssumption
    <3>2. Len(queue[k]) < Capacity /\ Len(q) = Len(queue[k]) + 1 /\ Len(queue[k]) \in Nat
      BY <1>1, <1>3
    <3>3. \A l, m, n : l \in Nat /\ n \in Nat /\ l < n /\ m = l + 1 => m <= n
      OBVIOUS
    <3> QED
      BY <3>1, <3>2, <3>3, Zenon
  <2> QED
    BY <2>1, <2>2
<1> HIDE DEF q, a
<1>5. FlowType'
  BY <1>1, <1>3 DEF Inv, FlowType
<1>6. AcceptedInOrder'
  BY <1>1, <1>4 DEF Inv, FlowType, AcceptedInOrder
<1>7. Called' /\ Passed'
  BY <1>1 DEF Inv, Called, Passed, Serving
<1>8. Covered'
  <2>1. \A c \in Callers : \A l \in Kinds : calls[c].upto[l] <= Len(accepted'[l])
    <3> SUFFICES ASSUME NEW c \in Callers, NEW l \in Kinds
                 PROVE  calls[c].upto[l] <= Len(accepted'[l])
      OBVIOUS
    <3>1. /\ calls[c].upto[l] \in Nat /\ Len(accepted[l]) \in Nat
          /\ Len(accepted[k]) \in Nat
      BY Numbers DEF Inv
    <3>2. calls[c].upto[l] <= Len(accepted[l])
      BY DEF Inv, Covered
    <3>3. accepted'[l] = IF l = k THEN a ELSE accepted[l]
      BY <1>1 DEF Inv, FlowType
    <3> QED
      BY <1>3, <3>1, <3>2, <3>3
  <2> QED
    BY <1>1, <2>1 DEF Inv, Covered, Serving
<1>9. Stopped'
  <2>1. \A c \in Stoppers : calls[c].pc = "ready" /\ calls[c].reply # "ok"
    BY <1>1 DEF Inv, Stopped, Called, NoCall, Callers
  <2>2. ~(Serving /\ work.for \in Stoppers)
    BY <2>1 DEF Inv, Called
  <2> QED
    BY <1>1, <2>1, <2>2 DEF Inv, Stopped, Serving
<1> QED
  BY <1>5, <1>6, <1>7, <1>8, <1>9 DEF Inv

\* A step of a caller changes its call, and with it the slot or the worker's
\* registration.
LEMMA CallStep ==
  ASSUME Inv, NEW c \in Callers, NEW r \in Call,
         calls' = [calls EXCEPT ![c] = r], r.pc # "ready",
         UNCHANGED <<queue, pending, work, accepted, written>>,
         \A k \in Kinds : r.upto[k] <= Len(accepted[k]),
         Serving /\ work.for = c => r.upto = calls[c].upto,
         r.reply = "ok" => \A k \in Kinds : r.upto[k] <= Len(written[k]),
         requests' \in Seq(Callers),
         \A i \in 1..Len(requests') :
           requests'[i] = c \/ \E j \in 1..Len(requests) : requests'[i] = requests[j],
         registered' \in BOOLEAN, stopping' \in BOOLEAN, stopping => stopping',
         c \notin Stoppers => registered' = registered,
         c \in Stoppers => stopping' /\ (r.reply = "ok" => calls[c].reply = "ok")
  PROVE  Inv'
<1>1. \A d \in Callers : calls'[d] = IF d = c THEN r ELSE calls[d]
  BY DEF Inv, FlowType
<1>2. FlowType'
  BY DEF Inv, FlowType
<1>3. AcceptedInOrder' /\ Passed' /\ (Serving' <=> Serving)
  BY DEF Inv, AcceptedInOrder, Passed, Serving
<1>4. Called'
  <2>1. \A d \in Callers : calls'[d].pc = "ready" => calls'[d] = NoCall
    BY <1>1 DEF Inv, Called
  <2>2. \A i \in 1..Len(requests') : calls'[requests'[i]].pc # "ready"
    <3> SUFFICES ASSUME NEW i \in 1..Len(requests') PROVE calls'[requests'[i]].pc # "ready"
      OBVIOUS
    <3>1. requests'[i] \in Callers
      BY ElementOfSeq
    <3> QED
      BY <1>1, <3>1 DEF Inv, Called
  <2>3. Serving => work.for \in Callers /\ calls'[work.for].pc # "ready"
    BY <1>1 DEF Inv, Called
  <2> QED
    BY <1>3, <2>1, <2>2, <2>3 DEF Called
<1>5. Covered'
  <2>1. \A d \in Callers : \A k \in Kinds : calls'[d].upto[k] <= Len(accepted[k])
    BY <1>1 DEF Inv, Covered
  <2>2. Serving => \A k \in Kinds : calls'[work.for].upto[k] <= Len(written[k]) + Len(pending[k])
    BY <1>1 DEF Inv, Covered, Called
  <2>3. \A d \in Callers : calls'[d].reply = "ok" =>
          \A k \in Kinds : calls'[d].upto[k] <= Len(written[k])
    BY <1>1 DEF Inv, Covered
  <2> QED
    BY <1>3, <2>1, <2>2, <2>3 DEF Covered
<1>6. Stopped'
  <2>1. ~registered' => \A d \in Stoppers : calls'[d].pc # "ready"
    BY <1>1, BatcherAssumption DEF BatcherAssumption, Inv, Stopped, Callers
  <2>2. \A d \in Stoppers : calls'[d].pc # "ready" => stopping'
    BY <1>1 DEF Inv, Stopped, Callers
  <2>3. \A d \in Stoppers : calls'[d].reply = "ok" => calls[d].reply = "ok"
    BY <1>1 DEF Callers
  <2> QED
    BY <1>3, <2>1, <2>2, <2>3 DEF Inv, Stopped
<1> QED
  BY <1>2, <1>3, <1>4, <1>5, <1>6 DEF Inv

\* What callers know of their own calls.
LEMMA CallFacts ==
  ASSUME Inv, NEW c \in Callers
  PROVE  /\ calls[c] \in Call /\ requests \in Seq(Callers)
         /\ registered \in BOOLEAN /\ stopping \in BOOLEAN
         /\ \A k \in Kinds : calls[c].upto[k] <= Len(accepted[k])
         /\ calls[c].reply = "ok" => \A k \in Kinds : calls[c].upto[k] <= Len(written[k])
         /\ calls[c].pc = "ready" =>
              /\ calls[c] = NoCall /\ ~(Serving /\ work.for = c)
              /\ c \in Stoppers => registered
         /\ calls[c].pc # "ready" /\ c \in Stoppers => stopping
BY DEF Inv, FlowType, Called, Covered, Stopped

\* A call that returns at once, or is given up.
LEMMA ReturnStep ==
  ASSUME Inv, NEW c \in Callers, NEW reply \in {"ok", "stopped", "expired"}, Return(c, reply),
         UNCHANGED <<registered, stopping, channels, work, accepted, written>>,
         reply = "ok" => c \notin Stoppers /\ calls[c].upto = NoCall.upto,
         calls[c].pc = "ready" => c \notin Stoppers
  PROVE  Inv'
<1> DEFINE r == [calls[c] EXCEPT !.pc = "done", !.reply = reply]
<1>1. r \in Call /\ r.pc = "done" /\ r.reply = reply /\ r.upto = calls[c].upto
  <2>1. calls[c] \in Call
    BY CallFacts
  <2> QED
    BY ONLY <2>1, reply \in {"ok", "stopped", "expired"} DEF Call
<1>2. calls' = [calls EXCEPT ![c] = r]
  BY DEF Return
<1>3. reply = "ok" => \A k \in Kinds : r.upto[k] <= Len(written[k])
  <2>1. \A k \in Kinds : NoCall.upto[k] = 0 /\ Len(written[k]) \in Nat
    BY Numbers DEF NoCall, Inv
  <2> HIDE DEF r
  <2> QED
    BY <1>1, <2>1
<1> HIDE DEF r
<1>4. /\ UNCHANGED <<queue, pending, work, accepted, written>>
      /\ registered' = registered /\ stopping' = stopping /\ requests' = requests
  BY DEF channels
<1>5. /\ requests' \in Seq(Callers)
      /\ \A i \in 1..Len(requests') :
           requests'[i] = c \/ \E j \in 1..Len(requests) : requests'[i] = requests[j]
  BY <1>4, CallFacts
<1>6. /\ \A k \in Kinds : r.upto[k] <= Len(accepted[k])
      /\ Serving /\ work.for = c => r.upto = calls[c].upto
  BY <1>1, CallFacts
<1>7. /\ registered' \in BOOLEAN /\ stopping' \in BOOLEAN
      /\ stopping => stopping'
      /\ c \notin Stoppers => registered' = registered
      /\ c \in Stoppers => stopping' /\ (r.reply = "ok" => calls[c].reply = "ok")
  BY <1>1, <1>4, CallFacts
<1> QED
  BY <1>1, <1>2, <1>3, <1>4, <1>5, <1>6, <1>7, CallStep

LEMMA FlushCallStep ==
  ASSUME Inv, NEW c \in Flushers, FlushCall(c)
  PROVE  Inv'
<1>1. /\ c \in Callers /\ c \notin Stoppers /\ calls[c].pc = "ready" /\ calls[c] = NoCall
      /\ UNCHANGED <<registered, stopping, channels, work, accepted, written>>
  BY CallFacts, BatcherAssumption DEF BatcherAssumption, FlushCall, Callers
<1>2. CASE ~registered
  BY <1>1, <1>2, ReturnStep DEF FlushCall
<1>3. CASE registered /\ stopping
  BY <1>1, <1>3, ReturnStep DEF FlushCall
<1>4. CASE registered /\ ~stopping
  <2> DEFINE upto == [k \in Kinds |-> Len(accepted[k])]
             r == [calls[c] EXCEPT !.pc = "sending", !.upto = upto]
  <2>1. upto \in [Kinds -> Nat]
    BY Numbers DEF Inv
  <2>2. r \in Call /\ r.pc = "sending" /\ r.reply = "none" /\ r.upto = upto
    <3> HIDE DEF upto
    <3>1. calls[c] \in Call /\ calls[c].reply = "none"
      BY <1>1, CallFacts DEF NoCall
    <3> QED
      BY <2>1, <3>1 DEF Call
  <2>3. calls' = [calls EXCEPT ![c] = r]
    BY <1>4 DEF FlushCall
  <2>4. \A k \in Kinds : r.upto[k] <= Len(accepted[k])
    <3>1. \A k \in Kinds : upto[k] = Len(accepted[k]) /\ Len(accepted[k]) \in Nat
      BY Numbers DEF Inv
    <3> HIDE DEF r, upto
    <3> QED
      BY <2>2, <3>1
  <2> HIDE DEF r
  <2>5. /\ UNCHANGED <<queue, pending, work, accepted, written>>
        /\ registered' = registered /\ stopping' = stopping /\ requests' = requests
    BY <1>1 DEF channels
  <2>6. /\ requests' \in Seq(Callers)
        /\ \A i \in 1..Len(requests') :
             requests'[i] = c \/ \E j \in 1..Len(requests) : requests'[i] = requests[j]
    BY <1>1, <2>5, CallFacts
  <2>7. Serving /\ work.for = c => r.upto = calls[c].upto
    BY <1>1, CallFacts
  <2>8. /\ registered' \in BOOLEAN /\ stopping' \in BOOLEAN
        /\ stopping => stopping'
    BY <1>1, <2>5, CallFacts
  <2> HIDE DEF upto
  <2> QED
    BY <1>1, <2>2, <2>3, <2>4, <2>5, <2>6, <2>7, <2>8, CallStep
<1> QED
  BY <1>2, <1>3, <1>4, CallFacts, <1>1

LEMMA StopCallStep ==
  ASSUME Inv, NEW c \in Stoppers, StopCall(c)
  PROVE  Inv'
<1> DEFINE r == [calls[c] EXCEPT !.pc = "sending"]
<1>1. c \in Callers /\ calls[c].pc = "ready" /\ calls[c] = NoCall /\ registered
  BY CallFacts DEF StopCall, Callers
<1>2. /\ UNCHANGED <<queue, pending, work, accepted, written>>
      /\ registered' = registered /\ stopping' = TRUE /\ requests' = requests
  BY <1>1 DEF StopCall, channels
<1>3. calls' = [calls EXCEPT ![c] = r]
  BY <1>1 DEF StopCall
<1>4. /\ r \in Call /\ r.pc = "sending" /\ r.reply = "none" /\ r.upto = calls[c].upto
      /\ \A k \in Kinds : r.upto[k] <= Len(accepted[k])
  BY <1>1, CallFacts DEF Call, NoCall
<1> HIDE DEF r
<1>5. /\ requests' \in Seq(Callers)
      /\ \A i \in 1..Len(requests') :
           requests'[i] = c \/ \E j \in 1..Len(requests) : requests'[i] = requests[j]
  BY <1>1, <1>2, CallFacts
<1>6. registered' \in BOOLEAN /\ stopping' \in BOOLEAN
  BY <1>1, <1>2
<1> QED
  BY <1>1, <1>2, <1>3, <1>4, <1>5, <1>6, CallStep

LEMMA ExpireStep ==
  ASSUME Inv, NEW c \in Callers, Expire(c)
  PROVE  Inv'
BY ReturnStep DEF Expire

LEMMA SendStep ==
  ASSUME Inv, NEW c \in Callers, Send(c)
  PROVE  Inv'
<1>1. CASE Return(c, "stopped") /\ UNCHANGED requests
  BY <1>1, ReturnStep DEF Send, channels
<1>2. CASE requests' = <<c>> /\ calls' = [calls EXCEPT ![c].pc = "waiting"]
  <2> DEFINE r == [calls[c] EXCEPT !.pc = "waiting"]
  <2>1. /\ UNCHANGED <<queue, pending, work, accepted, written>>
        /\ registered' = registered /\ stopping' = stopping /\ calls[c].pc = "sending"
    BY DEF Send
  <2>2. calls' = [calls EXCEPT ![c] = r]
    BY <1>2
  <2>3. /\ r \in Call /\ r.pc = "waiting" /\ r.reply = calls[c].reply /\ r.upto = calls[c].upto
        /\ \A k \in Kinds : r.upto[k] <= Len(accepted[k])
        /\ r.reply = "ok" => \A k \in Kinds : r.upto[k] <= Len(written[k])
    BY CallFacts DEF Call
  <2> HIDE DEF r
  <2>4. requests' \in Seq(Callers) /\ \A i \in 1..Len(requests') : requests'[i] = c
    BY <1>2
  <2>5. registered' \in BOOLEAN /\ stopping' \in BOOLEAN /\ (c \in Stoppers => stopping')
    BY <2>1, CallFacts
  <2> QED
    BY <2>1, <2>2, <2>3, <2>4, <2>5, CallStep
<1> QED
  BY <1>1, <1>2 DEF Send

LEMMA ReceiveStep ==
  ASSUME Inv, NEW c \in Callers, Receive(c)
  PROVE  Inv'
<1> DEFINE r == [calls[c] EXCEPT !.pc = "done"]
<1>1. /\ UNCHANGED <<queue, pending, work, accepted, written>> /\ calls[c].pc = "waiting"
      /\ registered' = (registered /\ c \notin Stoppers) /\ stopping' = stopping
      /\ requests' = requests
  BY DEF Receive, channels
<1>2. calls' = [calls EXCEPT ![c] = r]
  BY DEF Receive
<1>3. /\ r \in Call /\ r.pc = "done" /\ r.reply = calls[c].reply /\ r.upto = calls[c].upto
      /\ \A k \in Kinds : r.upto[k] <= Len(accepted[k])
      /\ r.reply = "ok" => \A k \in Kinds : r.upto[k] <= Len(written[k])
  BY CallFacts DEF Call
<1> HIDE DEF r
<1>4. /\ requests' \in Seq(Callers)
      /\ \A i \in 1..Len(requests') :
           requests'[i] = c \/ \E j \in 1..Len(requests) : requests'[i] = requests[j]
  BY <1>1, CallFacts
<1>5. /\ registered' \in BOOLEAN /\ stopping' \in BOOLEAN /\ (c \in Stoppers => stopping')
      /\ c \notin Stoppers => registered' = registered
  BY <1>1, CallFacts
<1> QED
  BY <1>1, <1>2, <1>3, <1>4, <1>5, CallStep

\* A step of the worker passes items on from the queue to what is pending and
\* from there to what is written, and may begin to serve a request only when it
\* has drained the queues.
LEMMA WorkStep ==
  ASSUME Inv, UNCHANGED <<registered, stopping, calls, accepted>>,
         requests' \in Seq(Callers),
         \A i \in 1..Len(requests') : \E j \in 1..Len(requests) : requests'[i] = requests[j],
         work.pc # "exited", work' \in Work,
         queue' \in [Kinds -> Seq(Items)], pending' \in [Kinds -> Seq(Items)],
         written' \in [Kinds -> Seq(Items)],
         \A k \in Kinds :
           (written'[k] \o pending'[k]) \o queue'[k] = (written[k] \o pending[k]) \o queue[k],
         \A k \in Kinds : Len(queue'[k]) <= Len(queue[k]),
         \A k \in Kinds : Len(written'[k]) >= Len(written[k]),
         \A k \in Kinds : queue[k] = <<>> => queue'[k] = <<>>,
         Serving' =>
           \/ /\ Serving /\ work'.for = work.for
              /\ \A k \in Kinds :
                   Len(written'[k]) + Len(pending'[k]) >= Len(written[k]) + Len(pending[k])
           \/ /\ \E i \in 1..Len(requests) : work'.for = requests[i]
              /\ \A k \in Kinds : queue'[k] = <<>>,
         Passed'
  PROVE  Inv'
<1>1. FlowType'
  BY DEF Inv, FlowType
<1>2. \A k \in Kinds : (written'[k] \o pending'[k]) \o queue'[k] = accepted[k]
  BY DEF Inv, AcceptedInOrder
<1>3. AcceptedInOrder'
  <2>1. \A k \in Kinds : Len(queue'[k]) \in Nat
    BY LenProperties
  <2>2. \A k \in Kinds : Len(queue[k]) <= Capacity /\ Len(queue[k]) \in Nat
    BY Numbers DEF Inv, AcceptedInOrder
  <2>3. \A k \in Kinds : Len(queue'[k]) <= Capacity
    <3>1. Capacity \in Nat
      BY BatcherAssumption DEF BatcherAssumption
    <3> QED
      BY <2>1, <2>2, <3>1, AtMost, Zenon
  <2> QED
    BY <1>2, <2>3 DEF AcceptedInOrder
<1>4. Called'
  <2>1. \A i \in 1..Len(requests) : requests[i] \in Callers /\ calls[requests[i]].pc # "ready"
    BY ElementOfSeq DEF Inv, FlowType, Called
  <2>2. \A i \in 1..Len(requests') : calls[requests'[i]].pc # "ready"
    BY <2>1
  <2>3. Serving' => work'.for \in Callers /\ calls[work'.for].pc # "ready"
    BY <2>1 DEF Inv, Called
  <2>4. \A c \in Callers : calls[c].pc = "ready" => calls[c] = NoCall
    BY DEF Inv, Called
  <2> QED
    BY <2>2, <2>3, <2>4 DEF Called
<1>5. Covered'
  <2>1. \A k \in Kinds : /\ Len(written'[k]) \in Nat /\ Len(pending'[k]) \in Nat
                        /\ Len(written[k]) \in Nat /\ Len(pending[k]) \in Nat
    BY LenProperties, Numbers DEF Inv
  <2>2. \A c \in Callers : \A k \in Kinds :
          calls[c].upto[k] \in Nat /\ calls[c].upto[k] <= Len(accepted[k])
    BY Numbers DEF Inv, Covered
  <2>3. Serving' => \A k \in Kinds : calls[work'.for].upto[k] <= Len(written'[k]) + Len(pending'[k])
    <3> SUFFICES ASSUME Serving', NEW k \in Kinds
                 PROVE  calls[work'.for].upto[k] <= Len(written'[k]) + Len(pending'[k])
      OBVIOUS
    <3>1. work'.for \in Callers
      BY <1>4 DEF Called
    <3>2. CASE /\ Serving /\ work'.for = work.for
               /\ Len(written'[k]) + Len(pending'[k]) >= Len(written[k]) + Len(pending[k])
      <4>1. calls[work.for].upto[k] <= Len(written[k]) + Len(pending[k])
        BY <3>2 DEF Inv, Covered
      <4>2. calls[work.for].upto[k] \in Nat
        BY <2>2, <3>1, <3>2
      <4>3. /\ Len(written'[k]) \in Nat /\ Len(pending'[k]) \in Nat
            /\ Len(written[k]) \in Nat /\ Len(pending[k]) \in Nat
        BY <2>1
      <4>4. calls[work.for].upto[k] <= Len(written'[k]) + Len(pending'[k])
        BY ONLY <3>2, <4>1, <4>2, <4>3, AtMost, Zenon
      <4> QED
        BY <3>2, <4>4
    <3>3. CASE queue'[k] = <<>>
      <4>1. written'[k] \in Seq(Items) /\ pending'[k] \in Seq(Items)
        OBVIOUS
      <4>2. written'[k] \o pending'[k] = accepted[k]
        BY <1>2, <3>3, <4>1, JoinWrite, Zenon
      <4>3. Len(written'[k] \o pending'[k]) = Len(written'[k]) + Len(pending'[k])
        BY <4>1, ConcatProperties
      <4> QED
        BY <2>2, <3>1, <4>2, <4>3
    <3> QED
      BY <3>2, <3>3
  <2>4. \A c \in Callers : calls[c].reply = "ok" =>
          \A k \in Kinds : calls[c].upto[k] <= Len(written'[k])
    <3> SUFFICES ASSUME NEW c \in Callers, calls[c].reply = "ok", NEW k \in Kinds
                 PROVE  calls[c].upto[k] <= Len(written'[k])
      OBVIOUS
    <3>1. calls[c].upto[k] <= Len(written[k])
      BY DEF Inv, Covered
    <3> QED
      BY <2>1, <2>2, <3>1
  <2> QED
    BY <2>2, <2>3, <2>4 DEF Covered
<1>6. Stopped'
  <2>1. \A c \in Stoppers : calls[c].reply # "ok"
    BY DEF Inv, Stopped
  <2>2. Serving' /\ work'.for \in Stoppers => \A k \in Kinds : queue'[k] = <<>>
    BY DEF Inv, Stopped
  <2> QED
    BY <2>1, <2>2 DEF Inv, Stopped
<1> QED
  BY <1>1, <1>3, <1>4, <1>5, <1>6 DEF Inv

\* What a drain moves.
LEMMA DrainFacts ==
  ASSUME Inv, NEW ks \in SUBSET Kinds, Drain(ks)
  PROVE  /\ queue' \in [Kinds -> Seq(Items)] /\ pending' \in [Kinds -> Seq(Items)]
         /\ \A k \in Kinds :
              (written[k] \o pending'[k]) \o queue'[k] = (written[k] \o pending[k]) \o queue[k]
         /\ \A k \in Kinds : /\ Len(queue'[k]) <= Len(queue[k])
                             /\ Len(pending'[k]) >= Len(pending[k])
         /\ \A k \in Kinds : k \in ks \/ queue[k] = <<>> => queue'[k] = <<>>
         /\ \A k \in Kinds : k \notin ks => pending'[k] = pending[k]
<1>1. \A k \in Kinds : IF k \in ks THEN pending'[k] = pending[k] \o queue[k] /\ queue'[k] = <<>>
                                  ELSE pending'[k] = pending[k] /\ queue'[k] = queue[k]
  BY DEF Drain, Drained
<1>2. \A k \in Kinds : /\ written[k] \in Seq(Items) /\ pending[k] \in Seq(Items)
                      /\ queue[k] \in Seq(Items)
  BY DEF Inv, FlowType
<1>3. \A k \in Kinds : /\ pending[k] \o queue[k] \in Seq(Items)
                      /\ Len(pending[k] \o queue[k]) = Len(pending[k]) + Len(queue[k])
  BY <1>2, ConcatProperties
<1>4. <<>> \in Seq(Items) /\ Len(<<>>) = 0
  BY EmptySeq
<1>5. queue' \in [Kinds -> Seq(Items)]
  BY <1>2, <1>4 DEF Drain
<1>6. pending' \in [Kinds -> Seq(Items)]
  BY <1>2, <1>3 DEF Drain, Drained
<1>7. ASSUME NEW k \in Kinds
      PROVE  (written[k] \o pending'[k]) \o queue'[k] = (written[k] \o pending[k]) \o queue[k]
  <2>1. (written[k] \o (pending[k] \o queue[k])) \o <<>> = (written[k] \o pending[k]) \o queue[k]
    BY <1>2, JoinDrain, Zenon
  <2>2. CASE k \in ks
    <3>1. pending'[k] = pending[k] \o queue[k] /\ queue'[k] = <<>>
      BY <1>1, <2>2, Zenon
    <3> QED
      BY <2>1, <3>1, Zenon
  <2>3. CASE k \notin ks
    BY <1>1, <2>3, Zenon
  <2> QED
    BY <2>2, <2>3
<1>8. \A k \in Kinds : Len(queue'[k]) <= Len(queue[k]) /\ Len(pending'[k]) >= Len(pending[k])
  <2> SUFFICES ASSUME NEW k \in Kinds
               PROVE  Len(queue'[k]) <= Len(queue[k]) /\ Len(pending'[k]) >= Len(pending[k])
    OBVIOUS
  <2>1. Len(queue[k]) \in Nat /\ Len(pending[k]) \in Nat
    BY Numbers DEF Inv
  <2>2. CASE k \in ks
    <3>1. Len(pending'[k]) = Len(pending[k]) + Len(queue[k]) /\ Len(queue'[k]) = 0
      <4>1. pending'[k] = pending[k] \o queue[k] /\ queue'[k] = <<>>
        BY <1>1, <2>2, Zenon
      <4>2. Len(queue'[k]) = 0
        BY <1>4, <4>1
      <4>3. Len(pending'[k]) = Len(pending[k]) + Len(queue[k])
        BY <1>3, <4>1, Zenon
      <4> QED
        BY <4>2, <4>3
    <3> QED
      BY <2>1, <3>1, AtMost, Zenon
  <2>3. CASE k \notin ks
    <3>1. pending'[k] = pending[k] /\ queue'[k] = queue[k]
      BY <1>1, <2>3, Zenon
    <3> QED
      BY <2>1, <3>1
  <2> QED
    BY <2>2, <2>3
<1>9. ASSUME NEW k \in Kinds, k \in ks \/ queue[k] = <<>>
      PROVE  queue'[k] = <<>>
  <2>1. CASE k \in ks
    BY <1>1, <2>1, Zenon
  <2>2. CASE k \notin ks
    BY <1>1, <1>9, <2>2, Zenon
  <2> QED
    BY <2>1, <2>2
<1>10. ASSUME NEW k \in Kinds, k \notin ks
       PROVE  pending'[k] = pending[k]
  BY <1>1, <1>10, Zenon
<1> QED
  BY <1>5, <1>6, <1>7, <1>8, <1>9, <1>10, Zenon

\* What the worker knows between its steps.
LEMMA WorkFacts ==
  ASSUME Inv
  PROVE  /\ work \in Work /\ requests \in Seq(Callers)
         /\ queue \in [Kinds -> Seq(Items)] /\ pending \in [Kinds -> Seq(Items)]
         /\ written \in [Kinds -> Seq(Items)]
         /\ Serving => work.for \in Callers
BY DEF Inv, FlowType, Called

\* How the worker leaves a kind behind.
LEMMA AfterFacts ==
  ASSUME Inv, NEW failed \in BOOLEAN, After(failed),
         work.pc \in {"reports", "pings", "tick pings", "tick reports"}
  PROVE  /\ work' \in Work
         /\ Serving' => Serving /\ work'.for = work.for
         /\ work'.pc = "pings" /\ ~work'.err => ~failed
         /\ work'.pc = "reply" /\ ~work'.err => work.pc = "pings" /\ ~work.err /\ ~failed
         /\ work.pc \in {"pings", "tick pings"} => work'.pc # "pings"
         /\ work.pc \in {"reports", "tick reports"} => work'.pc # "reply"
<1>1. work \in Work
  BY WorkFacts
<1>2. CASE work.pc = "reports"
  <2>1. work' = [work EXCEPT !.pc = "pings", !.err = failed]
    BY <1>2 DEF After
  <2> QED
    BY <1>1, <1>2, <2>1 DEF Work, Serving
<1>3. CASE work.pc = "pings"
  <2> DEFINE err == work.err \/ failed
  <2>1. work' = [work EXCEPT !.pc = "reply", !.err = err]
    BY <1>3 DEF After
  <2>2. err \in BOOLEAN /\ (~err => ~work.err /\ ~failed)
    BY <1>1 DEF Work
  <2> HIDE DEF err
  <2>3. work' \in Work /\ work'.pc = "reply" /\ work'.for = work.for
    BY <1>1, <2>1, <2>2 DEF Work
  <2>4. work'.err = err
    BY <1>1, <2>1 DEF Work
  <2>5. Serving
    BY <1>3 DEF Serving
  <2>6. ~work'.err => ~work.err /\ ~failed
    BY <2>2, <2>4
  <2> QED
    BY <1>3, <2>3, <2>5, <2>6
<1>4. CASE work.pc = "tick pings"
  <2>1. work' = [work EXCEPT !.pc = "tick reports"]
    BY <1>4 DEF After
  <2> QED
    BY <1>1, <1>4, <2>1 DEF Work, Serving
<1>5. CASE work.pc = "tick reports"
  <2>1. work' = Idle
    BY <1>5 DEF After
  <2> QED
    BY <1>5, <2>1 DEF Work, Serving, Idle
<1> QED
  BY <1>2, <1>3, <1>4, <1>5

\* A write that is refused or fails, and one there is no need for, leave every
\* item where it is.
LEMMA StayStep ==
  ASSUME Inv, NEW failed \in BOOLEAN, After(failed), work.pc \in {"reports", "tick reports"},
         UNCHANGED <<registered, stopping, channels, calls, accepted, written>>,
         ~failed => pending["report"] = <<>>
  PROVE  Inv'
<1> USE DEF channels
<1>1. /\ work' \in Work /\ work.pc # "exited"
      /\ Serving' => Serving /\ work'.for = work.for
      /\ work'.pc # "reply"
      /\ work'.pc = "pings" /\ ~work'.err => ~failed
  BY AfterFacts
<1>2. Passed'
  BY <1>1 DEF Passed
<1>3. \A k \in Kinds : /\ Len(queue[k]) <= Len(queue[k]) /\ Len(written[k]) >= Len(written[k])
                      /\ Len(written[k]) + Len(pending[k]) >= Len(written[k]) + Len(pending[k])
  <2>1. \A k \in Kinds : /\ Len(queue[k]) \in Nat /\ Len(written[k]) \in Nat
                        /\ Len(pending[k]) \in Nat
    BY Numbers DEF Inv
  <2> QED
    BY <2>1, AtMost, Zenon
<1>4. /\ requests \in Seq(Callers) /\ queue \in [Kinds -> Seq(Items)]
      /\ pending \in [Kinds -> Seq(Items)] /\ written \in [Kinds -> Seq(Items)]
  BY WorkFacts
<1> QED
  BY <1>1, <1>2, <1>3, <1>4, WorkStep

LEMMA NoReportsStep == Inv /\ NoReports => Inv'
<1> SUFFICES ASSUME Inv, NoReports PROVE Inv'
  OBVIOUS
<1>1. /\ After(FALSE) /\ work.pc \in {"reports", "tick reports"} /\ pending["report"] = <<>>
      /\ UNCHANGED <<registered, stopping, channels, calls, accepted, written>>
  BY DEF NoReports
<1> QED
  BY <1>1, StayStep

\* All pending reports are written, and no ping moves.
LEMMA ReportsWrittenStep ==
  ASSUME Inv, After(FALSE), work.pc \in {"reports", "tick reports"},
         UNCHANGED <<registered, stopping, queue, requests, calls, accepted>>,
         pending' = [pending EXCEPT !["report"] = <<>>],
         written' = [written EXCEPT !["report"] = @ \o pending["report"]]
  PROVE  Inv'
<1> DEFINE w == written["report"]
           p == pending["report"]
           all == w \o p
<1>1. w \in Seq(Items) /\ p \in Seq(Items) /\ all \in Seq(Items) /\ all \o <<>> = all
  <2>1. w \in Seq(Items) /\ p \in Seq(Items)
    BY WorkFacts DEF Kinds
  <2> QED
    BY <2>1, ConcatProperties, JoinEmpty
<1>2. Len(all) = Len(w) + Len(p) /\ Len(w) \in Nat /\ Len(p) \in Nat
  BY <1>1, ConcatProperties, LenProperties
<1>3. <<>> \in Seq(Items) /\ Len(<<>>) = 0
  BY EmptySeq
<1>4. written' = [written EXCEPT !["report"] = all] /\ pending' = [pending EXCEPT !["report"] = <<>>]
  OBVIOUS
<1>5. /\ work' \in Work /\ work.pc # "exited"
      /\ Serving' => Serving /\ work'.for = work.for
      /\ work'.pc # "reply"
  BY AfterFacts
<1>6. Passed'
  BY <1>4, <1>5, WorkFacts DEF Passed, Kinds
<1> HIDE DEF all
<1>7. pending' \in [Kinds -> Seq(Items)] /\ written' \in [Kinds -> Seq(Items)]
  BY <1>1, <1>3, <1>4, WorkFacts
<1>8. \A k \in Kinds : IF k = "report" THEN written'[k] = all /\ pending'[k] = <<>>
                                      ELSE written'[k] = written[k] /\ pending'[k] = pending[k]
  BY <1>4, WorkFacts
<1>9. ASSUME NEW k \in Kinds
      PROVE  /\ written'[k] \o pending'[k] = written[k] \o pending[k]
             /\ Len(written'[k]) >= Len(written[k])
             /\ Len(written'[k]) + Len(pending'[k]) >= Len(written[k]) + Len(pending[k])
  <2>1. CASE k = "report"
    <3>1. written'[k] = all /\ pending'[k] = <<>> /\ written[k] = w /\ pending[k] = p
      BY <1>8, <2>1, Zenon
    <3> HIDE DEF w, p
    <3>2. written'[k] \o pending'[k] = written[k] \o pending[k]
      BY <1>1, <3>1, Zenon DEF all
    <3>3. Len(written'[k]) = Len(w) + Len(p) /\ Len(pending'[k]) = 0
      BY <1>2, <1>3, <3>1, Zenon
    <3>4. /\ Len(written'[k]) >= Len(w)
          /\ Len(written'[k]) + Len(pending'[k]) >= Len(w) + Len(p)
      BY <1>2, <3>3, AtMost, Zenon
    <3> QED
      BY <3>1, <3>2, <3>4, Zenon
  <2>2. CASE k # "report"
    <3>1. written'[k] = written[k] /\ pending'[k] = pending[k]
      BY <1>8, <2>2, Zenon
    <3>2. Len(written[k]) \in Nat /\ Len(pending[k]) \in Nat
      BY Numbers DEF Inv
    <3>3. /\ Len(written[k]) >= Len(written[k])
          /\ Len(written[k]) + Len(pending[k]) >= Len(written[k]) + Len(pending[k])
      BY <3>2, AtMost, Zenon
    <3> QED
      BY <3>1, <3>3, Zenon
  <2> QED
    BY <2>1, <2>2
<1>10. \A k \in Kinds : Len(queue'[k]) <= Len(queue[k])
  <2>1. \A k \in Kinds : Len(queue[k]) \in Nat
    BY Numbers DEF Inv
  <2> QED
    BY <2>1, AtMost
<1> HIDE DEF w, p
<1> QED
  BY <1>5, <1>6, <1>7, <1>9, <1>10, WorkStep, WorkFacts

LEMMA WriteReportsStep == Inv /\ WriteReports => Inv'
<1> SUFFICES ASSUME Inv, WriteReports PROVE Inv'
  OBVIOUS
<1>1. /\ work.pc \in {"reports", "tick reports"}
      /\ UNCHANGED <<registered, stopping, queue, requests, calls, accepted>>
  BY DEF WriteReports
<1>2. CASE ReportsRefused \/ \E failed \in SUBSET Unrestored : ReportsFail(failed)
  <2>1. After(TRUE) /\ UNCHANGED <<pending, written>>
    BY <1>2 DEF ReportsRefused, ReportsFail
  <2> QED
    BY <1>1, <2>1, StayStep DEF channels
<1>3. CASE \E failed \in SUBSET Unrestored : ReportsWritten(failed)
  <2>1. /\ After(FALSE)
        /\ pending' = [pending EXCEPT !["report"] = <<>>]
        /\ written' = [written EXCEPT !["report"] = @ \o pending["report"]]
    BY <1>3 DEF ReportsWritten
  <2> QED
    BY <1>1, <2>1, ReportsWrittenStep
<1> QED
  BY <1>2, <1>3 DEF WriteReports

\* One chunk of pings is written.
LEMMA WritePingsStep == Inv /\ WritePings => Inv'
<1> SUFFICES ASSUME Inv, WritePings PROVE Inv'
  OBVIOUS
<1> DEFINE w == written["ping"]
           p == pending["ping"]
           n == IF Len(p) > PingChunk THEN PingChunk ELSE Len(p)
           chunk == SubSeq(p, 1, n)
           rest == SubSeq(p, n + 1, Len(p))
<1>1. w \in Seq(Items) /\ p \in Seq(Items)
  BY WorkFacts DEF Kinds
<1>2. Len(w) \in Nat /\ Len(p) \in Nat
  BY <1>1, LenProperties
<1>3. /\ n > 0 /\ work.pc \in {"pings", "tick pings"}
      /\ pending' = [pending EXCEPT !["ping"] = rest]
      /\ written' = [written EXCEPT !["ping"] = w \o chunk]
      /\ UNCHANGED <<registered, stopping, queue, requests, work, calls, accepted>>
  BY DEF WritePings
<1>4. n \in 1..Len(p)
  <2>1. PingChunk \in Nat
    BY BatcherAssumption DEF BatcherAssumption
  <2>2. \A l, m \in Nat : LET i == IF l > m THEN m ELSE l IN i > 0 => i \in 1..l
    OBVIOUS
  <2>3. n > 0
    BY <1>3
  <2> QED
    BY <1>2, <2>1, <2>2, <2>3, Zenon
<1> HIDE DEF n
<1>5. /\ chunk \in Seq(Items) /\ rest \in Seq(Items)
      /\ Len(chunk) = n /\ Len(rest) = Len(p) - n
      /\ (w \o chunk) \o rest = w \o p
  BY <1>1, <1>4, JoinChunk, Zenon
<1> HIDE DEF chunk, rest
<1> DEFINE longer == w \o chunk
<1>6. longer \in Seq(Items) /\ Len(longer) = Len(w) + n
  BY <1>1, <1>5, ConcatProperties
<1>7. written' = [written EXCEPT !["ping"] = longer]
  BY <1>3
<1>8. longer \o rest = w \o p
  BY <1>5
<1> HIDE DEF longer
<1>9. Len(longer) >= Len(w) /\ Len(longer) + Len(rest) >= Len(w) + Len(p)
  <2>1. \A a, b \in Nat : \A i \in 1..b : \A x, y :
          x = a + i /\ y = b - i => x >= a /\ x + y >= a + b
    OBVIOUS
  <2> HIDE DEF w, p
  <2> QED
    BY <1>2, <1>4, <1>5, <1>6, <2>1, Zenon
<1>10. pending' \in [Kinds -> Seq(Items)] /\ written' \in [Kinds -> Seq(Items)]
  BY <1>3, <1>5, <1>6, <1>7, WorkFacts
<1>11. \A k \in Kinds : IF k = "ping" THEN written'[k] = longer /\ pending'[k] = rest
                                     ELSE written'[k] = written[k] /\ pending'[k] = pending[k]
  BY <1>3, <1>7, WorkFacts
<1>12. ASSUME NEW k \in Kinds
       PROVE  /\ written'[k] \o pending'[k] = written[k] \o pending[k]
              /\ Len(written'[k]) >= Len(written[k])
              /\ Len(written'[k]) + Len(pending'[k]) >= Len(written[k]) + Len(pending[k])
  <2>1. CASE k = "ping"
    <3>1. written'[k] = longer /\ pending'[k] = rest /\ written[k] = w /\ pending[k] = p
      BY <1>11, <2>1, Zenon
    <3> HIDE DEF w, p
    <3> QED
      BY <1>8, <1>9, <3>1, Zenon
  <2>2. CASE k # "ping"
    <3>1. written'[k] = written[k] /\ pending'[k] = pending[k]
      BY <1>11, <2>2, Zenon
    <3>2. Len(written[k]) \in Nat /\ Len(pending[k]) \in Nat
      BY Numbers DEF Inv
    <3>3. /\ Len(written[k]) >= Len(written[k])
          /\ Len(written[k]) + Len(pending[k]) >= Len(written[k]) + Len(pending[k])
      BY <3>2, AtMost, Zenon
    <3> QED
      BY <3>1, <3>3, Zenon
  <2> QED
    BY <2>1, <2>2
<1>13. Passed'
  <2>1. pending'["report"] = pending["report"]
    BY <1>11 DEF Kinds
  <2> QED
    BY <1>3, <2>1 DEF Inv, Passed
<1>14. \A k \in Kinds : Len(queue'[k]) <= Len(queue[k])
  <2>1. \A k \in Kinds : Len(queue[k]) \in Nat
    BY Numbers DEF Inv
  <2> QED
    BY <1>3, <2>1, AtMost
<1>15. work' \in Work /\ work.pc # "exited" /\ (Serving' => Serving /\ work'.for = work.for)
  BY <1>3, WorkFacts DEF Serving
<1> HIDE DEF w, p
<1> QED
  BY <1>3, <1>10, <1>12, <1>13, <1>14, <1>15, WorkStep, WorkFacts

\* The worker leaves the pings; a tick drains the reports then.
LEMMA PingsDoneStep ==
  ASSUME Inv, NEW failed \in BOOLEAN, PingsDone(failed)
  PROVE  Inv'
<1> DEFINE ks == IF work.pc = "tick pings" THEN {"report"} ELSE {}
<1>1. /\ work.pc \in {"pings", "tick pings"} /\ (failed <=> pending["ping"] # <<>>)
      /\ After(failed) /\ Drain(ks)
      /\ UNCHANGED <<registered, stopping, requests, calls, accepted, written>>
  BY DEF PingsDone
<1>2. ks \in SUBSET Kinds
  BY DEF Kinds
<1>3. /\ queue' \in [Kinds -> Seq(Items)] /\ pending' \in [Kinds -> Seq(Items)]
      /\ \A k \in Kinds :
           (written[k] \o pending'[k]) \o queue'[k] = (written[k] \o pending[k]) \o queue[k]
      /\ \A k \in Kinds : Len(queue'[k]) <= Len(queue[k]) /\ Len(pending'[k]) >= Len(pending[k])
      /\ \A k \in Kinds : queue[k] = <<>> => queue'[k] = <<>>
      /\ \A k \in Kinds : k \notin ks => pending'[k] = pending[k]
  BY <1>1, <1>2, DrainFacts, Zenon
<1>4. /\ work' \in Work /\ work.pc # "exited"
      /\ Serving' => Serving /\ work'.for = work.for
      /\ work'.pc = "reply" /\ ~work'.err => work.pc = "pings" /\ ~work.err /\ ~failed
      /\ work'.pc # "pings"
  BY <1>1, AfterFacts
<1>5. Passed'
  <2> SUFFICES ASSUME work'.pc = "reply", ~work'.err
               PROVE  pending'["report"] = <<>> /\ pending'["ping"] = <<>>
    BY <1>4 DEF Passed
  <2>1. work.pc = "pings" /\ ~work.err /\ ~failed
    BY <1>4
  <2>2. \A k \in Kinds : pending'[k] = pending[k]
    BY <1>3, <2>1
  <2>3. pending["report"] = <<>> /\ pending["ping"] = <<>>
    BY <1>1, <2>1 DEF Inv, Passed
  <2> QED
    BY <2>2, <2>3 DEF Kinds
<1>6. ASSUME NEW k \in Kinds
      PROVE  /\ Len(written'[k]) >= Len(written[k])
             /\ Len(written'[k]) + Len(pending'[k]) >= Len(written[k]) + Len(pending[k])
  <2>1. /\ Len(written[k]) \in Nat /\ Len(pending[k]) \in Nat
        /\ Len(pending'[k]) \in Nat
    BY <1>3, Numbers, LenProperties DEF Inv
  <2>2. Len(pending'[k]) >= Len(pending[k]) /\ written'[k] = written[k]
    BY <1>1, <1>3
  <2> QED
    BY <2>1, <2>2, AtMost, Zenon
<1> HIDE DEF ks
<1> QED
  BY <1>1, <1>3, <1>4, <1>5, <1>6, WorkStep, WorkFacts

LEMMA TakeRequestStep == Inv /\ TakeRequest => Inv'
<1> SUFFICES ASSUME Inv, TakeRequest PROVE Inv'
  OBVIOUS
<1>1. /\ work.pc = "idle" /\ requests # <<>> /\ Drain(Kinds)
      /\ work' = [pc |-> "reports", for |-> Head(requests), err |-> FALSE]
      /\ requests' = Tail(requests)
      /\ UNCHANGED <<registered, stopping, calls, accepted, written>>
  BY DEF TakeRequest
<1>2. requests \in Seq(Callers)
  BY WorkFacts
<1>3. /\ Head(requests) \in Callers /\ Len(requests) \in Nat \ {0}
      /\ Head(requests) = requests[1]
      /\ Tail(requests) \in Seq(Callers) /\ Len(Tail(requests)) = Len(requests) - 1
      /\ \A i \in 1..Len(Tail(requests)) : Tail(requests)[i] = requests[i + 1]
  BY <1>1, <1>2, HeadTailProperties, EmptySeq, LenProperties
<1>4. \A i \in 1..Len(requests') : \E j \in 1..Len(requests) : requests'[i] = requests[j]
  <2> SUFFICES ASSUME NEW i \in 1..Len(requests')
               PROVE  \E j \in 1..Len(requests) : requests'[i] = requests[j]
    OBVIOUS
  <2>1. requests'[i] = requests[i + 1] /\ i + 1 \in 1..Len(requests)
    BY <1>1, <1>3
  <2> QED
    BY <2>1
<1>5. /\ queue' \in [Kinds -> Seq(Items)] /\ pending' \in [Kinds -> Seq(Items)]
      /\ \A k \in Kinds :
           (written[k] \o pending'[k]) \o queue'[k] = (written[k] \o pending[k]) \o queue[k]
      /\ \A k \in Kinds : Len(queue'[k]) <= Len(queue[k])
      /\ \A k \in Kinds : queue'[k] = <<>>
  <2>1. Kinds \in SUBSET Kinds
    OBVIOUS
  <2> QED
    BY <1>1, <2>1, DrainFacts, Zenon
<1>6. /\ work' \in Work /\ work'.pc = "reports" /\ Passed' /\ work.pc # "exited"
      /\ \E i \in 1..Len(requests) : work'.for = requests[i]
  <2>1. work'.for = requests[1] /\ 1 \in 1..Len(requests)
    BY <1>1, <1>3
  <2> QED
    BY <1>1, <1>3, <2>1 DEF Work, Passed
<1>7. \A k \in Kinds : Len(written'[k]) >= Len(written[k])
  <2>1. \A k \in Kinds : Len(written[k]) \in Nat
    BY Numbers DEF Inv
  <2> QED
    BY <1>1, <2>1, AtMost
<1>8. requests' \in Seq(Callers) /\ written' \in [Kinds -> Seq(Items)]
  BY <1>1, <1>3, WorkFacts
<1> QED
  BY <1>1, <1>4, <1>5, <1>6, <1>7, <1>8, WorkStep

LEMMA TakeTickStep == Inv /\ TakeTick => Inv'
<1> SUFFICES ASSUME Inv, TakeTick PROVE Inv'
  OBVIOUS
<1>1. /\ work.pc = "idle" /\ Drain({"ping"})
      /\ work' = [pc |-> "tick pings", for |-> "none", err |-> FALSE]
      /\ UNCHANGED <<registered, stopping, requests, calls, accepted, written>>
  BY DEF TakeTick
<1>2. {"ping"} \in SUBSET Kinds
  BY DEF Kinds
<1>3. /\ queue' \in [Kinds -> Seq(Items)] /\ pending' \in [Kinds -> Seq(Items)]
      /\ \A k \in Kinds :
           (written[k] \o pending'[k]) \o queue'[k] = (written[k] \o pending[k]) \o queue[k]
      /\ \A k \in Kinds : Len(queue'[k]) <= Len(queue[k])
      /\ \A k \in Kinds : queue[k] = <<>> => queue'[k] = <<>>
  BY <1>1, <1>2, DrainFacts, Zenon
<1>4. work' \in Work /\ ~Serving' /\ Passed' /\ work.pc # "exited"
  BY <1>1 DEF Work, Serving, Passed
<1>5. \A k \in Kinds : Len(written'[k]) >= Len(written[k])
  <2>1. \A k \in Kinds : Len(written[k]) \in Nat
    BY Numbers DEF Inv
  <2> QED
    BY <1>1, <2>1, AtMost
<1> QED
  BY <1>1, <1>3, <1>4, <1>5, WorkStep, WorkFacts

\* The answer goes to the caller the worker serves, if it still waits.
LEMMA ReplyStep == Inv /\ Reply => Inv'
<1> SUFFICES ASSUME Inv, Reply PROVE Inv'
  OBVIOUS
<1> DEFINE c == work.for
           reply == IF calls[c].pc # "waiting" THEN calls[c].reply
                    ELSE IF work.err THEN "error" ELSE "ok"
           r == [calls[c] EXCEPT !.reply = reply]
<1>1. /\ work.pc = "reply" /\ Serving /\ calls' = [calls EXCEPT ![c] = r]
      /\ UNCHANGED <<registered, stopping, queue, requests, pending, accepted, written>>
  BY DEF Reply, channels, Serving
<1>2. work' = IF c \in Stoppers THEN [Idle EXCEPT !.pc = "exited"] ELSE Idle
  BY DEF Reply
<1>3. c \in Callers /\ calls[c].pc # "ready" /\ calls[c] \in Call
  BY <1>1 DEF Inv, Called, FlowType
<1>4. r \in Call /\ r.pc = calls[c].pc /\ r.upto = calls[c].upto /\ r.reply = reply
  BY <1>3 DEF Call
<1>5. reply = "ok" /\ calls[c].reply # "ok" => \A k \in Kinds : pending[k] = <<>>
  BY <1>1 DEF Inv, Passed, Kinds
<1> HIDE DEF r, reply
<1>6. \A d \in Callers : calls'[d] = IF d = c THEN r ELSE calls[d]
  BY <1>1 DEF Inv, FlowType
<1>7. ~Serving' /\ Passed' /\ work' \in Work /\ (c \in Stoppers => work'.pc = "exited")
  <2>1. CASE c \in Stoppers
    <3>1. work' = [pc |-> "exited", for |-> "none", err |-> FALSE]
      BY <1>2, <2>1 DEF Idle
    <3> QED
      BY <3>1 DEF Serving, Passed, Work
  <2>2. CASE c \notin Stoppers
    <3>1. work' = [pc |-> "idle", for |-> "none", err |-> FALSE]
      BY <1>2, <2>2 DEF Idle
    <3> QED
      BY <2>2, <3>1 DEF Serving, Passed, Work
  <2> QED
    BY <2>1, <2>2
<1>8. FlowType'
  BY <1>1, <1>3, <1>4, <1>7 DEF Inv, FlowType
<1>9. AcceptedInOrder'
  BY <1>1 DEF Inv, AcceptedInOrder
<1>10. Called'
  <2>1. \A d \in Callers : calls'[d].pc = "ready" => calls'[d] = NoCall
    BY <1>3, <1>4, <1>6 DEF Inv, Called
  <2>2. \A i \in 1..Len(requests) : requests[i] \in Callers /\ calls[requests[i]].pc # "ready"
    BY ElementOfSeq DEF Inv, FlowType, Called
  <2>3. \A i \in 1..Len(requests') : calls'[requests'[i]].pc # "ready"
    BY <1>1, <1>3, <1>4, <1>6, <2>2
  <2> QED
    BY <1>7, <2>1, <2>3 DEF Called
<1>11. Covered'
  <2>1. \A d \in Callers : \A k \in Kinds : calls'[d].upto[k] <= Len(accepted'[k])
    BY <1>1, <1>4, <1>6 DEF Inv, Covered
  <2>2. ASSUME NEW d \in Callers, calls'[d].reply = "ok", NEW k \in Kinds
        PROVE  calls'[d].upto[k] <= Len(written'[k])
    <3>1. CASE calls[d].reply = "ok"
      BY <1>1, <1>4, <1>6, <3>1 DEF Inv, Covered
    <3>2. CASE calls[d].reply # "ok"
      <4>1. d = c /\ reply = "ok"
        BY <1>4, <1>6, <2>2, <3>2
      <4>2. pending[k] = <<>>
        BY <1>5, <3>2, <4>1
      <4>3. Len(pending[k]) = 0 /\ Len(written[k]) \in Nat /\ calls[c].upto[k] \in Nat
        BY <1>3, <4>2, Numbers, EmptySeq DEF Inv
      <4>4. calls[c].upto[k] <= Len(written[k]) + Len(pending[k])
        BY <1>1 DEF Inv, Covered
      <4>5. \A a, b, z : a \in Nat /\ b \in Nat /\ z = 0 /\ a <= b + z => a <= b
        OBVIOUS
      <4>6. calls[c].upto[k] <= Len(written[k])
        BY <4>3, <4>4, <4>5, Zenon
      <4> QED
        BY <1>1, <1>4, <1>6, <4>1, <4>6
    <3> QED
      BY <3>1, <3>2
  <2> QED
    BY <1>7, <2>1, <2>2 DEF Covered
<1>12. Stopped'
  <2>1. \A d \in Stoppers : calls'[d].pc = calls[d].pc
    BY <1>4, <1>6 DEF Callers
  <2>2. ASSUME NEW d \in Stoppers, calls'[d].reply = "ok"
        PROVE  work'.pc = "exited" /\ \A k \in Kinds : queue'[k] = <<>> /\ pending'[k] = <<>>
    <3>1. calls[d].reply # "ok" /\ d \in Callers
      BY <1>1 DEF Inv, Stopped, Callers
    <3>2. d = c /\ reply = "ok"
      BY <1>4, <1>6, <2>2, <3>1
    <3>3. \A k \in Kinds : queue[k] = <<>>
      BY <1>1, <3>2 DEF Inv, Stopped
    <3> QED
      BY <1>1, <1>5, <1>7, <3>1, <3>2, <3>3
  <2> QED
    BY <1>1, <1>7, <2>1, <2>2 DEF Inv, Stopped
<1> QED
  BY <1>7, <1>8, <1>9, <1>10, <1>11, <1>12 DEF Inv

LEMMA PrefixTyped ==
  ASSUME NEW E, NEW w \in Seq(E), NEW n \in Nat, n <= Len(w)
  PROVE  SubSeq(w, 1, n) \in Seq(E) /\ Len(SubSeq(w, 1, n)) = n
<1> DEFINE b == SubSeq(w, 1, n)
<1>1. 1 \in Int /\ n \in Int /\ \A i \in 1..n : w[i] \in E
  BY LenProperties, ElementOfSeq
<1>2. b \in Seq(E) /\ Len(b) = IF 1 <= n THEN n - 1 + 1 ELSE 0
  BY ONLY <1>1, SubSeqProperties
<1>3. (IF 1 <= n THEN n - 1 + 1 ELSE 0) = n
  OBVIOUS
<1> HIDE DEF b
<1>4. b \in Seq(E) /\ Len(b) = n
  BY <1>2, <1>3
<1> QED
  BY <1>4 DEF b

\* What a crash leaves of what was written.
LEMMA SurvivingFacts ==
  ASSUME Inv, Persisted
  PROVE  /\ Surviving \in [Kinds -> Seq(Items)]
         /\ \A k \in Kinds : Len(Surviving[k]) = durable[k]
<1>1. ASSUME NEW k \in Kinds
      PROVE  SubSeq(written[k], 1, durable[k]) \in Seq(Items)
             /\ Len(SubSeq(written[k], 1, durable[k])) = durable[k]
  <2>1. written[k] \in Seq(Items) /\ durable[k] \in Nat /\ durable[k] <= Len(written[k])
    BY WorkFacts DEF Persisted
  <2> QED
    BY ONLY <2>1, PrefixTyped
<1> QED
  BY <1>1 DEF Surviving

\* A process that starts again has accepted what is persisted.
LEMMA RestartStep == Inv /\ Persisted /\ Restart => Inv'
<1> SUFFICES ASSUME Inv, Persisted, Restart PROVE Inv'
  OBVIOUS
<1>1. /\ registered' = TRUE /\ stopping' = FALSE
      /\ queue' = NoItems /\ pending' = NoItems /\ requests' = <<>>
      /\ work' = Idle /\ calls' = [c \in Callers |-> NoCall]
      /\ accepted' = Surviving /\ written' = Surviving
  BY DEF Restart
<1>2. Surviving \in [Kinds -> Seq(Items)]
  BY SurvivingFacts
<1> HIDE DEF Surviving
<1>3. <<>> \in Seq(Items) /\ <<>> \in Seq(Callers) /\ Len(<<>>) = 0
  BY EmptySeq
<1>4. FlowType'
  BY <1>1, <1>2, <1>3 DEF FlowType, Work, Call, NoItems, Idle, NoCall
<1>5. AcceptedInOrder'
  <2> SUFFICES ASSUME NEW k \in Kinds
               PROVE  /\ (written'[k] \o pending'[k]) \o queue'[k] = accepted'[k]
                      /\ Len(queue'[k]) <= Capacity
    BY DEF AcceptedInOrder
  <2>1. queue'[k] = <<>> /\ pending'[k] = <<>>
    BY <1>1 DEF NoItems
  <2>2. (Surviving[k] \o <<>>) \o <<>> = Surviving[k]
    BY <1>2, JoinEmpty
  <2>3. Len(queue'[k]) <= Capacity
    <3>1. Len(queue'[k]) = 0
      BY <1>3, <2>1
    <3> QED
      BY <3>1, BatcherAssumption DEF BatcherAssumption
  <2> QED
    BY <1>1, <2>1, <2>2, <2>3, Zenon
<1>6. ~Serving' /\ Passed'
  BY <1>1 DEF Serving, Passed, Idle
<1>7. Called'
  <2>1. \A i \in 1..Len(requests') : FALSE
    BY <1>1, <1>3
  <2> QED
    BY <1>1, <1>6, <2>1 DEF Called
<1>8. Covered'
  <2>1. \A k \in Kinds : Len(Surviving[k]) \in Nat
    BY <1>2, LenProperties
  <2>2. \A k \in Kinds : NoCall.upto[k] <= Len(Surviving[k])
    BY <2>1 DEF NoCall
  <2>3. NoCall.reply # "ok"
    BY DEF NoCall
  <2> QED
    BY <1>1, <1>6, <2>2, <2>3 DEF Covered
<1>9. Stopped'
  BY <1>1, <1>6 DEF Stopped, NoCall, Callers
<1> QED
  BY <1>4, <1>5, <1>6, <1>7, <1>8, <1>9 DEF Inv

\* A deletion of records touches nothing of the flow, nor does what is persisted.
LEMMA DeletionSame ==
  ASSUME Inv,
         \/ \E c \in Clients : DeleteEntity(c)
         \/ DeleteCounters \/ DeleteTraffic \/ ClearReportTrafficStates
         \/ \E k \in Kinds : Persist(k)
  PROVE  Inv'
<1>1. UNCHANGED flow
  BY DEF DeleteEntity, DeleteCounters, DeleteTraffic, ClearReportTrafficStates, Persist, flow
<1> QED
  BY <1>1, FlowSame

LEMMA StepInv == Inv /\ Persisted /\ [Next]_vars => Inv'
<1> SUFFICES ASSUME Inv, Persisted, [Next]_vars PROVE Inv'
  OBVIOUS
<1>1. CASE \E r \in Report : WriteReport(r)
  <2>1. PICK r \in Report : Enqueue("report", r)
    BY <1>1 DEF WriteReport
  <2>2. r \in Items /\ "report" \in Kinds
    BY DEF Items, Kinds
  <2> QED
    BY <2>1, <2>2, EnqueueStep
<1>2. CASE WritePingRecord
  <2> DEFINE item == Len(accepted["ping"]) + 1
  <2>1. "ping" \in Kinds /\ Len(accepted["ping"]) \in Nat
    BY Numbers DEF Inv, Kinds
  <2>2. item \in Items
    BY <2>1 DEF Items
  <2>3. Enqueue("ping", item)
    BY <1>2 DEF WritePingRecord
  <2> HIDE DEF item
  <2> QED
    BY <2>1, <2>2, <2>3, EnqueueStep
<1>3. CASE \E c \in Flushers : FlushCall(c)
  BY <1>3, FlushCallStep
<1>4. CASE \E c \in Stoppers : StopCall(c)
  BY <1>4, StopCallStep
<1>5. CASE \E c \in Callers : Send(c) \/ Expire(c) \/ Receive(c)
  BY <1>5, SendStep, ExpireStep, ReceiveStep
<1>6. CASE TakeRequest \/ TakeTick
  BY <1>6, TakeRequestStep, TakeTickStep
<1>7. CASE WriteReports \/ NoReports \/ WritePings
  BY <1>7, WriteReportsStep, NoReportsStep, WritePingsStep
<1>8. CASE PingsDone(TRUE) \/ PingsDone(FALSE)
  BY <1>8, PingsDoneStep
<1>9. CASE Reply
  BY <1>9, ReplyStep
<1>10. CASE \/ \E c \in Clients : DeleteEntity(c)
            \/ DeleteCounters \/ DeleteTraffic \/ ClearReportTrafficStates
            \/ \E k \in Kinds : Persist(k)
  BY <1>10, DeletionSame
<1>11. CASE Restart
  BY <1>11, RestartStep
<1>12. CASE UNCHANGED vars
  BY <1>12, FlowSame DEF vars, flow
<1> QED
  BY <1>1, <1>2, <1>3, <1>4, <1>5, <1>6, <1>7, <1>8, <1>9, <1>10, <1>11, <1>12 DEF Next

\* What was written only grows until the process restarts.
LEMMA PersistedGrows ==
  ASSUME Inv, Persisted, NEW k \in Kinds, NEW s \in Seq(Items),
         written' = [written EXCEPT ![k] = written[k] \o s], durable' = durable
  PROVE  Persisted'
<1>1. /\ written \in [Kinds -> Seq(Items)] /\ durable \in [Kinds -> Nat]
      /\ \A l \in Kinds : durable[l] <= Len(written[l])
  BY WorkFacts DEF Persisted
<1>2. /\ Len(written[k] \o s) = Len(written[k]) + Len(s)
      /\ Len(written[k]) \in Nat /\ Len(s) \in Nat
  BY <1>1, ConcatProperties, LenProperties
<1>3. durable[k] <= Len(written[k] \o s)
  <2>1. durable[k] \in Nat /\ durable[k] <= Len(written[k])
    BY <1>1
  <2>2. \A d, l, m, n : d \in Nat /\ l \in Nat /\ m \in Nat /\ n = l + m /\ d <= l => d <= n
    OBVIOUS
  <2> QED
    BY <1>2, <2>1, <2>2, Zenon
<1>4. \A l \in Kinds : written'[l] = IF l = k THEN written[k] \o s ELSE written[l]
  BY <1>1
<1> QED
  BY <1>1, <1>3, <1>4 DEF Persisted

LEMMA PersistedStep == Inv /\ Persisted /\ [Next]_vars => Persisted'
<1> SUFFICES ASSUME Inv, Persisted, [Next]_vars PROVE Persisted'
  OBVIOUS
<1> USE DEF database
<1>1. CASE UNCHANGED <<written, durable>>
  BY <1>1 DEF Persisted
<1>2. CASE \/ \E r \in Report : WriteReport(r)
           \/ WritePingRecord
           \/ \E c \in Flushers : FlushCall(c)
           \/ \E c \in Stoppers : StopCall(c)
           \/ \E c \in Callers : Send(c) \/ Expire(c) \/ Receive(c)
  <2>1. UNCHANGED <<written, durable>>
    BY <1>2 DEF WriteReport, WritePingRecord, Enqueue, FlushCall, StopCall, Send, Expire, Receive
  <2> QED
    BY <1>1, <2>1
<1>3. CASE \/ TakeRequest \/ TakeTick \/ NoReports \/ PingsDone(TRUE) \/ PingsDone(FALSE) \/ Reply
           \/ \E c \in Clients : DeleteEntity(c)
           \/ DeleteCounters \/ DeleteTraffic \/ ClearReportTrafficStates
           \/ UNCHANGED vars
  <2>1. UNCHANGED <<written, durable>>
    BY <1>3 DEF TakeRequest, TakeTick, NoReports, PingsDone, Reply, DeleteEntity,
                DeleteCounters, DeleteTraffic, ClearReportTrafficStates, vars
  <2> QED
    BY <1>1, <2>1
<1>4. CASE WriteReports
  <2>1. durable' = durable
    BY <1>4 DEF WriteReports
  <2>2. CASE written' = written
    BY <1>1, <2>1, <2>2
  <2>3. CASE \E failed \in SUBSET Unrestored : ReportsWritten(failed)
    <3>1. /\ written' = [written EXCEPT !["report"] = written["report"] \o pending["report"]]
          /\ "report" \in Kinds /\ pending["report"] \in Seq(Items)
      BY <2>3, WorkFacts DEF ReportsWritten, Kinds
    <3> QED
      BY ONLY <2>1, <3>1, Inv, Persisted, PersistedGrows
  <2> QED
    BY <1>4, <2>2, <2>3 DEF WriteReports, ReportsRefused, ReportsFail
<1>5. CASE WritePings
  <2> DEFINE n == IF Len(pending["ping"]) > PingChunk THEN PingChunk ELSE Len(pending["ping"])
  <2>1. /\ written' = [written EXCEPT !["ping"] = written["ping"] \o SubSeq(pending["ping"], 1, n)]
        /\ durable' = durable
    BY <1>5 DEF WritePings
  <2>2. pending["ping"] \in Seq(Items) /\ "ping" \in Kinds
    BY WorkFacts DEF Kinds
  <2>3. Len(pending["ping"]) \in Nat /\ n \in Nat /\ n <= Len(pending["ping"])
    BY <2>2, LenProperties, BatcherAssumption DEF BatcherAssumption
  <2> HIDE DEF n
  <2>4. SubSeq(pending["ping"], 1, n) \in Seq(Items)
    BY ONLY <2>2, <2>3, PrefixTyped
  <2> QED
    BY ONLY <2>1, <2>2, <2>4, Inv, Persisted, PersistedGrows
<1>6. ASSUME NEW k \in Kinds, Persist(k) PROVE Persisted'
  <2>1. durable' = [durable EXCEPT ![k] = Len(written[k])] /\ written' = written
    BY <1>6 DEF Persist
  <2>2. Len(written[k]) \in Nat /\ durable \in [Kinds -> Nat]
    BY Numbers DEF Inv, Persisted
  <2> QED
    BY <2>1, <2>2 DEF Persisted
<1>7. CASE Restart
  <2>1. written' = Surviving /\ durable' = durable
    BY <1>7 DEF Restart
  <2>2. \A l \in Kinds : durable[l] \in Nat /\ Len(Surviving[l]) = durable[l]
    BY SurvivingFacts DEF Persisted
  <2> HIDE DEF Surviving
  <2> QED
    BY <2>1, <2>2 DEF Persisted
<1> QED
  BY <1>2, <1>3, <1>4, <1>5, <1>6, <1>7 DEF Next

LEMMA Invariance == Spec => [](Inv /\ Persisted)
<1>1. Init => Persisted
  BY EmptySeq DEF Init, NoItems, Persisted
<1> QED
  BY <1>1, InitInv, StepInv, PersistedStep, PTL DEF Spec

-----------------------------------------------------------------------------
(* Induction over the reports of a batch.  The natural numbers are well-founded, *)
(* so a set that holds zero and the successors of its members holds them all;    *)
(* membership in such a set stands for the property that is proved.              *)

LEMMA Least ==
  ASSUME NEW T \in SUBSET Nat, T # {}
  PROVE  \E m \in T : \A k \in T : m <= k
<1> DEFINE R == OpToRel(<, Nat)
<1>1. IsWellFoundedOn(R, Nat)
  BY NatLessThanWellFounded, Zenon
<1>2. \A x, y \in Nat : <<y, x>> \in R <=> y < x
  BY DEF OpToRel
<1> HIDE DEF R
<1>3. \E x \in T : \A y \in T : <<y, x>> \notin R
  BY <1>1, WFMin
<1>4. PICK m \in T : \A y \in T : <<y, m>> \notin R
  BY <1>3
<1>5. \A y \in T : y \in Nat /\ ~ (y < m)
  BY <1>2, <1>4
<1> QED
  BY <1>5

LEMMA NaturalInduction ==
  ASSUME NEW S, 0 \in S, \A n \in Nat : n \in S => n + 1 \in S
  PROVE  Nat \subseteq S
<1> SUFFICES ASSUME Nat \ S # {} PROVE FALSE
  OBVIOUS
<1>1. PICK m \in Nat \ S : \A k \in Nat \ S : m <= k
  BY Least, Nat \ S \in SUBSET Nat
<1>2. m # 0 /\ m - 1 \in Nat /\ ~ (m <= m - 1)
  BY <1>1
<1>3. m - 1 \in S
  BY <1>1, <1>2
<1> QED
  BY <1>1, <1>2, <1>3

\* The account after one more report.
Entry(batch, c, n, account) ==
  IF batch[n].client = c THEN Charge(account, batch[n].total) ELSE account

\* What Course defines exists: the account before the first report, and after each.
LEMMA CourseSteps ==
  ASSUME NEW s \in Seq(Report), NEW c, NEW a
  PROVE  /\ Course(s, c, a)[0] = a
         /\ \A n \in Nat : n + 1 <= Len(s) =>
              Course(s, c, a)[n + 1] = Entry(s, c, n + 1, Course(s, c, a)[n])
<1> DEFINE Rec(f, m) ==
      f = [n \in 0..m |-> IF n = 0 THEN a
                          ELSE IF s[n].client = c THEN Charge(f[n - 1], s[n].total)
                          ELSE f[n - 1]]
           S == {m \in Nat : \E f : Rec(f, m)}
<1>1. Len(s) \in Nat
  BY LenProperties
<1>2. \A f, m : Rec(f, m) =>
        f = [n \in 0..m |-> IF n = 0 THEN a ELSE Entry(s, c, n, f[n - 1])]
  BY DEF Entry
<1>3. \A f, m : f = [n \in 0..m |-> IF n = 0 THEN a ELSE Entry(s, c, n, f[n - 1])] => Rec(f, m)
  BY DEF Entry
<1>4. 0 \in S
  <2> DEFINE f == [n \in 0..0 |-> a]
  <2>1. f = [n \in 0..0 |-> IF n = 0 THEN a ELSE Entry(s, c, n, f[n - 1])]
    OBVIOUS
  <2>2. Rec(f, 0)
    BY <1>3, <2>1
  <2> QED
    BY <2>2
<1>5. \A m \in Nat : m \in S => m + 1 \in S
  <2> SUFFICES ASSUME NEW m \in Nat, NEW f, Rec(f, m) PROVE m + 1 \in S
    OBVIOUS
  <2>1. f = [n \in 0..m |-> IF n = 0 THEN a ELSE Entry(s, c, n, f[n - 1])]
    BY <1>2
  <2> DEFINE g == [n \in 0..(m + 1) |-> IF n = m + 1 THEN Entry(s, c, n, f[m]) ELSE f[n]]
  <2>2. \A n \in 0..(m + 1) : g[n] = IF n = 0 THEN a ELSE Entry(s, c, n, g[n - 1])
    <3> SUFFICES ASSUME NEW n \in 0..(m + 1)
                 PROVE  g[n] = IF n = 0 THEN a ELSE Entry(s, c, n, g[n - 1])
      OBVIOUS
    <3>1. CASE n = 0
      BY <2>1, <3>1
    <3>2. CASE n # 0 /\ n # m + 1
      <4>1. n \in 0..m /\ n - 1 \in 0..m /\ n - 1 # m + 1
        BY <3>2
      <4> QED
        BY <2>1, <3>2, <4>1
    <3>3. CASE n = m + 1
      <4>1. n # 0 /\ n - 1 = m /\ m \in 0..(m + 1) /\ m # m + 1
        BY <3>3
      <4> QED
        BY <3>3, <4>1
    <3> QED
      BY <3>1, <3>2, <3>3
  <2>3. g = [n \in 0..(m + 1) |-> IF n = 0 THEN a ELSE Entry(s, c, n, g[n - 1])]
    BY <2>2
  <2>4. Rec(g, m + 1)
    BY ONLY <1>3, <2>3
  <2>5. m + 1 \in Nat
    OBVIOUS
  <2> HIDE DEF Rec, g
  <2> QED
    BY <2>4, <2>5, Zenon
<1>6. Len(s) \in S
  <2> HIDE DEF S
  <2> QED
    <3>1. Nat \subseteq S
      BY ONLY <1>4, <1>5, NaturalInduction
    <3> QED
      BY <1>1, <3>1
<1>7. Rec(Course(s, c, a), Len(s))
  <2>1. \E f : Rec(f, Len(s))
    BY <1>6
  <2>2. Course(s, c, a) = CHOOSE f : Rec(f, Len(s))
    BY DEF Course
  <2> HIDE DEF Rec
  <2> QED
    BY <2>1, <2>2, Zenon
<1>8. Course(s, c, a) = [n \in 0..Len(s) |-> IF n = 0 THEN a ELSE Entry(s, c, n, Course(s, c, a)[n - 1])]
  <2> HIDE DEF Rec
  <2> QED
    BY <1>2, <1>7
<1> DEFINE C == Course(s, c, a)
           L == Len(s)
<1>9. C = [n \in 0..L |-> IF n = 0 THEN a ELSE Entry(s, c, n, C[n - 1])] /\ L \in Nat
  BY <1>1, <1>8
<1>10. SUFFICES C[0] = a /\ \A n \in Nat : n + 1 <= L => C[n + 1] = Entry(s, c, n + 1, C[n])
  OBVIOUS
<1> HIDE DEF C, L
<1>11. C[0] = a
  <2>1. 0 \in 0..L
    BY <1>9
  <2> QED
    BY <1>9, <2>1
<1>12. ASSUME NEW n \in Nat, n + 1 <= L PROVE C[n + 1] = Entry(s, c, n + 1, C[n])
  <2>1. n + 1 \in 0..L /\ n + 1 # 0 /\ (n + 1) - 1 = n
    BY <1>9, <1>12
  <2> QED
    BY <1>9, <2>1
<1> QED
  BY <1>11, <1>12

-----------------------------------------------------------------------------
(* The accounts of a client along a batch. *)

LEMMA ChargeTyped ==
  ASSUME NEW a \in Account, NEW t \in Totals
  PROVE  Charge(a, t) \in Account /\ Charge(a, t).last = t
<1>1. MaxTotal \in Nat /\ MaxReset \in Nat
  BY BatcherAssumption DEF BatcherAssumption
<1>2. \A x, y \in Totals : Delta(x, y) \in Nat
  BY <1>1 DEF Delta, Totals
<1>3. Traffic(t, a.last) \in Nat
  BY <1>2 DEF Traffic, Account
<1>4. a.charged + Traffic(t, a.last) \in Nat
  BY <1>3 DEF Account
<1> QED
  BY <1>4 DEF Charge, Account

\* One of the first n reports is of client c.
Reported(batch, c, n) == \E i \in 1..n : batch[i].client = c

LEMMA CourseTyped ==
  ASSUME NEW s \in Seq(Report), NEW c, NEW a \in Account
  PROVE  \A n \in Nat : n <= Len(s) => Course(s, c, a)[n] \in Account
<1> DEFINE C == Course(s, c, a)
           S == {n \in Nat : n <= Len(s) => C[n] \in Account}
<1>1. Len(s) \in Nat
  BY LenProperties
<1>2. /\ C[0] = a
      /\ \A n \in Nat : n + 1 <= Len(s) => C[n + 1] = Entry(s, c, n + 1, C[n])
  BY CourseSteps
<1> HIDE DEF C
<1>3. \A n \in Nat : n \in S => n + 1 \in S
  <2> SUFFICES ASSUME NEW n \in Nat, n \in S, n + 1 <= Len(s) PROVE C[n + 1] \in Account
    OBVIOUS
  <2>1. n <= Len(s) /\ n + 1 \in 1..Len(s)
    BY <1>1
  <2>2. s[n + 1] \in Report
    BY <2>1, ElementOfSeq
  <2>3. s[n + 1].total \in Totals
    BY <2>2 DEF Report
  <2>4. C[n] \in Account
    BY <2>1
  <2>5. Charge(C[n], s[n + 1].total) \in Account
    BY <2>3, <2>4, ChargeTyped
  <2> QED
    BY <1>2, <2>4, <2>5 DEF Entry
<1>4. 0 \in S
  BY <1>2
<1>5. Nat \subseteq S
  <2> HIDE DEF S
  <2> QED
    BY ONLY <1>3, <1>4, NaturalInduction
<1> QED
  BY <1>5 DEF C

\* Reports of others leave an account as it is.
LEMMA CourseOfOthers ==
  ASSUME NEW s \in Seq(Report), NEW c, NEW a
  PROVE  \A n \in Nat : n <= Len(s) /\ ~Reported(s, c, n) => Course(s, c, a)[n] = a
<1> DEFINE C == Course(s, c, a)
           S == {n \in Nat : n <= Len(s) /\ ~Reported(s, c, n) => C[n] = a}
<1>1. Len(s) \in Nat
  BY LenProperties
<1>2. /\ C[0] = a
      /\ \A n \in Nat : n + 1 <= Len(s) => C[n + 1] = Entry(s, c, n + 1, C[n])
  BY CourseSteps
<1> HIDE DEF C
<1>3. \A n \in Nat : n \in S => n + 1 \in S
  <2> SUFFICES ASSUME NEW n \in Nat, n \in S, n + 1 <= Len(s), ~Reported(s, c, n + 1)
               PROVE  C[n + 1] = a
    OBVIOUS
  <2>1. n <= Len(s) /\ n + 1 \in 1..(n + 1) /\ 1..n \subseteq 1..(n + 1)
    BY <1>1
  <2>2. ~Reported(s, c, n) /\ s[n + 1].client # c
    BY <2>1 DEF Reported
  <2> QED
    BY <1>2, <2>1, <2>2 DEF Entry
<1>4. 0 \in S
  BY <1>2
<1>5. Nat \subseteq S
  <2> HIDE DEF S
  <2> QED
    BY ONLY <1>3, <1>4, NaturalInduction
<1> QED
  BY <1>5 DEF C

\* A client's own report sets its counter, whatever it was.
LEMMA CourseForgets ==
  ASSUME NEW s \in Seq(Report), NEW c, NEW a, NEW b
  PROVE  \A n \in Nat : n <= Len(s) /\ Reported(s, c, n) =>
           Course(s, c, a)[n].last = Course(s, c, b)[n].last
<1> DEFINE C == Course(s, c, a)
           D == Course(s, c, b)
           S == {n \in Nat : n <= Len(s) /\ Reported(s, c, n) => C[n].last = D[n].last}
<1>1. Len(s) \in Nat
  BY LenProperties
<1>2. /\ \A n \in Nat : n + 1 <= Len(s) => C[n + 1] = Entry(s, c, n + 1, C[n])
      /\ \A n \in Nat : n + 1 <= Len(s) => D[n + 1] = Entry(s, c, n + 1, D[n])
  BY CourseSteps
<1> HIDE DEF C, D
<1>3. \A n \in Nat : n \in S => n + 1 \in S
  <2> SUFFICES ASSUME NEW n \in Nat, n \in S, n + 1 <= Len(s), Reported(s, c, n + 1)
               PROVE  C[n + 1].last = D[n + 1].last
    OBVIOUS
  <2>1. n <= Len(s) /\ \A i \in 1..(n + 1) : i # n + 1 => i \in 1..n
    BY <1>1
  <2>2. CASE s[n + 1].client = c
    <3>1. \A x, y : Charge(x, y).last = y
      BY DEF Charge
    <3>2. C[n + 1] = Charge(C[n], s[n + 1].total) /\ D[n + 1] = Charge(D[n], s[n + 1].total)
      BY <1>2, <2>2 DEF Entry
    <3>3. /\ Charge(C[n], s[n + 1].total).last = s[n + 1].total
          /\ Charge(D[n], s[n + 1].total).last = s[n + 1].total
      BY ONLY <3>1
    <3> QED
      BY ONLY <3>2, <3>3
  <2>3. CASE s[n + 1].client # c
    <3>1. Reported(s, c, n)
      BY <2>1, <2>3 DEF Reported
    <3>2. n <= Len(s)
      BY <2>1
    <3>3. C[n].last = D[n].last
      BY <3>1, <3>2, Zenon
    <3>4. C[n + 1] = C[n] /\ D[n + 1] = D[n]
      BY <1>2, <2>3 DEF Entry
    <3> QED
      BY <3>3, <3>4
  <2> QED
    BY <2>2, <2>3
<1>4. 0 \in S
  BY DEF Reported
<1>5. Nat \subseteq S
  <2> HIDE DEF S
  <2> QED
    BY ONLY <1>3, <1>4, NaturalInduction
<1> QED
  BY <1>5 DEF C, D

\* Joined batches: the second goes on where the first ends.
LEMMA CourseJoined ==
  ASSUME NEW s \in Seq(Report), NEW t \in Seq(Report), NEW c, NEW a
  PROVE  /\ \A n \in Nat : n <= Len(s) => Course(s \o t, c, a)[n] = Course(s, c, a)[n]
         /\ \A n \in Nat : n <= Len(t) =>
              Course(s \o t, c, a)[Len(s) + n] = Course(t, c, Through(s, c, a))[n]
<1> DEFINE B == s \o t
           C == Course(B, c, a)
           D == Course(s, c, a)
           z == Through(s, c, a)
           E == Course(t, c, z)
           S == {n \in Nat : n <= Len(s) => C[n] = D[n]}
           T == {n \in Nat : n <= Len(t) => C[Len(s) + n] = E[n]}
<1>1. /\ Len(s) \in Nat /\ Len(t) \in Nat /\ B \in Seq(Report) /\ Len(B) = Len(s) + Len(t)
      /\ \A i \in 1..Len(s) : B[i] = s[i]
      /\ \A i \in 1..Len(t) : B[Len(s) + i] = t[i]
  BY LenProperties, ConcatProperties
<1>3. z = D[Len(s)]
  BY DEF Through
<1>4. B \in Seq(Report)
  BY <1>1
<1> HIDE DEF B, z
<1>2. /\ C[0] = a /\ D[0] = a /\ E[0] = z
      /\ \A n \in Nat : n + 1 <= Len(B) => C[n + 1] = Entry(B, c, n + 1, C[n])
  BY <1>4, CourseSteps
<1>5. \A n \in Nat : n + 1 <= Len(s) => D[n + 1] = Entry(s, c, n + 1, D[n])
  BY CourseSteps
<1>6. \A n \in Nat : n + 1 <= Len(t) => E[n + 1] = Entry(t, c, n + 1, E[n])
  BY CourseSteps
<1> HIDE DEF C, D, E
<1>7. Nat \subseteq S
  <2>1. \A n \in Nat : n \in S => n + 1 \in S
    <3> SUFFICES ASSUME NEW n \in Nat, n \in S, n + 1 <= Len(s) PROVE C[n + 1] = D[n + 1]
      OBVIOUS
    <3>1. n <= Len(s) /\ n + 1 <= Len(B) /\ n + 1 \in 1..Len(s)
      BY <1>1
    <3>2. C[n] = D[n] /\ B[n + 1] = s[n + 1]
      BY <1>1, <3>1
    <3>3. Entry(B, c, n + 1, C[n]) = Entry(s, c, n + 1, D[n])
      BY <3>2 DEF Entry
    <3> QED
      BY <1>2, <1>5, <3>1, <3>3
  <2>2. 0 \in S
    BY <1>2
  <2> HIDE DEF S
  <2> QED
    BY ONLY <2>1, <2>2, NaturalInduction
<1>8. C[Len(s)] = D[Len(s)]
  BY <1>1, <1>7
<1>9. Nat \subseteq T
  <2>1. \A n \in Nat : n \in T => n + 1 \in T
    <3> SUFFICES ASSUME NEW n \in Nat, n \in T, n + 1 <= Len(t)
                 PROVE  C[Len(s) + (n + 1)] = E[n + 1]
      OBVIOUS
    <3>1. /\ n <= Len(t) /\ n + 1 \in 1..Len(t) /\ Len(s) + n \in Nat
          /\ (Len(s) + n) + 1 <= Len(B) /\ Len(s) + (n + 1) = (Len(s) + n) + 1
      BY <1>1
    <3>2. C[Len(s) + n] = E[n] /\ B[(Len(s) + n) + 1] = t[n + 1]
      BY <1>1, <3>1
    <3>3. Entry(B, c, (Len(s) + n) + 1, C[Len(s) + n]) = Entry(t, c, n + 1, E[n])
      BY <3>2 DEF Entry
    <3> QED
      BY <1>2, <1>6, <3>1, <3>3
  <2>2. 0 \in T
    BY <1>1, <1>2, <1>3, <1>8
  <2> HIDE DEF T
  <2> QED
    BY ONLY <2>1, <2>2, NaturalInduction
<1> QED
  BY <1>7, <1>9 DEF B, C, D, E, z

\* The same of whole batches.
LEMMA ThroughTyped ==
  ASSUME NEW s \in Seq(Report), NEW c, NEW a \in Account
  PROVE  Through(s, c, a) \in Account
<1>1. Len(s) \in Nat /\ Len(s) <= Len(s)
  BY LenProperties
<1> QED
  BY <1>1, CourseTyped DEF Through

LEMMA ThroughOthers ==
  ASSUME NEW s \in Seq(Report), NEW c, NEW a, ~Reports(s, c)
  PROVE  Through(s, c, a) = a
<1>1. Len(s) \in Nat /\ Len(s) <= Len(s)
  BY LenProperties
<1>2. ~Reported(s, c, Len(s))
  BY DEF Reports, Reported
<1> QED
  BY <1>1, <1>2, CourseOfOthers DEF Through

LEMMA ThroughForgets ==
  ASSUME NEW s \in Seq(Report), NEW c, NEW a, NEW b, Reports(s, c)
  PROVE  Through(s, c, a).last = Through(s, c, b).last
<1>1. Len(s) \in Nat /\ Len(s) <= Len(s)
  BY LenProperties
<1>2. Reported(s, c, Len(s))
  BY DEF Reports, Reported
<1> QED
  BY <1>1, <1>2, CourseForgets DEF Through

LEMMA ThroughJoined ==
  ASSUME NEW s \in Seq(Report), NEW t \in Seq(Report), NEW c, NEW a
  PROVE  Through(s \o t, c, a) = Through(t, c, Through(s, c, a))
<1>1. Len(t) \in Nat /\ Len(t) <= Len(t) /\ Len(s \o t) = Len(s) + Len(t)
  BY LenProperties, ConcatProperties
<1>2. Course(s \o t, c, a)[Len(s) + Len(t)] = Course(t, c, Through(s, c, a))[Len(t)]
  BY <1>1, CourseJoined
<1> QED
  BY <1>1, <1>2 DEF Through

LEMMA ReportsJoined ==
  ASSUME NEW s \in Seq(Report), NEW t \in Seq(Report), NEW c
  PROVE  Reports(s \o t, c) <=> Reports(s, c) \/ Reports(t, c)
<1> DEFINE B == s \o t
<1>1. /\ Len(s) \in Nat /\ Len(t) \in Nat /\ Len(B) = Len(s) + Len(t)
      /\ \A i \in 1..Len(s) : B[i] = s[i]
      /\ \A i \in 1..Len(t) : B[Len(s) + i] = t[i]
  BY LenProperties, ConcatProperties
<1> HIDE DEF B
<1>2. ASSUME Reports(B, c) PROVE Reports(s, c) \/ Reports(t, c)
  <2>1. PICK i \in 1..Len(B) : B[i].client = c
    BY <1>2 DEF Reports
  <2>2. CASE i \in 1..Len(s)
    BY <1>1, <2>1, <2>2 DEF Reports
  <2>3. CASE i \notin 1..Len(s)
    <3>1. i - Len(s) \in 1..Len(t) /\ Len(s) + (i - Len(s)) = i
      BY <1>1, <2>3
    <3>2. t[i - Len(s)].client = c
      BY <1>1, <2>1, <3>1
    <3> QED
      BY <3>1, <3>2 DEF Reports
  <2> QED
    BY <2>2, <2>3
<1>3. ASSUME Reports(s, c) PROVE Reports(B, c)
  <2>1. PICK i \in 1..Len(s) : s[i].client = c
    BY <1>3 DEF Reports
  <2>2. i \in 1..Len(B) /\ B[i].client = c
    BY <1>1, <2>1
  <2> QED
    BY <2>2 DEF Reports
<1>4. ASSUME Reports(t, c) PROVE Reports(B, c)
  <2>1. PICK i \in 1..Len(t) : t[i].client = c
    BY <1>4 DEF Reports
  <2>2. Len(s) + i \in 1..Len(B) /\ B[Len(s) + i].client = c
    BY <1>1, <2>1
  <2> QED
    BY <2>2 DEF Reports
<1> QED
  BY <1>2, <1>3, <1>4 DEF B

-----------------------------------------------------------------------------
(* The types of the rest. *)

ItemsOf(k) == IF k = "report" THEN Report ELSE 1..MaxPings

\* What was accepted, and how much.
AcceptedType ==
  /\ \A k \in Kinds : accepted[k] \in Seq(ItemsOf(k))
  /\ Len(accepted["report"]) <= MaxReports

\* What the worker is busy with; only one request fits into the slot.
WorkType ==
  /\ ~Serving => work.for = "none"
  /\ Len(requests) <= 1

\* The traffic states, the store and the deletions.
StoreType ==
  /\ incidents \in Incidents
  /\ clearing \in [clients : SUBSET Clients, left : {"nothing", "traffic", "states"}]
  /\ origin \in [Clients -> Nat] /\ \A c \in Clients : origin[c] <= Len(written["report"])
  /\ states \in [Clients -> [init : BOOLEAN, last : Totals \cup {None}]]
  /\ stored \in [Clients -> Account] /\ kept \in [Clients -> Account]

LEMMA JoinedParts ==
  ASSUME NEW s \in Seq(Items), NEW t \in Seq(Items), NEW E, s \o t \in Seq(E)
  PROVE  s \in Seq(E) /\ t \in Seq(E) /\ Len(s \o t) = Len(s) + Len(t)
<1> DEFINE b == s \o t
<1>1. /\ Len(s) \in Nat /\ Len(t) \in Nat /\ Len(b) = Len(s) + Len(t)
      /\ \A i \in 1..Len(s) : b[i] = s[i]
      /\ \A i \in 1..Len(t) : b[Len(s) + i] = t[i]
  BY LenProperties, ConcatProperties
<1>2. \A i \in 1..Len(b) : b[i] \in E
  BY ElementOfSeq
<1> HIDE DEF b
<1>3. \A i \in 1..Len(s) : s[i] \in E
  BY <1>1, <1>2
<1>4. \A i \in 1..Len(t) : t[i] \in E
  <2> SUFFICES ASSUME NEW i \in 1..Len(t) PROVE t[i] \in E
    OBVIOUS
  <2>1. Len(s) + i \in 1..Len(b)
    BY <1>1
  <2> QED
    BY <1>1, <1>2, <2>1
<1>5. s = [i \in 1..Len(s) |-> s[i]] /\ t = [i \in 1..Len(t) |-> t[i]]
  BY LenProperties
<1>6. \A n \in Nat : \A f : (\A i \in 1..n : f[i] \in E) => [i \in 1..n |-> f[i]] \in Seq(E)
  OBVIOUS
<1>7. s \in Seq(E)
  BY <1>1, <1>3, <1>5, <1>6, Zenon
<1>8. t \in Seq(E)
  BY <1>1, <1>4, <1>5, <1>6, Zenon
<1> QED
  BY <1>1, <1>7, <1>8 DEF b

\* What is written, pending or queued was accepted.
LEMMA PartsTyped ==
  ASSUME Inv, AcceptedType
  PROVE  /\ \A k \in Kinds : /\ written[k] \in Seq(ItemsOf(k)) /\ pending[k] \in Seq(ItemsOf(k))
                             /\ queue[k] \in Seq(ItemsOf(k))
         /\ Len(written["report"]) <= MaxReports
<1>1. ASSUME NEW k \in Kinds
      PROVE  /\ written[k] \in Seq(ItemsOf(k)) /\ pending[k] \in Seq(ItemsOf(k))
             /\ queue[k] \in Seq(ItemsOf(k))
             /\ Len(accepted[k]) = (Len(written[k]) + Len(pending[k])) + Len(queue[k])
  <2> DEFINE w == written[k]
             p == pending[k]
             q == queue[k]
             wp == w \o p
             E == ItemsOf(k)
  <2>1. w \in Seq(Items) /\ p \in Seq(Items) /\ q \in Seq(Items)
    BY DEF Inv, FlowType
  <2>2. wp \in Seq(Items)
    BY <2>1, ConcatProperties
  <2>3. wp \o q = accepted[k] /\ accepted[k] \in Seq(E)
    BY DEF Inv, AcceptedInOrder, AcceptedType
  <2> HIDE DEF w, p, q, wp, E
  <2>4. wp \in Seq(E) /\ q \in Seq(E) /\ Len(wp \o q) = Len(wp) + Len(q)
    <3>1. wp \o q \in Seq(E)
      BY <2>3
    <3>2. wp \in Seq(Items) /\ q \in Seq(Items)
      BY <2>1, <2>2
    <3> QED
      BY ONLY <3>1, <3>2, JoinedParts
  <2>5. w \in Seq(E) /\ p \in Seq(E) /\ Len(wp) = Len(w) + Len(p)
    <3>1. w \o p \in Seq(E)
      BY <2>4 DEF wp
    <3>2. w \o p \in Seq(E) /\ w \in Seq(Items) /\ p \in Seq(Items)
      BY <2>1, <3>1
    <3>3. w \in Seq(E) /\ p \in Seq(E) /\ Len(w \o p) = Len(w) + Len(p)
      BY ONLY <3>2, JoinedParts
    <3> QED
      BY <3>3 DEF wp
  <2>6. Len(accepted[k]) = (Len(w) + Len(p)) + Len(q)
    BY <2>3, <2>4, <2>5, Zenon
  <2> QED
    BY <2>4, <2>5, <2>6, Zenon DEF w, p, q, E
<1>2. Len(written["report"]) <= MaxReports
  <2>1. "report" \in Kinds
    BY DEF Kinds
  <2>2. /\ Len(written["report"]) \in Nat /\ Len(pending["report"]) \in Nat
        /\ Len(queue["report"]) \in Nat /\ MaxReports \in Nat
    BY <2>1, Numbers, BatcherAssumption DEF Inv, BatcherAssumption
  <2>3. Len(accepted["report"]) <= MaxReports
    BY DEF AcceptedType
  <2>4. \A a, b, c, d, m \in Nat : d = (a + b) + c /\ d <= m => a <= m
    OBVIOUS
  <2>5. Len(accepted["report"]) \in Nat
    BY <2>1, Numbers DEF Inv
  <2> QED
    BY <1>1, <2>1, <2>2, <2>3, <2>4, <2>5, Zenon
<1> QED
  BY <1>1, <1>2

LEMMA SurvivingTyped ==
  ASSUME Inv, Persisted, AcceptedType
  PROVE  /\ \A k \in Kinds : Surviving[k] \in Seq(ItemsOf(k)) /\ Len(Surviving[k]) = durable[k]
         /\ Len(Surviving["report"]) <= MaxReports
<1>1. ASSUME NEW k \in Kinds
      PROVE  Surviving[k] \in Seq(ItemsOf(k)) /\ Len(Surviving[k]) = durable[k]
  <2> DEFINE E == ItemsOf(k)
  <2>1. written[k] \in Seq(E) /\ durable[k] \in Nat /\ durable[k] <= Len(written[k])
    BY PartsTyped DEF Persisted
  <2> HIDE DEF E
  <2>2. SubSeq(written[k], 1, durable[k]) \in Seq(E) /\ Len(SubSeq(written[k], 1, durable[k])) = durable[k]
    BY ONLY <2>1, PrefixTyped
  <2> QED
    BY <2>2 DEF Surviving, E
<1>2. Len(Surviving["report"]) <= MaxReports
  <2>1. "report" \in Kinds
    BY DEF Kinds
  <2>2. /\ durable["report"] \in Nat /\ durable["report"] <= Len(written["report"])
        /\ Len(written["report"]) \in Nat /\ Len(written["report"]) <= MaxReports /\ MaxReports \in Nat
    BY <2>1, PartsTyped, Numbers, BatcherAssumption DEF Persisted, Inv, BatcherAssumption
  <2> QED
    BY <1>1, <2>1, <2>2, AtMost
<1> QED
  BY <1>1, <1>2

\* Only the producers and a restart change what counts as accepted.
LEMMA AcceptedChanges ==
  ASSUME [Next]_vars
  PROVE  \/ \E r \in Report : WriteReport(r)
         \/ WritePingRecord
         \/ accepted' = accepted
         \/ accepted' = Surviving
<1>1. CASE \/ \E c \in Flushers : FlushCall(c)
           \/ \E c \in Stoppers : StopCall(c)
           \/ \E c \in Callers : Send(c) \/ Expire(c) \/ Receive(c)
  BY <1>1 DEF FlushCall, StopCall, Send, Expire, Receive
<1>2. CASE TakeRequest \/ TakeTick \/ WriteReports \/ NoReports \/ WritePings
           \/ PingsDone(TRUE) \/ PingsDone(FALSE) \/ Reply
  BY <1>2 DEF TakeRequest, TakeTick, WriteReports, NoReports, WritePings, PingsDone, Reply
<1>3. CASE \/ \E c \in Clients : DeleteEntity(c)
           \/ DeleteCounters \/ DeleteTraffic \/ ClearReportTrafficStates
           \/ \E k \in Kinds : Persist(k)
  BY <1>3 DEF DeleteEntity, DeleteCounters, DeleteTraffic, ClearReportTrafficStates, Persist
<1>4. CASE Restart
  BY <1>4 DEF Restart
<1>5. CASE UNCHANGED vars
  BY <1>5 DEF vars
<1> QED
  BY <1>1, <1>2, <1>3, <1>4, <1>5 DEF Next

LEMMA AcceptedTypeStep == Inv /\ Persisted /\ AcceptedType /\ [Next]_vars => AcceptedType'
<1> SUFFICES ASSUME Inv, Persisted, AcceptedType, [Next]_vars PROVE AcceptedType'
  OBVIOUS
<1>1. accepted \in [Kinds -> Seq(Items)]
  BY DEF Inv, FlowType
<1>2. MaxReports \in Nat /\ MaxPings \in Nat
  BY BatcherAssumption DEF BatcherAssumption
<1>3. ASSUME NEW k \in Kinds, NEW item \in ItemsOf(k), Enqueue(k, item),
             k = "report" => Len(accepted["report"]) < MaxReports
      PROVE  AcceptedType'
  <2> DEFINE a == Append(accepted[k], item)
  <2>1. accepted' = [accepted EXCEPT ![k] = a]
    BY <1>3 DEF Enqueue
  <2>2. accepted[k] \in Seq(ItemsOf(k))
    BY DEF AcceptedType
  <2>3. a \in Seq(ItemsOf(k)) /\ Len(a) = Len(accepted[k]) + 1 /\ Len(accepted[k]) \in Nat
    BY <2>2, AppendProperties, LenProperties
  <2> HIDE DEF a
  <2>4. \A l \in Kinds : accepted'[l] = IF l = k THEN a ELSE accepted[l]
    BY <1>1, <2>1
  <2>5. \A l \in Kinds : accepted'[l] \in Seq(ItemsOf(l))
    BY <2>3, <2>4 DEF AcceptedType
  <2>6. Len(accepted'["report"]) <= MaxReports
    <3>1. "report" \in Kinds
      BY DEF Kinds
    <3>2. CASE k = "report"
      <4>1. Len(accepted'["report"]) = Len(accepted["report"]) + 1
        BY <2>3, <2>4, <3>1, <3>2
      <4> QED
        BY <1>2, <1>3, <2>3, <3>2, <4>1
    <3>3. CASE k # "report"
      BY <2>4, <3>1, <3>3 DEF AcceptedType
    <3> QED
      BY <3>2, <3>3
  <2> QED
    BY <2>5, <2>6 DEF AcceptedType
<1>4. CASE \E r \in Report : WriteReport(r)
  <2>1. PICK r \in Report : Len(accepted["report"]) < MaxReports /\ Enqueue("report", r)
    BY <1>4 DEF WriteReport
  <2>2. "report" \in Kinds /\ r \in ItemsOf("report")
    BY DEF Kinds, ItemsOf
  <2> QED
    BY <1>3, <2>1, <2>2
<1>5. CASE WritePingRecord
  <2> DEFINE item == Len(accepted["ping"]) + 1
  <2>1. "ping" \in Kinds /\ Len(accepted["ping"]) \in Nat
    BY Numbers DEF Inv, Kinds
  <2>2. Len(accepted["ping"]) < MaxPings /\ Enqueue("ping", item)
    BY <1>5 DEF WritePingRecord
  <2>3. item \in ItemsOf("ping")
    BY <1>2, <2>1, <2>2 DEF ItemsOf
  <2> HIDE DEF item
  <2> QED
    BY <1>3, <2>1, <2>2, <2>3
<1>6. CASE accepted' = accepted
  BY <1>6 DEF AcceptedType
<1>7. CASE accepted' = Surviving
  BY <1>7, SurvivingTyped DEF AcceptedType
<1> QED
  BY <1>4, <1>5, <1>6, <1>7, AcceptedChanges

LEMMA WorkTypeStep == Inv /\ WorkType /\ [Next]_vars => WorkType'
<1> SUFFICES ASSUME Inv, WorkType, [Next]_vars PROVE WorkType'
  OBVIOUS
<1>1. work \in Work /\ requests \in Seq(Callers)
  BY WorkFacts
<1>2. Len(<<>>) = 0 /\ \A c : Len(<<c>>) = 1
  OBVIOUS
<1>3. ASSUME NEW failed \in BOOLEAN, After(failed),
             work.pc \in {"reports", "pings", "tick pings", "tick reports"}
      PROVE  ~Serving' => work'.for = "none"
  <2>1. CASE work.pc = "reports"
    <3>1. work' = [work EXCEPT !.pc = "pings", !.err = failed]
      BY <1>3, <2>1 DEF After
    <3> QED
      BY <1>1, <3>1 DEF Work, Serving
  <2>2. CASE work.pc = "pings"
    <3> DEFINE err == work.err \/ failed
    <3>1. work' = [work EXCEPT !.pc = "reply", !.err = err]
      BY <1>3, <2>2 DEF After
    <3> HIDE DEF err
    <3> QED
      BY <1>1, <3>1 DEF Work, Serving
  <2>3. CASE work.pc = "tick pings"
    <3>1. work' = [work EXCEPT !.pc = "tick reports"] /\ ~Serving
      BY <1>3, <2>3 DEF After, Serving
    <3> QED
      BY <1>1, <3>1 DEF Work, WorkType
  <2>4. CASE work.pc = "tick reports"
    <3>1. work' = Idle
      BY <1>3, <2>4 DEF After
    <3> QED
      BY <3>1 DEF Idle
  <2> QED
    BY <1>3, <2>1, <2>2, <2>3, <2>4
<1>4. CASE (\E r \in Report : WriteReport(r)) \/ WritePingRecord
  BY <1>4 DEF WriteReport, WritePingRecord, Enqueue, WorkType, Serving
<1>5. CASE (\E c \in Flushers : FlushCall(c)) \/ (\E c \in Stoppers : StopCall(c))
  BY <1>5 DEF FlushCall, StopCall, channels, WorkType, Serving
<1>6. CASE \E c \in Callers : Send(c) \/ Expire(c) \/ Receive(c)
  <2>1. work' = work /\ (requests' = requests \/ \E c : requests' = <<c>>)
    <3>1. CASE \E c \in Callers : Send(c)
      BY <3>1, Zenon DEF Send
    <3>2. CASE \E c \in Callers : Expire(c) \/ Receive(c)
      BY <3>2 DEF Expire, Receive, channels
    <3> QED
      BY <1>6, <3>1, <3>2
  <2>2. Len(requests') <= 1
    <3>1. CASE requests' = requests
      BY <3>1 DEF WorkType
    <3>2. CASE \E c : requests' = <<c>>
      <4>1. Len(requests') = 1
        BY <1>2, <3>2, Zenon
      <4> QED
        BY <4>1
    <3> QED
      BY <2>1, <3>1, <3>2
  <2> QED
    BY <2>1, <2>2 DEF WorkType, Serving
<1>7. CASE TakeRequest
  <2>1. requests # <<>> /\ requests' = Tail(requests) /\ work'.pc = "reports"
    BY <1>7 DEF TakeRequest
  <2>2. Len(Tail(requests)) = Len(requests) - 1 /\ Len(requests) \in Nat
    BY <1>1, <2>1, HeadTailProperties, LenProperties
  <2>3. Len(requests') <= 1
    BY <2>1, <2>2 DEF WorkType
  <2> QED
    BY <2>1, <2>3 DEF WorkType, Serving
<1>8. CASE TakeTick
  BY <1>8 DEF TakeTick, WorkType
<1>9. CASE WriteReports \/ NoReports
  <2>1. /\ After(TRUE) \/ After(FALSE)
        /\ work.pc \in {"reports", "tick reports"} /\ requests' = requests
    BY <1>9, Zenon DEF WriteReports, NoReports, ReportsRefused, ReportsFail, ReportsWritten, channels
  <2>2. ~Serving' => work'.for = "none"
    BY <1>3, <2>1
  <2> QED
    BY <2>1, <2>2 DEF WorkType
<1>10. CASE WritePings
  BY <1>10 DEF WritePings, WorkType, Serving
<1>11. CASE PingsDone(TRUE) \/ PingsDone(FALSE)
  <2>1. /\ After(TRUE) \/ After(FALSE)
        /\ work.pc \in {"pings", "tick pings"} /\ requests' = requests
    BY <1>11 DEF PingsDone
  <2>2. ~Serving' => work'.for = "none"
    BY <1>3, <2>1
  <2> QED
    BY <2>1, <2>2 DEF WorkType
<1>12. CASE Reply
  <2>1. work'.for = "none"
    BY <1>12 DEF Reply, Idle
  <2> QED
    BY <1>12, <2>1 DEF Reply, channels, WorkType
<1>13. CASE \/ \E c \in Clients : DeleteEntity(c)
            \/ DeleteCounters \/ DeleteTraffic \/ ClearReportTrafficStates
            \/ \E k \in Kinds : Persist(k)
  BY <1>13 DEF DeleteEntity, DeleteCounters, DeleteTraffic, ClearReportTrafficStates, Persist,
               channels, WorkType, Serving
<1>14. CASE Restart
  <2>1. requests' = <<>> /\ work'.for = "none"
    BY <1>14 DEF Restart, Idle
  <2>2. Len(requests') <= 1
    BY <1>2, <2>1
  <2> QED
    BY <2>1, <2>2 DEF WorkType
<1>15. CASE UNCHANGED vars
  BY <1>15 DEF vars, channels, WorkType, Serving
<1> QED
  BY <1>4, <1>5, <1>6, <1>7, <1>8, <1>9, <1>10, <1>11, <1>12, <1>13, <1>14, <1>15 DEF Next

ledger == <<states, stored, database, clearing, origin, incidents>>

\* Reports reach the traffic states and the store only when a batch is written.
LEMMA LedgerChanges ==
  ASSUME Inv, [Next]_vars
  PROVE  \/ WriteReports
         \/ \E c \in Clients : DeleteEntity(c)
         \/ DeleteCounters \/ DeleteTraffic \/ ClearReportTrafficStates
         \/ \E k \in Kinds : Persist(k)
         \/ Restart
         \/ UNCHANGED ledger /\ written'["report"] = written["report"]
<1> USE DEF ledger, deletion
<1>1. CASE (\E r \in Report : WriteReport(r)) \/ WritePingRecord
  BY <1>1 DEF WriteReport, WritePingRecord, Enqueue
<1>2. CASE \/ \E c \in Flushers : FlushCall(c)
           \/ \E c \in Stoppers : StopCall(c)
           \/ \E c \in Callers : Send(c) \/ Expire(c) \/ Receive(c)
  BY <1>2 DEF FlushCall, StopCall, Send, Expire, Receive
<1>3. CASE TakeRequest \/ TakeTick \/ NoReports \/ PingsDone(TRUE) \/ PingsDone(FALSE) \/ Reply
  BY <1>3 DEF TakeRequest, TakeTick, NoReports, PingsDone, Reply
<1>4. CASE WritePings
  <2>1. \E chunks : written' = [written EXCEPT !["ping"] = chunks]
    BY <1>4 DEF WritePings
  <2>2. written'["report"] = written["report"]
    BY <2>1, WorkFacts DEF Kinds
  <2> QED
    BY <1>4, <2>2 DEF WritePings
<1>5. CASE UNCHANGED vars
  BY <1>5 DEF vars
<1> QED
  BY <1>1, <1>2, <1>3, <1>4, <1>5 DEF Next

\* A written batch joins what was written before.
LEMMA BatchWritten ==
  ASSUME Inv, NEW failed, ReportsWritten(failed)
  PROVE  written'["report"] = written["report"] \o pending["report"]
<1>1. \E b : b = written["report"] \o pending["report"] /\ written' = [written EXCEPT !["report"] = b]
  BY DEF ReportsWritten
<1> QED
  BY <1>1, WorkFacts DEF Kinds

LEMMA AfterTyped ==
  ASSUME Inv, AcceptedType, StoreType, NEW failed
  PROVE  /\ StatesAfter \in [Clients -> [init : BOOLEAN, last : Totals \cup {None}]]
         /\ StoredAfter(failed) \in [Clients -> Account]
<1>1. pending["report"] \in Seq(Report)
  BY PartsTyped DEF Kinds, ItemsOf
<1>2. NoAccount \in Account
  BY DEF NoAccount, Account
<1>3. ASSUME NEW c \in Clients PROVE Restored(c, failed) \in Totals \cup {None}
  <2>1. states[c].last \in Totals \cup {None} /\ stored[c].last \in Totals \cup {None}
    BY DEF StoreType, Account
  <2> QED
    BY <2>1 DEF Restored
<1>4. ASSUME NEW c \in Clients
      PROVE  Through(pending["report"], c, NoAccount).last \in Totals \cup {None}
  <2>1. Through(pending["report"], c, NoAccount) \in Account
    BY <1>1, <1>2, ThroughTyped
  <2> QED
    BY <2>1 DEF Account
<1>5. ASSUME NEW c \in Clients
      PROVE  Through(pending["report"], c,
               [last |-> Restored(c, failed), charged |-> stored[c].charged]) \in Account
  <2> DEFINE a == [last |-> Restored(c, failed), charged |-> stored[c].charged]
  <2>1. a \in Account
    BY <1>3 DEF StoreType, Account
  <2> HIDE DEF a
  <2>2. Through(pending["report"], c, a) \in Account
    BY <1>1, <2>1, ThroughTyped
  <2> QED
    BY <2>2 DEF a
<1>6. StatesAfter \in [Clients -> [init : BOOLEAN, last : Totals \cup {None}]]
  <2>1. \A c \in Clients : states[c] \in [init : BOOLEAN, last : Totals \cup {None}]
    BY DEF StoreType
  <2> QED
    BY <1>4, <2>1 DEF StatesAfter
<1>7. StoredAfter(failed) \in [Clients -> Account]
  <2>1. \A c \in Clients : stored[c] \in Account
    BY DEF StoreType
  <2> QED
    BY <1>5, <2>1, Zenon DEF StoredAfter
<1> QED
  BY <1>6, <1>7

LEMMA StoreTypeStep == Inv /\ Persisted /\ AcceptedType /\ StoreType /\ [Next]_vars => StoreType'
<1> SUFFICES ASSUME Inv, Persisted, AcceptedType, StoreType, [Next]_vars PROVE StoreType'
  OBVIOUS
<1>1. /\ written["report"] \in Seq(Report) /\ pending["report"] \in Seq(Report)
      /\ Len(written["report"]) \in Nat
  BY PartsTyped, LenProperties DEF Kinds, ItemsOf
<1>2. {} \in Incidents
  BY BatcherAssumption DEF BatcherAssumption
<1>3. NoAccount \in Account /\ Fresh \in [init : BOOLEAN, last : Totals \cup {None}]
  BY DEF NoAccount, Account, Fresh
<1>4. CASE WriteReports
  <2>1. incidents' \in Incidents /\ UNCHANGED <<deletion, database>>
    BY <1>4 DEF WriteReports
  <2>2. CASE ReportsRefused
    BY <2>1, <2>2 DEF ReportsRefused, deletion, database, StoreType
  <2>3. CASE \E failed \in SUBSET Unrestored : ReportsFail(failed)
    <3>1. PICK failed : /\ states' = StatesAfter /\ stored' \in {stored, StoredAfter(failed)}
                        /\ written' = written
      BY <2>3 DEF ReportsFail
    <3> QED
      BY <2>1, <3>1, AfterTyped DEF deletion, database, StoreType
  <2>4. CASE \E failed \in SUBSET Unrestored : ReportsWritten(failed)
    <3>1. PICK failed : ReportsWritten(failed)
      BY <2>4
    <3>2. states' = StatesAfter /\ stored' = StoredAfter(failed)
      BY <3>1 DEF ReportsWritten
    <3>3. written'["report"] = written["report"] \o pending["report"]
      BY <3>1, BatchWritten
    <3>4. Len(written["report"] \o pending["report"]) = Len(written["report"]) + Len(pending["report"])
      BY <1>1, ConcatProperties
    <3>5. Len(pending["report"]) \in Nat
      BY <1>1, LenProperties
    <3>6. Len(written'["report"]) = Len(written["report"]) + Len(pending["report"])
      BY <3>3, <3>4, Zenon
    <3>7. \A c \in Clients : origin[c] <= Len(written'["report"])
      <4>1. \A o, l, m, n : o \in Nat /\ l \in Nat /\ m \in Nat /\ n = l + m /\ o <= l => o <= n
        OBVIOUS
      <4>2. \A c \in Clients : origin[c] \in Nat /\ origin[c] <= Len(written["report"])
        BY DEF StoreType
      <4> QED
        BY <1>1, <3>5, <3>6, <4>1, <4>2, Zenon
    <3> QED
      BY <2>1, <3>2, <3>7, AfterTyped DEF deletion, database, StoreType
  <2> QED
    BY <1>4, <2>2, <2>3, <2>4 DEF WriteReports
<1>5. ASSUME NEW cs, Uncharged(cs), written' = written
      PROVE  /\ origin' \in [Clients -> Nat]
             /\ \A c \in Clients : origin'[c] <= Len(written'["report"])
  BY <1>1, <1>5 DEF Uncharged, StoreType
<1>6. ASSUME NEW c \in Clients, DeleteEntity(c) PROVE StoreType'
  <2>1. /\ clearing' = [clients |-> {c}, left |-> "states"] /\ incidents' \in Incidents
        /\ stored' = [stored EXCEPT ![c] = NoAccount] /\ kept' = [kept EXCEPT ![c] = NoAccount]
        /\ Uncharged({c})
        /\ UNCHANGED <<states, written>>
    BY <1>6 DEF DeleteEntity, DeletionStarts
  <2> QED
    BY <1>3, <1>5, <2>1 DEF StoreType
<1>7. CASE DeleteCounters
  <2>1. /\ clearing' = [clients |-> Clients, left |-> "traffic"] /\ incidents' \in Incidents
        /\ stored' \in {stored, WithoutCounters(stored)} /\ kept' \in {kept, WithoutCounters(kept)}
        /\ UNCHANGED <<states, written, origin>>
    BY <1>7 DEF DeleteCounters, DeletionStarts
  <2>2. WithoutCounters(stored) \in [Clients -> Account] /\ WithoutCounters(kept) \in [Clients -> Account]
    BY DEF StoreType, Account, WithoutCounters
  <2> QED
    BY <2>1, <2>2 DEF StoreType
<1>8. CASE DeleteTraffic
  <2>1. /\ clearing' = [clearing EXCEPT !.left = "states"] /\ UNCHANGED <<states, written>>
    BY <1>8 DEF DeleteTraffic
  <2>2. clearing' \in [clients : SUBSET Clients, left : {"nothing", "traffic", "states"}]
    BY <2>1 DEF StoreType
  <2>3. \/ /\ stored' = WithoutTraffic(stored) /\ kept' = WithoutTraffic(kept)
           /\ Uncharged(Clients) /\ incidents' = incidents
        \/ incidents' \in Incidents /\ UNCHANGED <<stored, kept, origin>>
    BY <1>8 DEF DeleteTraffic
  <2>4. WithoutTraffic(stored) \in [Clients -> Account] /\ WithoutTraffic(kept) \in [Clients -> Account]
    BY DEF StoreType, Account, WithoutTraffic
  <2> QED
    BY <1>5, <2>1, <2>2, <2>3, <2>4 DEF StoreType
<1>9. CASE ClearReportTrafficStates
  <2>1. /\ clearing' = NoDeletion /\ UNCHANGED <<written, stored, kept, origin, incidents>>
        /\ states' = [c \in Clients |-> IF c \in clearing.clients THEN Fresh ELSE states[c]]
    BY <1>9 DEF ClearReportTrafficStates, database
  <2>2. NoDeletion \in [clients : SUBSET Clients, left : {"nothing", "traffic", "states"}]
    BY DEF NoDeletion
  <2> QED
    BY <1>3, <2>1, <2>2 DEF StoreType
<1>10. CASE Restart
  <2>1. /\ clearing' = NoDeletion /\ incidents' \in Incidents
        /\ states' = [c \in Clients |-> Fresh]
        /\ written' = Surviving /\ stored' = kept /\ origin' = SurvivingOrigin /\ kept' = kept
    BY <1>10 DEF Restart, database
  <2>2. NoDeletion \in [clients : SUBSET Clients, left : {"nothing", "traffic", "states"}]
    BY DEF NoDeletion
  <2>3. Len(Surviving["report"]) = durable["report"] /\ durable["report"] \in Nat
    BY SurvivingFacts DEF Persisted, Kinds
  <2>4. /\ SurvivingOrigin \in [Clients -> Nat]
        /\ \A c \in Clients : SurvivingOrigin[c] <= durable["report"]
    BY <2>3 DEF SurvivingOrigin, StoreType
  <2> HIDE DEF Surviving, SurvivingOrigin
  <2>5. /\ origin' \in [Clients -> Nat]
        /\ \A c \in Clients : origin'[c] <= Len(written'["report"])
    BY <2>1, <2>3, <2>4
  <2> QED
    BY <1>3, <2>1, <2>2, <2>5 DEF StoreType
<1>11. CASE \E k \in Kinds : Persist(k)
  <2>1. /\ kept' \in {kept, stored}
        /\ UNCHANGED <<clearing, origin, incidents, states, stored, written>>
    BY <1>11 DEF Persist, deletion
  <2> QED
    BY <2>1 DEF StoreType
<1>12. CASE UNCHANGED ledger /\ written'["report"] = written["report"]
  BY <1>12 DEF ledger, database, StoreType
<1> QED
  BY <1>4, <1>6, <1>7, <1>8, <1>9, <1>10, <1>11, <1>12, LedgerChanges

Types == AcceptedType /\ WorkType /\ StoreType

LEMMA TypesInvariant == Spec => [](Inv /\ Persisted /\ Types)
<1>1. Init => Types
  <2> SUFFICES ASSUME Init PROVE Types
    OBVIOUS
  <2>1. Len(<<>>) = 0 /\ \A E : <<>> \in Seq(E)
    BY EmptySeq
  <2>2. AcceptedType
    BY <2>1, BatcherAssumption DEF Init, NoItems, Kinds, AcceptedType, BatcherAssumption
  <2>3. WorkType
    BY <2>1 DEF Init, Idle, WorkType
  <2>4. NoAccount \in Account /\ Fresh \in [init : BOOLEAN, last : Totals \cup {None}]
    BY DEF NoAccount, Account, Fresh
  <2>5. Len(written["report"]) = 0 /\ {} \in Incidents
    BY <2>1, BatcherAssumption DEF Init, NoItems, Kinds, BatcherAssumption
  <2>6. StoreType
    BY <2>4, <2>5 DEF Init, StoreType, NoDeletion
  <2> QED
    BY <2>2, <2>3, <2>6 DEF Types
<1>2. Inv /\ Persisted /\ Types /\ [Next]_vars => Types'
  BY AcceptedTypeStep, WorkTypeStep, StoreTypeStep DEF Types
<1> QED
  BY <1>1, <1>2, Invariance, PTL DEF Spec


-----------------------------------------------------------------------------
(* What a client is charged. *)

\* What a batch p adds to what was written before, w, of which a deletion covered
\* the first o reports.
LEMMA WrittenParts ==
  ASSUME NEW w \in Seq(Report), NEW p \in Seq(Report), NEW o \in Nat, o <= Len(w)
  PROVE  /\ SubSeq(w, 1, o) \in Seq(Report) /\ SubSeq(w, o + 1, Len(w)) \in Seq(Report)
         /\ SubSeq(w, 1, o) \o SubSeq(w, o + 1, Len(w)) = w
         /\ SubSeq(w \o p, 1, o) = SubSeq(w, 1, o)
         /\ SubSeq(w \o p, o + 1, Len(w \o p)) = SubSeq(w, o + 1, Len(w)) \o p
<1> DEFINE W == w \o p
           b == SubSeq(w, 1, o)
           s == SubSeq(w, o + 1, Len(w))
           sp == s \o p
           S == SubSeq(W, o + 1, Len(W))
           B == SubSeq(W, 1, o)
<1>1. /\ Len(w) \in Nat /\ Len(p) \in Nat /\ W \in Seq(Report) /\ Len(W) = Len(w) + Len(p)
      /\ \A i \in 1..Len(w) : W[i] = w[i] /\ w[i] \in Report
      /\ \A i \in 1..Len(p) : W[Len(w) + i] = p[i]
      /\ \A i \in 1..Len(W) : W[i] \in Report
  BY LenProperties, ConcatProperties, ElementOfSeq
<1> HIDE DEF W
<1>2. b \in Seq(Report) /\ Len(b) = o /\ \A i \in 1..o : b[i] = w[i]
  <2>1. 1 \in Int /\ o \in Int /\ \A i \in 1..o : w[i] \in Report
    BY <1>1
  <2>2. /\ b \in Seq(Report) /\ Len(b) = IF 1 <= o THEN o - 1 + 1 ELSE 0
        /\ \A i \in 1..(o - 1 + 1) : b[i] = w[1 + i - 1]
    BY ONLY <2>1, SubSeqProperties
  <2>3. (IF 1 <= o THEN o - 1 + 1 ELSE 0) = o /\ o - 1 + 1 = o /\ \A i \in 1..o : 1 + i - 1 = i
    OBVIOUS
  <2> HIDE DEF b
  <2> QED
    BY <2>2, <2>3
<1>3. B \in Seq(Report) /\ Len(B) = o /\ \A i \in 1..o : B[i] = W[i]
  <2>1. 1 \in Int /\ o \in Int /\ \A i \in 1..o : W[i] \in Report
    BY <1>1
  <2>2. /\ B \in Seq(Report) /\ Len(B) = IF 1 <= o THEN o - 1 + 1 ELSE 0
        /\ \A i \in 1..(o - 1 + 1) : B[i] = W[1 + i - 1]
    BY ONLY <2>1, SubSeqProperties
  <2>3. (IF 1 <= o THEN o - 1 + 1 ELSE 0) = o /\ o - 1 + 1 = o /\ \A i \in 1..o : 1 + i - 1 = i
    OBVIOUS
  <2> HIDE DEF B
  <2> QED
    BY <2>2, <2>3
<1>4. /\ s \in Seq(Report) /\ Len(s) = Len(w) - o
      /\ \A i \in 1..(Len(w) - o) : s[i] = w[o + i]
  <2> DEFINE l == Len(w)
             m == o + 1
             n == l - m + 1
  <2>1. m \in Int /\ l \in Int /\ \A i \in m..l : w[i] \in Report
    BY <1>1
  <2>2. /\ s \in Seq(Report) /\ Len(s) = IF m <= l THEN n ELSE 0
        /\ \A i \in 1..n : s[i] = w[m + i - 1]
    BY ONLY <2>1, SubSeqProperties
  <2>3. /\ (IF m <= l THEN n ELSE 0) = l - o /\ n = l - o
        /\ \A i \in 1..n : m + i - 1 = o + i
    BY <1>1
  <2> HIDE DEF s, n, m
  <2> QED
    BY <2>2, <2>3
<1>5. /\ S \in Seq(Report) /\ Len(S) = Len(W) - o
      /\ \A i \in 1..(Len(W) - o) : S[i] = W[o + i]
  <2> DEFINE l == Len(W)
             m == o + 1
             n == l - m + 1
  <2>1. m \in Int /\ l \in Int /\ \A i \in m..l : W[i] \in Report
    BY <1>1
  <2>2. /\ S \in Seq(Report) /\ Len(S) = IF m <= l THEN n ELSE 0
        /\ \A i \in 1..n : S[i] = W[m + i - 1]
    BY ONLY <2>1, SubSeqProperties
  <2>3. /\ (IF m <= l THEN n ELSE 0) = l - o /\ n = l - o
        /\ \A i \in 1..n : m + i - 1 = o + i
    BY <1>1
  <2> HIDE DEF S, n, m
  <2> QED
    BY <2>2, <2>3
<1> HIDE DEF b, s, B, S
<1>6. /\ sp \in Seq(Report) /\ Len(sp) = Len(s) + Len(p)
      /\ \A i \in 1..Len(s) : sp[i] = s[i]
      /\ \A i \in 1..Len(p) : sp[Len(s) + i] = p[i]
  <2>1. s \in Seq(Report) /\ p \in Seq(Report)
    BY <1>4
  <2> QED
    BY ONLY <2>1, ConcatProperties
<1>7. B = b
  <2>1. \A i \in 1..o : i \in 1..Len(w)
    BY <1>1
  <2>2. \A i \in 1..o : B[i] = b[i]
    BY <1>1, <1>2, <1>3, <2>1
  <2>3. B \in Seq(Report) /\ b \in Seq(Report) /\ Len(B) = Len(b) /\ \A i \in 1..Len(B) : B[i] = b[i]
    BY <1>2, <1>3, <2>2
  <2> QED
    BY ONLY <2>3, SeqEqual
<1>8. S = sp
  <2> HIDE DEF sp
  <2>1. Len(S) = Len(sp)
    BY <1>1, <1>4, <1>5, <1>6
  <2>2. ASSUME NEW i \in 1..Len(S) PROVE S[i] = sp[i]
    <3>1. i \in 1..(Len(W) - o) /\ S[i] = W[o + i] /\ o + i \in 1..Len(W)
      BY <1>1, <1>5
    <3>2. CASE i \in 1..Len(s)
      <4>1. o + i \in 1..Len(w) /\ i \in 1..(Len(w) - o)
        BY <1>1, <1>4, <3>2
      <4>2. S[i] = w[o + i]
        BY <1>1, <3>1, <4>1
      <4>3. sp[i] = w[o + i]
        BY <1>4, <1>6, <3>2, <4>1
      <4> QED
        BY <4>2, <4>3
    <3>3. CASE i \notin 1..Len(s)
      <4> DEFINE j == i - Len(s)
      <4>1. j \in 1..Len(p) /\ i = Len(s) + j /\ o + i = Len(w) + j
        BY <1>1, <1>4, <1>5, <3>3
      <4> HIDE DEF j
      <4>2. W[Len(w) + j] = p[j] /\ sp[Len(s) + j] = p[j]
        BY <1>1, <1>6, <4>1
      <4> QED
        BY <3>1, <4>1, <4>2
    <3> QED
      BY <3>2, <3>3
  <2> QED
    BY <1>5, <1>6, <2>1, <2>2, SeqEqual
<1>9. b \o s = w
  <2>1. 1 \in 1..Len(w) + 1 /\ o \in (1 - 1)..Len(w) /\ Len(w) \in o..Len(w)
    BY <1>1
  <2>2. SubSeq(w, 1, o) \o SubSeq(w, o + 1, Len(w)) = SubSeq(w, 1, Len(w))
    BY <2>1, ConcatAdjacentSubSeq
  <2> QED
    BY <2>2, SubSeqFull DEF b, s
<1> QED
  BY <1>2, <1>4, <1>7, <1>8, <1>9, Zenon DEF b, s, B, S, W

Latest(w, c) == Through(w, c, NoAccount).last
Opening(previous) == [last |-> previous, charged |-> 0]

\* What a client may have been charged for s, written after b.
Charges(b, s, c) ==
  {Through(s, c, [last |-> previous, charged |-> 0]).charged : previous \in {None, Latest(b, c)}}

\* An account that agrees with what was written, before a batch and after it.
LEMMA BatchCharged ==
  ASSUME NEW b \in Seq(Report), NEW s \in Seq(Report), NEW p \in Seq(Report), NEW c,
         NEW a \in Account,
         a.last \in {None, Latest(b \o s, c)},
         Reports(s, c) => a.last = Latest(b \o s, c),
         a.charged \in Charges(b, s, c)
  PROVE  Through(p, c, a).charged \in Charges(b, s \o p, c)
<1> DEFINE Z == Through(b, c, NoAccount)
<1>1. NoAccount \in Account /\ \A x \in {None, Z.last} : Opening(x) \in Account
  <2>1. NoAccount \in Account
    BY DEF NoAccount, Account
  <2>2. Z \in Account
    BY <2>1, ThroughTyped
  <2> HIDE DEF Z
  <2> QED
    BY <2>1, <2>2 DEF Account, Opening
<1>2. Latest(b \o s, c) = Through(s, c, Z).last /\ Latest(b, c) = Z.last
  BY ThroughJoined DEF Latest
<1>3. ASSUME NEW x \in {None, Z.last}, Through(s, c, Opening(x)) = a
      PROVE  Through(p, c, a).charged \in Charges(b, s \o p, c)
  <2>1. Through(s \o p, c, Opening(x)) = Through(p, c, a)
    BY <1>3, ThroughJoined
  <2> QED
    BY <1>2, <2>1 DEF Charges, Opening
<1>4. CASE Reports(s, c)
  <2>1. PICK x \in {None, Z.last} : a.charged = Through(s, c, Opening(x)).charged
    BY <1>2 DEF Charges, Opening
  <2>2. Through(s, c, Opening(x)) \in Account
    BY <1>1, ThroughTyped
  <2>3. Through(s, c, Opening(x)).last = Through(s, c, Z).last
    BY <1>4, ThroughForgets
  <2>4. Through(s, c, Opening(x)).last = a.last
    BY <1>2, <1>4, <2>3
  <2> DEFINE y == Through(s, c, Opening(x))
  <2>5. y \in Account /\ y.last = a.last /\ y.charged = a.charged
    BY <2>1, <2>2, <2>4
  <2> HIDE DEF y
  <2>6. y = a
    BY <2>5 DEF Account
  <2> QED
    BY <1>3, <2>6 DEF y
<1>5. CASE ~Reports(s, c)
  <2>1. \A x : Through(s, c, x) = x
    BY <1>5, ThroughOthers
  <2>2. a.last \in {None, Z.last}
    BY <1>2, <2>1
  <2>3. a.charged = 0
    BY <2>1 DEF Charges
  <2>4. a = Opening(a.last)
    BY <2>3 DEF Account, Opening
  <2> QED
    BY <1>3, <2>1, <2>2, <2>4
<1> QED
  BY <1>4, <1>5

LEMMA BatchFollowed ==
  ASSUME NEW b \in Seq(Report), NEW s \in Seq(Report), NEW p \in Seq(Report), NEW c, NEW a
  PROVE  /\ Reports(p, c) => Through(p, c, a).last = Latest((b \o s) \o p, c)
         /\ ~Reports(p, c) => Latest((b \o s) \o p, c) = Latest(b \o s, c)
         /\ ~Reports(p, c) => (Reports(s \o p, c) <=> Reports(s, c))
<1>1. b \o s \in Seq(Report)
  BY ConcatProperties
<1>2. Latest((b \o s) \o p, c) = Through(p, c, Through(b \o s, c, NoAccount)).last
  <2> DEFINE w == b \o s
  <2>0. w \in Seq(Report)
    BY <1>1
  <2> HIDE DEF w
  <2>1. Through(w \o p, c, NoAccount) = Through(p, c, Through(w, c, NoAccount))
    BY ONLY <2>0, p \in Seq(Report), ThroughJoined
  <2> QED
    BY <2>1, Zenon DEF w, Latest
<1> DEFINE z == Through(b \o s, c, NoAccount)
<1>3. Latest((b \o s) \o p, c) = Through(p, c, z).last /\ Latest(b \o s, c) = z.last
  BY <1>2 DEF Latest
<1> HIDE DEF z
<1>4. Reports(p, c) => Through(p, c, a).last = Through(p, c, z).last
  BY ThroughForgets
<1>5. ~Reports(p, c) => Through(p, c, z) = z
  BY ThroughOthers
<1>6. Reports(s \o p, c) <=> Reports(s, c) \/ Reports(p, c)
  BY ReportsJoined
<1> QED
  BY <1>3, <1>4, <1>5, <1>6

\* What an account of client c says of the reports w, of which a deletion covered the
\* first o: it has the latest counter once a report was written since, and was
\* charged for exactly the reports since.
Follows(account, w, o, c) ==
  /\ Reports(SubSeq(w, o + 1, Len(w)), c) => account.last = Latest(w, c)
  /\ account.charged \in Charges(SubSeq(w, 1, o), SubSeq(w, o + 1, Len(w)), c)

\* A client's traffic state and its latest stored counter, if there are any, are
\* those of its last written report.
Known(c) ==
  /\ states[c].init => states[c].last = Latest(written["report"], c)
  /\ stored[c].last \in {None, Latest(written["report"], c)}

Followed(c) == Follows(stored[c], written["report"], origin[c], c)

\* The same of what a crash would leave.
KeptKnown(c) == kept[c].last \in {None, Latest(Surviving["report"], c)}

KeptFollowed(c) == Follows(kept[c], Surviving["report"], SurvivingOrigin[c], c)

Conserving ==
  incidents \subseteq {"restart", "delete"} =>
    \A c \in Clients :
      /\ Known(c) /\ KeptKnown(c)
      /\ clearing.left # "traffic" => Followed(c) /\ KeptFollowed(c)

\* Nothing was written since a deletion that is complete.
LEMMA NothingSince ==
  ASSUME NEW w \in Seq(Report), NEW c, NEW b
  PROVE  /\ ~Reports(SubSeq(w, Len(w) + 1, Len(w)), c)
         /\ 0 \in Charges(b, SubSeq(w, Len(w) + 1, Len(w)), c)
<1>1. Len(w) \in Nat
  BY LenProperties
<1>2. SubSeq(w, Len(w) + 1, Len(w)) = <<>>
  <2>1. Len(w) + 1 \in Int /\ Len(w) \in Int /\ Len(w) < Len(w) + 1
    BY <1>1
  <2> QED
    BY <2>1, SubSeqEmpty
<1>3. <<>> \in Seq(Report) /\ Len(<<>>) = 0
  BY EmptySeq
<1>4. ~Reports(<<>>, c)
  BY <1>3 DEF Reports
<1>5. Through(<<>>, c, [last |-> None, charged |-> 0]).charged = 0
  <2>1. Through(<<>>, c, [last |-> None, charged |-> 0]) = [last |-> None, charged |-> 0]
    BY <1>3, <1>4, ThroughOthers
  <2> QED
    BY <2>1
<1>6. 0 \in Charges(b, <<>>, c)
  BY <1>5 DEF Charges
<1> QED
  BY <1>2, <1>4, <1>6

\* A batch that is written, when no lookup of a stored counter failed.
LEMMA ConservedBatch ==
  ASSUME Inv, Types, Conserving, NEW failed \in SUBSET Unrestored, ReportsWritten(failed),
         clearing' = clearing, origin' = origin,
         incidents' \subseteq {"restart", "delete"}, NEW c \in Clients
  PROVE  Known(c)' /\ (clearing'.left # "traffic" => Followed(c)')
<1> DEFINE w == written["report"]
           p == pending["report"]
           o == origin[c]
           b == SubSeq(w, 1, o)
           s == SubSeq(w, o + 1, Len(w))
<1>1. w \in Seq(Report) /\ p \in Seq(Report) /\ o \in Nat /\ o <= Len(w)
  BY PartsTyped DEF Types, StoreType, Kinds, ItemsOf
<1>2. written'["report"] = w \o p /\ origin'[c] = o
  BY BatchWritten
<1>3. /\ b \in Seq(Report) /\ s \in Seq(Report) /\ b \o s = w
      /\ SubSeq(w \o p, 1, o) = b
      /\ SubSeq(w \o p, o + 1, Len(w \o p)) = s \o p
  BY ONLY <1>1, WrittenParts
<1>4. incidents \subseteq {"restart", "delete"} /\ LookupFails(failed) = {}
  <2>1. incidents' = incidents \cup LookupFails(failed)
    BY DEF ReportsWritten
  <2>2. LookupFails(failed) \subseteq {"restart", "delete"} /\ incidents \subseteq {"restart", "delete"}
    BY <2>1
  <2> QED
    BY <2>2 DEF LookupFails
<1>5. \A d \in failed : stored[d].last = None
  BY <1>4 DEF LookupFails
<1> DEFINE z == Latest(w, c)
           a == [last |-> Restored(c, failed), charged |-> stored[c].charged]
<1>6. /\ states[c].init => states[c].last = z
      /\ stored[c].last \in {None, z}
      /\ clearing.left # "traffic" =>
           /\ Reports(s, c) => stored[c].last = z
           /\ stored[c].charged \in Charges(b, s, c)
  BY <1>4 DEF Conserving, Known, Followed, Follows
<1>7. stored[c] \in Account /\ states[c] \in [init : BOOLEAN, last : Totals \cup {None}]
  BY DEF Types, StoreType
<1>8. /\ Restored(c, failed) \in Totals \cup {None}
      /\ Restored(c, failed) \in {None, z}
      /\ states[c].init => Restored(c, failed) = z
      /\ ~states[c].init => Restored(c, failed) = stored[c].last
  <2> HIDE DEF z
  <2>1. Restored(c, failed) = IF states[c].init THEN states[c].last ELSE stored[c].last
    BY <1>5 DEF Restored
  <2> QED
    BY <1>6, <1>7, <2>1 DEF Account
<1>9. /\ a \in Account /\ a.last \in {None, z} /\ a.charged = stored[c].charged
      /\ Reports(s, c) /\ clearing.left # "traffic" => a.last = z
  <2> HIDE DEF z
  <2> QED
    BY <1>6, <1>7, <1>8 DEF Account
<1>10. /\ states'[c] = IF Reports(p, c) THEN [init |-> TRUE, last |-> Latest(p, c)] ELSE states[c]
       /\ stored'[c] = IF Reports(p, c) THEN Through(p, c, a) ELSE stored[c]
  <2>1. states' = StatesAfter /\ stored' = StoredAfter(failed)
    BY DEF ReportsWritten
  <2> QED
    BY <2>1 DEF StatesAfter, StoredAfter, Latest
<1>11. /\ Reports(p, c) => Through(p, c, a).last = Latest(w \o p, c) /\ Latest(p, c) = Latest(w \o p, c)
       /\ ~Reports(p, c) => Latest(w \o p, c) = z
       /\ ~Reports(p, c) => (Reports(s \o p, c) <=> Reports(s, c))
  <2> HIDE DEF b, s, p, a
  <2>1. /\ Reports(p, c) => Through(p, c, a).last = Latest((b \o s) \o p, c)
        /\ ~Reports(p, c) => Latest((b \o s) \o p, c) = Latest(b \o s, c)
        /\ ~Reports(p, c) => (Reports(s \o p, c) <=> Reports(s, c))
        /\ Reports(p, c) => Through(p, c, NoAccount).last = Latest((b \o s) \o p, c)
    <3>1. b \in Seq(Report) /\ s \in Seq(Report) /\ p \in Seq(Report)
      BY <1>1, <1>3
    <3>2. \A x : /\ Reports(p, c) => Through(p, c, x).last = Latest((b \o s) \o p, c)
                 /\ ~Reports(p, c) => Latest((b \o s) \o p, c) = Latest(b \o s, c)
                 /\ ~Reports(p, c) => (Reports(s \o p, c) <=> Reports(s, c))
      BY ONLY <3>1, BatchFollowed
    <3> QED
      BY <3>2, Zenon
  <2> HIDE DEF w
  <2> QED
    BY <1>3, <2>1, Zenon DEF Latest
<1>12. Known(c)'
  <2>1. /\ states'[c].init => states'[c].last = Latest(w \o p, c)
        /\ stored'[c].last \in {None, Latest(w \o p, c)}
    <3>1. CASE Reports(p, c)
      <4>1. states'[c].last = Latest(p, c) /\ stored'[c] = Through(p, c, a)
        BY <1>10, <3>1
      <4> HIDE DEF a, p, w
      <4> QED
        BY <1>11, <3>1, <4>1
    <3>2. CASE ~Reports(p, c)
      <4>1. states'[c] = states[c] /\ stored'[c] = stored[c] /\ Latest(w \o p, c) = z
        BY <1>10, <1>11, <3>2
      <4> HIDE DEF z, p, w
      <4> QED
        BY <1>6, <4>1
    <3> QED
      BY <3>1, <3>2
  <2> QED
    BY <1>2, <2>1 DEF Known
<1>13. ASSUME clearing.left # "traffic" PROVE Followed(c)'
  <2>1. /\ Reports(s \o p, c) => stored'[c].last = Latest(w \o p, c)
        /\ stored'[c].charged \in Charges(b, s \o p, c)
    <3>1. CASE Reports(p, c)
      <4>1. stored'[c] = Through(p, c, a)
        BY <1>10, <3>1
      <4> HIDE DEF a, b, s, p
      <4>2. Through(p, c, a).charged \in Charges(b, s \o p, c)
        <5>1. /\ a.last \in {None, Latest(b \o s, c)} /\ a.charged \in Charges(b, s, c)
              /\ Reports(s, c) => a.last = Latest(b \o s, c)
          BY <1>3, <1>6, <1>9, <1>13
        <5> QED
          BY <1>1, <1>3, <1>9, <5>1, BatchCharged
      <4> HIDE DEF w
      <4> QED
        BY <1>11, <3>1, <4>1, <4>2
    <3>2. CASE ~Reports(p, c)
      <4>1. /\ stored'[c] = stored[c] /\ Latest(w \o p, c) = z
            /\ Reports(s \o p, c) <=> Reports(s, c)
        BY <1>10, <1>11, <3>2
      <4> HIDE DEF a, b, s, p
      <4>2. stored[c].charged \in Charges(b, s \o p, c)
        <5>1. /\ stored[c].last \in {None, Latest(b \o s, c)} /\ stored[c].charged \in Charges(b, s, c)
              /\ Reports(s, c) => stored[c].last = Latest(b \o s, c)
          BY <1>3, <1>6, <1>13
        <5>2. Through(p, c, stored[c]).charged \in Charges(b, s \o p, c)
          BY <1>1, <1>3, <1>7, <5>1, BatchCharged
        <5> QED
          BY <1>1, <3>2, <5>2, ThroughOthers
      <4> HIDE DEF z, w
      <4> QED
        BY <1>6, <1>13, <4>1, <4>2
    <3> QED
      BY <3>1, <3>2
  <2>2. /\ SubSeq(w \o p, o + 1, Len(w \o p)) = s \o p
        /\ SubSeq(w \o p, 1, o) = b
    BY <1>3
  <2>3. Follows(stored'[c], w \o p, o, c)
    <3> DEFINE W == w \o p
    <3>1. /\ Reports(s \o p, c) => stored'[c].last = Latest(W, c)
          /\ stored'[c].charged \in Charges(b, s \o p, c)
      BY <2>1
    <3>2. SubSeq(W, o + 1, Len(W)) = s \o p /\ SubSeq(W, 1, o) = b
      BY <2>2
    <3> HIDE DEF b, s, p, w, W, o
    <3>3. Follows(stored'[c], W, o, c)
      BY <3>1, <3>2 DEF Follows
    <3> QED
      BY <3>3 DEF W
  <2> HIDE DEF b, s, p, w, o
  <2> QED
    BY <1>2, <2>3 DEF Followed, w, p, o
<1> QED
  BY <1>12, <1>13

\* The reports a crash would leave, and where their deletion ends.
LEMMA Leftovers ==
  ASSUME Inv, Persisted, Types, NEW c \in Clients
  PROVE  /\ Surviving["report"] \in Seq(Report)
         /\ Len(Surviving["report"]) = durable["report"] /\ durable["report"] \in Nat
         /\ SurvivingOrigin[c] \in Nat /\ origin[c] \in Nat
         /\ written["report"] \in Seq(Report) /\ durable["report"] <= Len(written["report"])
         /\ origin[c] <= Len(written["report"])
<1>1. /\ Surviving["report"] \in Seq(Report) /\ Len(Surviving["report"]) = durable["report"]
      /\ durable["report"] \in Nat /\ durable["report"] <= Len(written["report"])
  BY SurvivingTyped DEF Types, Kinds, ItemsOf, Persisted
<1>2. /\ written["report"] \in Seq(Report) /\ origin \in [Clients -> Nat]
      /\ origin[c] <= Len(written["report"])
  BY PartsTyped DEF Types, StoreType, Kinds, ItemsOf
<1>3. SurvivingOrigin[c] \in Nat
  BY <1>1, <1>2 DEF SurvivingOrigin
<1> QED
  BY <1>1, <1>2, <1>3

\* An account that a deletion has cleared is charged for nothing.
LEMMA ClearedFollows ==
  ASSUME NEW account, account.charged = 0, NEW w \in Seq(Report), NEW o, o = Len(w), NEW c
  PROVE  Follows(account, w, o, c)
<1>1. /\ ~Reports(SubSeq(w, Len(w) + 1, Len(w)), c)
      /\ 0 \in Charges(SubSeq(w, 1, Len(w)), SubSeq(w, Len(w) + 1, Len(w)), c)
  BY NothingSince
<1> QED
  BY <1>1, Zenon DEF Follows

\* What is persisted changes only with a deletion, a restart and when it is persisted.
LEMMA KeptSame ==
  ASSUME NEW c \in Clients, KeptKnown(c), clearing.left # "traffic" => KeptFollowed(c),
         kept'[c] = kept[c], Surviving'["report"] = Surviving["report"],
         SurvivingOrigin'[c] = SurvivingOrigin[c], clearing'.left # "traffic" => clearing.left # "traffic"
  PROVE  KeptKnown(c)' /\ (clearing'.left # "traffic" => KeptFollowed(c)')
<1> HIDE DEF Surviving, SurvivingOrigin
<1> QED
  BY DEF KeptKnown, KeptFollowed

\* A step that writes no batch leaves what a crash would leave, but for deletions.
LEMMA SurvivingSame ==
  ASSUME UNCHANGED durable, written'["report"] = written["report"]
  PROVE  /\ Surviving'["report"] = Surviving["report"]
         /\ \A c \in Clients : origin'[c] = origin[c] => SurvivingOrigin'[c] = SurvivingOrigin[c]
BY DEF Surviving, SurvivingOrigin, Kinds

\* A deletion covers everything written, hence everything a crash would leave.
LEMMA SurvivingCovered ==
  ASSUME Inv, Persisted, Types, NEW c \in Clients, UNCHANGED <<durable, written>>,
         origin'[c] = Len(written["report"])
  PROVE  SurvivingOrigin'[c] = Len(Surviving'["report"])
<1>1. /\ Len(Surviving["report"]) = durable["report"] /\ durable["report"] \in Nat
      /\ durable["report"] <= Len(written["report"]) /\ Len(written["report"]) \in Nat
  BY Leftovers, LenProperties
<1>2. Surviving'["report"] = Surviving["report"]
  BY SurvivingSame
<1>3. SurvivingOrigin'[c] = IF origin'[c] <= durable["report"] THEN origin'[c] ELSE durable["report"]
  BY DEF SurvivingOrigin
<1> HIDE DEF Surviving, SurvivingOrigin
<1>4. SurvivingOrigin'[c] = durable["report"]
  BY <1>1, <1>3
<1> QED
  BY <1>1, <1>2, <1>4, Zenon

LEMMA ConservingStep == Inv /\ Persisted /\ Types /\ Conserving /\ [Next]_vars => Conserving'
<1> SUFFICES ASSUME Inv, Persisted, Types, Conserving, [Next]_vars,
                    incidents' \subseteq {"restart", "delete"}, NEW c \in Clients
             PROVE  /\ Known(c)' /\ KeptKnown(c)'
                    /\ clearing'.left # "traffic" => Followed(c)' /\ KeptFollowed(c)'
  BY DEF Conserving
<1> DEFINE w == written["report"]
<1>1. /\ w \in Seq(Report) /\ origin \in [Clients -> Nat]
      /\ states \in [Clients -> [init : BOOLEAN, last : Totals \cup {None}]]
      /\ stored \in [Clients -> Account] /\ kept \in [Clients -> Account]
      /\ clearing \in [clients : SUBSET Clients, left : {"nothing", "traffic", "states"}]
  BY PartsTyped DEF Types, StoreType, Kinds, ItemsOf
<1>2. ASSUME incidents \subseteq incidents'
      PROVE  /\ Known(c) /\ KeptKnown(c)
             /\ clearing.left # "traffic" => Followed(c) /\ KeptFollowed(c)
  BY <1>2 DEF Conserving
<1> HIDE DEF Surviving, SurvivingOrigin
<1>3. ASSUME UNCHANGED <<durable, written>>, origin'[c] = Len(w), stored'[c].charged = 0,
             kept'[c].charged = 0
      PROVE  Followed(c)' /\ KeptFollowed(c)'
  <2>1. Follows(stored'[c], w, origin'[c], c)
    BY ONLY <1>1, <1>3, ClearedFollows
  <2>2. SurvivingOrigin'[c] = Len(Surviving'["report"])
    BY <1>3, SurvivingCovered
  <2>3. Surviving'["report"] \in Seq(Report)
    BY <1>3, Leftovers, SurvivingSame
  <2>4. Follows(kept'[c], Surviving'["report"], SurvivingOrigin'[c], c)
    BY ONLY <1>3, <2>2, <2>3, ClearedFollows
  <2> QED
    BY <1>3, <2>1, <2>4 DEF Followed, KeptFollowed
<1>4. CASE WriteReports
  <2>1. UNCHANGED <<deletion, database>>
    BY <1>4 DEF WriteReports
  <2>2. CASE ReportsRefused
    <3>1. UNCHANGED <<states, stored, kept, durable, clearing, origin, incidents, written>>
      BY <2>1, <2>2 DEF ReportsRefused, deletion, database
    <3>2. /\ Known(c) /\ KeptKnown(c)
          /\ clearing.left # "traffic" => Followed(c) /\ KeptFollowed(c)
      BY <1>2, <3>1
    <3>3. KeptKnown(c)' /\ (clearing'.left # "traffic" => KeptFollowed(c)')
      BY <3>1, <3>2, SurvivingSame, KeptSame
    <3> QED
      BY <3>1, <3>2, <3>3 DEF Known, Followed
  <2>3. CASE \E failed \in SUBSET Unrestored : ReportsFail(failed)
    <3>1. "write" \in incidents'
      BY <2>3 DEF ReportsFail
    <3> QED
      BY <3>1
  <2>4. CASE \E failed \in SUBSET Unrestored : ReportsWritten(failed)
    <3>1. PICK failed \in SUBSET Unrestored : ReportsWritten(failed)
      BY <2>4
    <3>2. Known(c)' /\ (clearing'.left # "traffic" => Followed(c)')
      BY <2>1, <3>1, ConservedBatch DEF deletion
    <3>3. incidents \subseteq incidents' /\ UNCHANGED <<kept, durable, clearing, origin>>
      BY <2>1, <3>1 DEF ReportsWritten, deletion, database
    <3>4. written'["report"] = w \o pending["report"] /\ pending["report"] \in Seq(Report)
      BY <3>1, BatchWritten, PartsTyped DEF Types, Kinds, ItemsOf
    <3>5. Surviving'["report"] = Surviving["report"]
      <4> DEFINE d == durable["report"]
                 p == pending["report"]
      <4>1. d \in Nat /\ d <= Len(w)
        BY Leftovers
      <4>2. SubSeq(w \o p, 1, d) = SubSeq(w, 1, d)
        <5>1. p \in Seq(Report)
          BY <3>4
        <5> HIDE DEF w, p, d
        <5> QED
          BY <1>1, <4>1, <5>1, WrittenParts
      <4> QED
        BY <3>3, <3>4, <4>2 DEF Surviving, Kinds
    <3>6. SurvivingOrigin'[c] = SurvivingOrigin[c]
      BY <3>3 DEF SurvivingOrigin
    <3>7. KeptKnown(c)' /\ (clearing'.left # "traffic" => KeptFollowed(c)')
      BY <1>2, <3>3, <3>5, <3>6, KeptSame
    <3> QED
      BY <3>2, <3>7
  <2> QED
    BY <1>4, <2>2, <2>3, <2>4 DEF WriteReports
<1>5. ASSUME NEW d \in Clients, DeleteEntity(d)
      PROVE  /\ Known(c)' /\ KeptKnown(c)'
             /\ clearing'.left # "traffic" => Followed(c)' /\ KeptFollowed(c)'
  <2>1. /\ clearing.left = "nothing" /\ incidents' = incidents \cup {"delete"}
        /\ stored' = [stored EXCEPT ![d] = NoAccount] /\ kept' = [kept EXCEPT ![d] = NoAccount]
        /\ Uncharged({d}) /\ UNCHANGED <<states, written, durable>>
    BY <1>5 DEF DeleteEntity, DeletionStarts
  <2>2. Known(c) /\ Followed(c) /\ KeptKnown(c) /\ KeptFollowed(c)
    BY <1>2, <2>1
  <2>3. CASE c = d
    <3>1. /\ stored'[c] = [last |-> None, charged |-> 0] /\ kept'[c] = [last |-> None, charged |-> 0]
          /\ origin'[c] = Len(w)
      BY <1>1, <2>1, <2>3 DEF NoAccount, Uncharged
    <3>2. Known(c)' /\ KeptKnown(c)'
      BY <2>1, <2>2, <3>1 DEF Known, KeptKnown
    <3>3. Followed(c)' /\ KeptFollowed(c)'
      BY <1>3, <2>1, <3>1
    <3> QED
      BY <3>2, <3>3
  <2>4. CASE c # d
    <3>1. stored'[c] = stored[c] /\ kept'[c] = kept[c] /\ origin'[c] = origin[c]
      BY <1>1, <2>1, <2>4 DEF Uncharged
    <3>2. KeptKnown(c)' /\ (clearing'.left # "traffic" => KeptFollowed(c)')
      BY <2>1, <2>2, <3>1, SurvivingSame, KeptSame
    <3> QED
      BY <2>1, <2>2, <3>1, <3>2 DEF Known, Followed
  <2> QED
    BY <2>3, <2>4
<1>6. CASE DeleteCounters
  <2>1. /\ clearing' = [clients |-> Clients, left |-> "traffic"]
        /\ incidents' = incidents \cup {"delete"}
        /\ stored' \in {stored, WithoutCounters(stored)} /\ kept' \in {kept, WithoutCounters(kept)}
        /\ UNCHANGED <<states, written, durable>>
    BY <1>6 DEF DeleteCounters, DeletionStarts
  <2>2. Known(c) /\ KeptKnown(c)
    BY <1>2, <2>1
  <2>3. stored'[c].last \in {stored[c].last, None} /\ kept'[c].last \in {kept[c].last, None}
    BY <1>1, <2>1 DEF Account, WithoutCounters
  <2>4. Surviving'["report"] = Surviving["report"]
    BY <2>1, SurvivingSame
  <2> QED
    BY <2>1, <2>2, <2>3, <2>4 DEF Known, KeptKnown
<1>7. CASE DeleteTraffic
  <2>1. "partial" \notin incidents'
    OBVIOUS
  <2>2. /\ stored' = WithoutTraffic(stored) /\ kept' = WithoutTraffic(kept)
        /\ Uncharged(Clients) /\ incidents' = incidents
        /\ UNCHANGED <<states, written, durable>>
    BY <1>7, <2>1 DEF DeleteTraffic
  <2>3. Known(c) /\ KeptKnown(c)
    BY <1>2, <2>2
  <2>4. /\ stored'[c].last = stored[c].last /\ stored'[c].charged = 0
        /\ kept'[c].last = kept[c].last /\ kept'[c].charged = 0 /\ origin'[c] = Len(w)
    BY <1>1, <2>2 DEF Uncharged, Account, WithoutTraffic
  <2>5. Surviving'["report"] = Surviving["report"]
    BY <2>2, SurvivingSame
  <2>6. Known(c)' /\ KeptKnown(c)'
    BY <2>2, <2>3, <2>4, <2>5 DEF Known, KeptKnown
  <2>7. Followed(c)' /\ KeptFollowed(c)'
    BY <1>3, <2>2, <2>4
  <2> QED
    BY <2>6, <2>7
<1>8. CASE ClearReportTrafficStates
  <2>1. /\ clearing.left = "states"
        /\ UNCHANGED <<written, stored, kept, durable, origin, incidents>>
        /\ states' = [d \in Clients |-> IF d \in clearing.clients THEN Fresh ELSE states[d]]
    BY <1>8 DEF ClearReportTrafficStates, database
  <2>2. Known(c) /\ Followed(c) /\ KeptKnown(c) /\ KeptFollowed(c)
    BY <1>2, <2>1
  <2>3. states'[c].init => states'[c] = states[c]
    BY <2>1 DEF Fresh
  <2>4. KeptKnown(c)' /\ (clearing'.left # "traffic" => KeptFollowed(c)')
    BY <2>1, <2>2, SurvivingSame, KeptSame
  <2> QED
    BY <2>1, <2>2, <2>3, <2>4 DEF Known, Followed
<1>9. CASE \E k \in Kinds : Persist(k)
  <2>1. PICK k \in Kinds : Persist(k)
    BY <1>9
  <2>2. /\ kept' = (IF k = "report" THEN stored ELSE kept)
        /\ durable' = [durable EXCEPT ![k] = Len(written[k])]
        /\ UNCHANGED <<states, stored, clearing, origin, incidents, written>>
    BY <2>1 DEF Persist, deletion
  <2>3. /\ Known(c) /\ KeptKnown(c)
        /\ clearing.left # "traffic" => Followed(c) /\ KeptFollowed(c)
    BY <1>2, <2>2
  <2>4. Known(c)' /\ (clearing'.left # "traffic" => Followed(c)')
    BY <2>2, <2>3 DEF Known, Followed
  <2>5. durable \in [Kinds -> Nat]
    BY DEF Persisted
  <2>6. CASE k = "report"
    <3>1. kept' = stored /\ durable'["report"] = Len(w)
      BY <2>2, <2>5, <2>6 DEF Kinds
    <3>2. Surviving'["report"] = w
      <4>1. Surviving'["report"] = SubSeq(w, 1, Len(w))
        BY <2>2, <3>1 DEF Surviving, Kinds
      <4> QED
        BY <1>1, <4>1, SubSeqFull
    <3>3. SurvivingOrigin'[c] = origin[c]
      <4>1. SurvivingOrigin'[c] = IF origin[c] <= Len(w) THEN origin[c] ELSE Len(w)
        BY <2>2, <3>1 DEF SurvivingOrigin
      <4>2. origin[c] <= Len(w)
        BY Leftovers
      <4> QED
        BY <4>1, <4>2
    <3> HIDE DEF w
    <3>4. KeptKnown(c)'
      BY <2>3, <3>1, <3>2 DEF KeptKnown, Known, w
    <3>5. clearing'.left # "traffic" => KeptFollowed(c)'
      BY <2>2, <2>3, <3>1, <3>2, <3>3 DEF KeptFollowed, Followed, w
    <3> QED
      BY <2>4, <3>4, <3>5
  <2>7. CASE k # "report"
    <3>1. kept' = kept /\ durable'["report"] = durable["report"]
      BY <2>2, <2>5, <2>7 DEF Kinds
    <3>2. Surviving'["report"] = Surviving["report"]
      <4>1. /\ Surviving["report"] = SubSeq(written["report"], 1, durable["report"])
            /\ Surviving'["report"] = SubSeq(written'["report"], 1, durable'["report"])
        BY DEF Surviving, Kinds
      <4> QED
        BY <2>2, <3>1, <4>1, Zenon
    <3>4. SurvivingOrigin'[c] = SurvivingOrigin[c]
      BY <2>2, <3>1 DEF SurvivingOrigin
    <3>3. KeptKnown(c)' /\ (clearing'.left # "traffic" => KeptFollowed(c)')
      BY <2>2, <2>3, <3>1, <3>2, <3>4, KeptSame
    <3> QED
      BY <2>4, <3>3
  <2> QED
    BY <2>6, <2>7
<1>10. CASE Restart
  <2>1. /\ incidents \subseteq incidents' /\ UNCHANGED <<kept, durable>>
        /\ written' = Surviving /\ stored' = kept /\ origin' = SurvivingOrigin
        /\ clearing.left = "traffic" => "partial" \in incidents'
        /\ states' = [d \in Clients |-> Fresh]
    BY <1>10 DEF Restart, database
  <2>2. KeptKnown(c) /\ KeptFollowed(c)
    BY <1>2, <2>1
  <2>3. ~states'[c].init
    BY <2>1 DEF Fresh
  <2>4. Known(c)' /\ Followed(c)'
    BY <2>1, <2>2, <2>3 DEF Known, Followed, KeptKnown, KeptFollowed
  <2>5. Surviving'["report"] = Surviving["report"]
    <3> DEFINE v == Surviving["report"]
    <3>1. v \in Seq(Report) /\ Len(v) = durable["report"]
      BY Leftovers
    <3>2. Surviving'["report"] = SubSeq(v, 1, durable["report"])
      BY <2>1 DEF Surviving, Kinds
    <3> HIDE DEF v
    <3>3. SubSeq(v, 1, Len(v)) = v
      BY <3>1, SubSeqFull
    <3> QED
      BY <3>1, <3>2, <3>3, Zenon DEF v
  <2>6. SurvivingOrigin'[c] = SurvivingOrigin[c]
    <3>1. SurvivingOrigin[c] = IF origin[c] <= durable["report"] THEN origin[c] ELSE durable["report"]
      BY DEF SurvivingOrigin
    <3>2. SurvivingOrigin'[c] = IF SurvivingOrigin[c] <= durable["report"] THEN SurvivingOrigin[c]
                                ELSE durable["report"]
      <4>1. SurvivingOrigin'[c] = IF origin'[c] <= durable'["report"] THEN origin'[c]
                                  ELSE durable'["report"]
        BY DEF SurvivingOrigin
      <4> QED
        BY <2>1, <4>1
    <3>3. durable["report"] \in Nat /\ origin[c] \in Nat
      BY Leftovers
    <3> QED
      BY <3>1, <3>2, <3>3
  <2>7. KeptKnown(c)' /\ (clearing'.left # "traffic" => KeptFollowed(c)')
    BY <2>1, <2>2, <2>5, <2>6 DEF KeptKnown, KeptFollowed
  <2> QED
    BY <2>4, <2>7
<1>11. CASE UNCHANGED ledger /\ written'["report"] = written["report"]
  <2>1. UNCHANGED <<states, stored, kept, durable, clearing, origin, incidents>>
    BY <1>11 DEF ledger, database
  <2>2. /\ Known(c) /\ KeptKnown(c)
        /\ clearing.left # "traffic" => Followed(c) /\ KeptFollowed(c)
    BY <1>2, <2>1
  <2>3. KeptKnown(c)' /\ (clearing'.left # "traffic" => KeptFollowed(c)')
    BY <1>11, <2>1, <2>2, SurvivingSame, KeptSame
  <2> QED
    BY <1>11, <2>1, <2>2, <2>3 DEF Known, Followed
<1> QED
  BY <1>4, <1>5, <1>6, <1>7, <1>8, <1>9, <1>10, <1>11, LedgerChanges

-----------------------------------------------------------------------------
(* The theorems. *)

\* What was written, then what the worker has drained, then what is queued is
\* exactly what WriteReport and WritePingRecord accepted, in order, and no queue
\* outgrows its capacity: whatever fails, and in whatever chunks pings are written.
THEOREM AcceptedInOrderSafe == Spec => []AcceptedInOrder
<1>1. Inv => AcceptedInOrder
  BY DEF Inv
<1> QED
  BY <1>1, Invariance, PTL

\* FlushReportBatch that returns without error has written everything accepted
\* before it was called, however the worker's ticks and the producers interleave.
THEOREM FlushCoversEarlierSafe == Spec => []FlushCoversEarlier
<1>1. Inv => FlushCoversEarlier
  <2> SUFFICES ASSUME Inv, NEW c \in Flushers, calls[c].reply = "ok", NEW k \in Kinds
               PROVE  Len(written[k]) >= calls[c].upto[k]
    BY DEF FlushCoversEarlier
  <2>1. c \in Callers
    BY DEF Callers
  <2>2. calls[c].upto[k] <= Len(written[k])
    BY <2>1 DEF Inv, Covered
  <2>3. calls[c].upto[k] \in Nat /\ Len(written[k]) \in Nat
    BY <2>1, Numbers DEF Inv
  <2>4. \A a, b \in Nat : a <= b => b >= a
    OBVIOUS
  <2> QED
    BY <2>2, <2>3, <2>4, Zenon
<1> QED
  BY <1>1, Invariance, PTL

\* StopReportBatcher that returns without error leaves nothing accepted unwritten:
\* the producers it races with are refused from the moment it is called.
THEOREM StopLeavesNothingSafe == Spec => []StopLeavesNothing
<1>1. Inv => StopLeavesNothing
  <2> SUFFICES ASSUME Inv, NEW c \in Stoppers, calls[c].reply = "ok", NEW k \in Kinds
               PROVE  written[k] = accepted[k]
    BY DEF StopLeavesNothing
  <2>1. queue[k] = <<>> /\ pending[k] = <<>>
    BY DEF Inv, Stopped
  <2>2. (written[k] \o pending[k]) \o queue[k] = accepted[k]
    BY DEF Inv, AcceptedInOrder
  <2>3. written[k] \in Seq(Items)
    BY WorkFacts
  <2>4. (written[k] \o <<>>) \o <<>> = written[k]
    BY <2>3, JoinEmpty
  <2> QED
    BY <2>1, <2>2, <2>4, Zenon
<1> QED
  BY <1>1, Invariance, PTL

\* Every variable keeps its type: in particular, whatever was written, is pending
\* or is queued is a report or a ping that was accepted, the slot of requests holds
\* at most one, and a batch in progress knows whom it answers.
THEOREM TypeCorrect == Spec => []TypeOK
<1>1. Inv /\ Persisted /\ Types => TypeOK
  <2> SUFFICES ASSUME Inv, Persisted, Types PROVE TypeOK
    OBVIOUS
  <2> USE DEF Types
  <2>1. /\ registered \in BOOLEAN /\ stopping \in BOOLEAN
        /\ queue \in [Kinds -> Seq(Items)] /\ pending \in [Kinds -> Seq(Items)]
        /\ accepted \in [Kinds -> Seq(Items)] /\ written \in [Kinds -> Seq(Items)]
        /\ requests \in Seq(Callers) /\ work \in Work /\ calls \in [Callers -> Call]
    BY DEF Inv, FlowType
  <2>2. \A k \in Kinds : \A f \in {queue, pending, accepted, written} : f[k] \in Seq(ItemsOf(k))
    BY PartsTyped DEF AcceptedType
  <2>3. \A f \in {queue, pending, accepted, written} :
          f["report"] \in Seq(Report) /\ f["ping"] \in Seq(1..MaxPings)
    BY <2>2 DEF Kinds, ItemsOf
  <2>4. \A i \in DOMAIN requests : requests[i] \in Callers
    BY <2>1
  <2>5. "none" \notin Callers
    BY BatcherAssumption DEF BatcherAssumption, Callers
  <2>6. Serving => work.for \in Callers
    BY DEF Inv, Called
  <2>7. /\ work.err \in BOOLEAN
        /\ work.pc \in {"idle", "tick pings", "tick reports", "exited"} <=> ~Serving
        /\ work.pc \in {"reports", "pings", "reply"} <=> Serving
    BY <2>1 DEF Work, Serving
  <2>8. /\ work.pc \in {"idle", "tick pings", "tick reports", "exited"} <=> work.for = "none"
        /\ work.pc \in {"reports", "pings", "reply"} <=> work.for \in Callers
    BY <2>5, <2>6, <2>7 DEF WorkType
  <2>9. origin \in [Clients -> 0..MaxReports]
    <3>1. Len(written["report"]) <= MaxReports /\ Len(written["report"]) \in Nat
      BY PartsTyped, Numbers DEF Inv, Kinds
    <3>2. MaxReports \in Nat
      BY BatcherAssumption DEF BatcherAssumption
    <3>3. /\ origin \in [Clients -> Nat]
          /\ \A c \in Clients : origin[c] <= Len(written["report"])
      BY DEF StoreType
    <3>4. \A n, m, k \in Nat : n <= m /\ m <= k => n \in 0..k
      OBVIOUS
    <3>5. ASSUME NEW c \in Clients PROVE origin[c] \in 0..MaxReports
      <4>1. origin[c] \in Nat /\ origin[c] <= Len(written["report"])
        BY <3>3
      <4> QED
        BY ONLY <3>1, <3>2, <3>4, <4>1
    <3> QED
      BY ONLY <3>3, <3>5
  <2>10. calls \in [Callers -> [pc : {"ready", "sending", "waiting", "done"},
                   reply : {"none", "ok", "error", "stopped", "expired"},
                   upto : [Kinds -> Nat]]]
    BY <2>1 DEF Call
  <2> QED
    BY <2>1, <2>3, <2>4, <2>7, <2>8, <2>9, <2>10 DEF TypeOK, StoreType, WorkType, Persisted
<1> QED
  BY <1>1, TypesInvariant, PTL

\* writeReportBatch charges every client exactly the increase of its counter over
\* the reports the store has of it since its records were last deleted, resets
\* included, across batches, refused writes that are retried, deletions that race
\* with a batch and crashes, which lose what is queued, what is pending and what
\* persistHotRollups has not persisted, as long as no write or lookup fails half-way.
THEOREM TrafficConservedSafe == Spec => []TrafficConserved
<1>1. Init => Conserving
  <2> SUFFICES ASSUME Init, NEW c \in Clients
               PROVE  Known(c) /\ KeptKnown(c) /\ Followed(c) /\ KeptFollowed(c)
    BY DEF Conserving
  <2>1. /\ written["report"] = <<>> /\ durable["report"] = 0 /\ origin[c] = 0
        /\ stored[c] = NoAccount /\ kept[c] = NoAccount /\ ~states[c].init
    BY DEF Init, NoItems, Kinds, Fresh
  <2>2. <<>> \in Seq(Report) /\ Len(<<>>) = 0 /\ NoAccount.charged = 0 /\ NoAccount.last = None
    BY EmptySeq DEF NoAccount
  <2>3. Surviving["report"] = <<>>
    <3>1. Surviving["report"] = SubSeq(<<>>, 1, 0)
      BY <2>1 DEF Surviving, Kinds
    <3>2. SubSeq(<<>>, 1, 0) = <<>>
      BY <2>2, SubSeqEmpty
    <3> QED
      BY <3>1, <3>2
  <2>4. SurvivingOrigin[c] = 0
    BY <2>1 DEF SurvivingOrigin
  <2>5. Follows(NoAccount, <<>>, 0, c)
    BY ONLY <2>2, ClearedFollows
  <2>6. Known(c) /\ KeptKnown(c)
    BY <2>1, <2>2 DEF Known, KeptKnown
  <2>7. Followed(c) /\ KeptFollowed(c)
    BY <2>1, <2>3, <2>4, <2>5, Zenon DEF Followed, KeptFollowed
  <2> QED
    BY <2>6, <2>7
<1>2. Conserving => TrafficConserved
  <2> SUFFICES ASSUME Conserving, incidents \subseteq {"restart", "delete"},
                      clearing.left # "traffic", NEW c \in Clients
               PROVE  stored[c].charged \in Increase(c)
    BY DEF TrafficConserved
  <2>1. Follows(stored[c], written["report"], origin[c], c)
    BY DEF Conserving, Followed
  <2>2. stored[c].charged \in Charges(Before(c), Since(c), c)
    BY <2>1, Zenon DEF Follows, Before, Since
  <2> QED
    BY <2>2, Zenon DEF Charges, Increase, Latest
<1>3. Init => Inv /\ Conserving
  BY <1>1, InitInv
<1> QED
  BY <1>2, <1>3, ConservingStep, TypesInvariant, PTL DEF Spec

=============================================================================
