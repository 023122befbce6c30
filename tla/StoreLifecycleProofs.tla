------------------------ MODULE StoreLifecycleProofs ------------------------
(***************************************************************************)
(* Proofs about StoreLifecycle: under a lease the served store stays, and   *)
(* the lifecycle is one of ServedStore, for any number of goroutines,       *)
(* databases and reloads.                                                   *)
(***************************************************************************)
EXTENDS StoreLifecycle, WellFoundedInduction, TLAPS

(***************************************************************************)
(* The queue.                                                              *)
(***************************************************************************)

\* A nonempty set of natural numbers has a least element.
LEMMA LeastNatural ==
  ASSUME NEW T \in SUBSET Nat, T # {}
  PROVE  \E m \in T : \A k \in T : m <= k
<1> DEFINE R == {ss \in Nat \X Nat : ss[1] < ss[2]}
<1>1. IsWellFoundedOn(R, Nat)
  BY ONLY NatLessThanWellFounded, Zenon DEF OpToRel
<1>2. \A x, y \in Nat : <<y, x>> \in R <=> y < x
  BY SMT
<1> HIDE DEF R
<1>3. PICK x \in T : \A y \in T : ~ (<<y, x>> \in R)
  BY <1>1, WFMin
<1>4. x \in Nat /\ \A y \in T : y \in Nat /\ ~ (y < x)
  BY <1>2, <1>3, Zenon
<1>5. \A y \in T : x <= y
  BY <1>4, SMT
<1> QED
  BY <1>5

\* notifyWaiters admits a prefix of the queue that is compatible with the
\* holders.
LEMMA AdmittedFits ==
  ASSUME NEW h, NEW q \in Seq(Callers), Compatible(h)
  PROVE  /\ Admitted(h, q) \in 0 .. Len(q)
         /\ Compatible(h \cup {q[i] : i \in 1 .. Admitted(h, q)})
<1> DEFINE Fits(n) == Compatible(h \cup {q[i] : i \in 1 .. n})
           Stops(n) == /\ \A m \in 1 .. n : Fits(m)
                       /\ n < Len(q) => ~Fits(n + 1)
<1>1. Len(q) \in Nat
  OBVIOUS
<1>2. \E n \in 0 .. Len(q) : Stops(n)
  <2> HIDE DEF Fits
  <2> DEFINE Bad == {m \in 1 .. Len(q) : ~Fits(m)}
  <2>1. CASE Bad = {}
    BY <1>1, <2>1
  <2>2. CASE Bad # {}
    <3>1. Bad \in SUBSET Nat
      BY <1>1
    <3>2. PICK m \in Bad : \A k \in Bad : m <= k
      BY <2>2, <3>1, LeastNatural
    <3>3. Stops(m - 1)
      BY <1>1, <3>2
    <3>4. m - 1 \in 0 .. Len(q)
      BY <1>1, <3>2
    <3> HIDE DEF Stops
    <3> QED
      BY <3>3, <3>4
  <2> QED
    BY <2>1, <2>2
<1>3. Admitted(h, q) = CHOOSE n \in 0 .. Len(q) : Stops(n)
  BY DEF Admitted
<1>4. Admitted(h, q) \in 0 .. Len(q) /\ Stops(Admitted(h, q))
  <2> HIDE DEF Stops
  <2> QED
    BY <1>2, <1>3, Zenon
<1>5. CASE Admitted(h, q) = 0
  <2>1. h \cup {q[i] : i \in 1 .. Admitted(h, q)} = h
    BY <1>5
  <2> QED
    BY <1>4, <2>1
<1>6. CASE Admitted(h, q) # 0
  <2>1. Admitted(h, q) \in 1 .. Admitted(h, q)
    BY <1>1, <1>4, <1>6
  <2> QED
    BY <1>4, <2>1
<1> QED
  BY <1>5, <1>6

(***************************************************************************)
(* The gate.                                                               *)
(***************************************************************************)

\* A goroutine in this state holds a lease.
Leases(r) == \/ r.op \in Gated /\ r.at \in {"granted", "using", "opening", "swapped"}
             \/ r.op = "migrate" /\ r.at = "granted"

ExcludesIn(j, t) == t = Migrator \/ j[t].op \in Exclusive \cup {"migrate"}

\* Holders h and queue q agree with the goroutines' states j.
GateOK(h, q, j) ==
  /\ \A t \in Callers : t \in h <=> Leases(j[t])
  /\ \A t, u \in h : ExcludesIn(j, t) => t = u
  /\ \A i \in 1 .. Len(q) : j[q[i]].op \in Gated /\ j[q[i]].at = "waiting"
  /\ \A i, k \in 1 .. Len(q) : q[i] = q[k] => i = k

\* From j to k nothing happened to t but that it may have got its lease.
Kept(t, j, k) ==
  \/ k[t] = j[t]
  \/ /\ j[t].op \in Gated /\ j[t].at = "waiting"
     /\ k[t] = [j[t] EXCEPT !.at = "granted"]

\* Waking the queue keeps holders, queue and goroutines in agreement.
LEMMA NotifyKeeps ==
  ASSUME NEW h \in SUBSET (Callers \cup {Migrator}), NEW q \in Seq(Callers),
         NEW j \in [Callers -> Jobs], GateOK(h, q, j),
         \A t \in h \cup {q[i] : i \in 1 .. Len(q)} : Excludes(t) <=> ExcludesIn(j, t),
         Notify(h, q, j)
  PROVE  /\ holders' \in SUBSET (Callers \cup {Migrator})
         /\ waiters' \in Seq(Callers)
         /\ job' \in [Callers -> Jobs]
         /\ GateOK(holders', waiters', job')
         /\ \A t \in Callers : Kept(t, j, job')
         /\ Migrator \in holders' <=> Migrator \in h
<1> DEFINE n == Admitted(h, q)
           woken == {q[i] : i \in 1 .. n}
<1>1. Len(q) \in Nat /\ \A i \in 1 .. Len(q) : q[i] \in Callers
  OBVIOUS
<1>2. Compatible(h)
  BY DEF Compatible, GateOK
<1>3. n \in 0 .. Len(q) /\ Compatible(h \cup woken)
  BY <1>2, AdmittedFits
<1> HIDE DEF n
<1>4. woken \subseteq {q[i] : i \in 1 .. Len(q)} /\ woken \subseteq Callers
  <2>1. 1 .. n \subseteq 1 .. Len(q)
    BY <1>1, <1>3
  <2> QED
    BY <1>1, <2>1, Zenon
<1>5. \A t \in woken : j[t].op \in Gated /\ j[t].at = "waiting"
  BY <1>1, <1>3 DEF GateOK
<1>6. /\ holders' = h \cup woken
      /\ waiters' = SubSeq(q, n + 1, Len(q))
      /\ job' = [t \in Callers |->
                   IF t \in woken THEN [j[t] EXCEPT !.at = "granted"] ELSE j[t]]
  BY DEF Notify, n
<1>7. /\ waiters' \in Seq(Callers)
      /\ Len(waiters') = Len(q) - n
      /\ \A i \in 1 .. Len(q) - n : waiters'[i] = q[i + n]
  BY <1>1, <1>3, <1>6
<1> HIDE DEF woken
<1>8. job' \in [Callers -> Jobs]
  <2>1. \A t \in Callers : [j[t] EXCEPT !.at = "granted"] \in Jobs
    <3> SUFFICES ASSUME NEW t \in Callers PROVE [j[t] EXCEPT !.at = "granted"] \in Jobs
      OBVIOUS
    <3>1. j[t] \in Jobs
      OBVIOUS
    <3> QED
      BY ONLY <3>1 DEF Jobs, Steps
  <2> QED
    BY <1>6, <2>1
<1>9. \A t \in Callers : Kept(t, j, job')
  BY <1>5, <1>6 DEF Kept
<1>10. \A t \in Callers : t \in holders' <=> Leases(job'[t])
  BY <1>5, <1>6 DEF GateOK, Leases, Jobs
<1>11. \A t, u \in holders' : ExcludesIn(job', t) => t = u
  <2>1. \A t \in holders' : ExcludesIn(job', t) => Excludes(t)
    <3>1. \A t \in Callers : job'[t].op = j[t].op
      BY <1>6 DEF Jobs
    <3>2. \A t \in holders' : ExcludesIn(job', t) => ExcludesIn(j, t)
      BY <1>4, <1>6, <3>1 DEF ExcludesIn
    <3> QED
      BY <1>4, <1>6, <3>2
  <2> QED
    BY <1>3, <1>6, <2>1 DEF Compatible
<1>12. \A i \in 1 .. Len(waiters') : waiters'[i] \in Callers \ woken
  <2> SUFFICES ASSUME NEW i \in 1 .. Len(waiters')
               PROVE  waiters'[i] \in Callers \ woken
    OBVIOUS
  <2>1. i + n \in 1 .. Len(q) /\ i + n \notin 1 .. n
    BY <1>1, <1>3, <1>7
  <2>2. \A k \in 1 .. n : q[k] # q[i + n]
    BY <1>1, <1>3, <2>1 DEF GateOK
  <2> QED
    BY <1>1, <1>7, <2>1, <2>2 DEF woken
<1>13. \A i \in 1 .. Len(waiters') :
          job'[waiters'[i]].op \in Gated /\ job'[waiters'[i]].at = "waiting"
  <2> SUFFICES ASSUME NEW i \in 1 .. Len(waiters')
               PROVE  job'[waiters'[i]].op \in Gated /\ job'[waiters'[i]].at = "waiting"
    OBVIOUS
  <2>1. waiters'[i] = q[i + n] /\ i + n \in 1 .. Len(q)
    BY <1>1, <1>3, <1>7
  <2>2. job'[waiters'[i]] = j[waiters'[i]]
    BY <1>6, <1>12, Zenon
  <2>3. j[q[i + n]].op \in Gated /\ j[q[i + n]].at = "waiting"
    BY <2>1 DEF GateOK
  <2> QED
    BY <2>1, <2>2, <2>3, Zenon
<1>14. \A i, k \in 1 .. Len(waiters') : waiters'[i] = waiters'[k] => i = k
  BY <1>1, <1>3, <1>7 DEF GateOK
<1>15. Migrator \in holders' <=> Migrator \in h
  BY <1>4, <1>6, LifecycleAssumption DEF Callers
<1> QED
  BY <1>4, <1>6, <1>7, <1>8, <1>9, <1>10, <1>11, <1>13, <1>14, <1>15 DEF GateOK

\* A queue without one of its goroutines is still a queue of the others.
LEMMA WithoutKeeps ==
  ASSUME NEW q \in Seq(Callers), NEW t,
         \A i, k \in 1 .. Len(q) : q[i] = q[k] => i = k
  PROVE  /\ Without(q, t) \in Seq(Callers)
         /\ \A i \in 1 .. Len(Without(q, t)) :
              \E k \in 1 .. Len(q) : Without(q, t)[i] = q[k] /\ q[k] # t
         /\ \A i, k \in 1 .. Len(Without(q, t)) :
              Without(q, t)[i] = Without(q, t)[k] => i = k
<1>1. Len(q) \in Nat /\ \A i \in 1 .. Len(q) : q[i] \in Callers
  OBVIOUS
<1>2. CASE \A i \in 1 .. Len(q) : q[i] # t
  <2>1. Without(q, t) = q
    BY <1>2 DEF Without
  <2> QED
    BY <1>2, <2>1
<1>3. CASE \E i \in 1 .. Len(q) : q[i] = t
  <2> DEFINE i == CHOOSE k \in 1 .. Len(q) : q[k] = t
  <2>1. i \in 1 .. Len(q) /\ q[i] = t
    BY <1>3
  <2>2. Without(q, t) = [k \in 1 .. Len(q) - 1 |-> IF k < i THEN q[k] ELSE q[k + 1]]
    BY <1>3 DEF Without
  <2> HIDE DEF i
  <2>3. \A k \in 1 .. Len(q) - 1 : k \in 1 .. Len(q) /\ k + 1 \in 1 .. Len(q)
    BY <1>1
  <2>4. Without(q, t) \in Seq(Callers) /\ Len(Without(q, t)) = Len(q) - 1
    BY <1>1, <2>1, <2>2, <2>3
  <2>5. \A k \in 1 .. Len(q) - 1 : Without(q, t)[k] = IF k < i THEN q[k] ELSE q[k + 1]
    BY <2>2
  <2>6. \A k \in 1 .. Len(q) - 1 : q[k] = t => k = i
    BY <2>1, <2>3
  <2>7. \A k \in 1 .. Len(q) - 1 : q[k + 1] = t => k + 1 = i
    BY <2>1, <2>3
  <2>8. \A k \in 1 .. Len(q) - 1 :
          \E m \in 1 .. Len(q) : Without(q, t)[k] = q[m] /\ q[m] # t
    BY <1>1, <2>1, <2>3, <2>5, <2>6, <2>7
  <2>9. \A k, m \in 1 .. Len(q) - 1 : Without(q, t)[k] = Without(q, t)[m] => k = m
    <3> SUFFICES ASSUME NEW k \in 1 .. Len(q) - 1, NEW m \in 1 .. Len(q) - 1,
                        Without(q, t)[k] = Without(q, t)[m]
                 PROVE  k = m
      OBVIOUS
    <3> DEFINE at(x) == IF x < i THEN x ELSE x + 1
    <3>1. at(k) \in 1 .. Len(q) /\ at(m) \in 1 .. Len(q) /\ q[at(k)] = q[at(m)]
      BY <2>3, <2>5
    <3>2. at(k) = at(m)
      BY <3>1
    <3> QED
      BY <1>1, <2>1, <3>2
  <2> QED
    BY <2>4, <2>8, <2>9
<1> QED
  BY <1>2, <1>3

\* A goroutine whose call returns leaves the gate as it should be.
LEMMA LeaveKeeps ==
  ASSUME TypeOK, GateOK(holders, waiters, job), NEW t \in Callers,
         t = Main => job[t].op \in {"stop", "flush", "close"},
         Leave(t)
  PROVE  /\ holders' \in SUBSET (Callers \cup {Migrator})
         /\ waiters' \in Seq(Callers)
         /\ job' \in [Callers -> Jobs]
         /\ GateOK(holders', waiters', job')
         /\ \A u \in Callers \ {t} : Kept(u, job, job')
         /\ job'[t] = IF t = Main THEN NextCleanup(job[t].op) ELSE Idle
         /\ Migrator \in holders' <=> Migrator \in holders
<1> DEFINE h == holders \ {t}
           q == Without(waiters, t)
           j == Returned(t)
           r == IF t = Main THEN NextCleanup(job[t].op) ELSE Idle
<1>1. job \in [Callers -> Jobs] /\ holders \in SUBSET (Callers \cup {Migrator})
      /\ waiters \in Seq(Callers)
  BY DEF TypeOK
<1>2. r \in Jobs /\ ~Leases(r) /\ r.at # "waiting"
  <2> DEFINE At0(op, at) == [op |-> op, at |-> at, store |-> 0, target |-> NoTarget]
  <2>1. r \in {Idle, At0("flush", "asking"), At0("close", "stopping"), At0("down", "idle")}
    BY DEF NextCleanup, Idle
  <2>2. \A x \in {Idle, At0("flush", "asking"), At0("close", "stopping"), At0("down", "idle")} :
          x \in Jobs /\ ~Leases(x) /\ x.at # "waiting"
    BY LifecycleAssumption DEF Idle, Jobs, Steps, Leases, Gated, Shared, Exclusive
  <2> HIDE DEF At0, r
  <2> QED
    BY <2>1, <2>2
<1>3. j = [job EXCEPT ![t] = r]
  BY <1>1 DEF Returned
<1> HIDE DEF r, j
<1>4. j \in [Callers -> Jobs] /\ j[t] = r /\ \A u \in Callers \ {t} : j[u] = job[u]
  BY <1>1, <1>2, <1>3
<1>5. /\ q \in Seq(Callers)
      /\ \A i \in 1 .. Len(q) : \E k \in 1 .. Len(waiters) : q[i] = waiters[k] /\ waiters[k] # t
      /\ \A i, k \in 1 .. Len(q) : q[i] = q[k] => i = k
  <2>1. \A i, k \in 1 .. Len(waiters) : waiters[i] = waiters[k] => i = k
    BY DEF GateOK
  <2> QED
    BY <1>1, <2>1, WithoutKeeps
<1> HIDE DEF q
<1>6. \A i \in 1 .. Len(q) : q[i] \in Callers \ {t}
  BY <1>5
<1>7. \A u \in h \cup {q[i] : i \in 1 .. Len(q)} : Excludes(u) <=> ExcludesIn(j, u)
  <2>1. \A u \in h \cup {q[i] : i \in 1 .. Len(q)} : u = Migrator \/ u \in Callers \ {t}
    BY <1>1, <1>6
  <2> QED
    BY <1>4, <2>1 DEF Excludes, ExcludesIn
<1>8. GateOK(h, q, j)
  <2>1. \A u \in Callers : u \in h <=> Leases(j[u])
    BY <1>2, <1>4 DEF GateOK
  <2>2. \A u, v \in h : ExcludesIn(j, u) => u = v
    BY <1>1, <1>4 DEF GateOK, ExcludesIn
  <2>3. \A i \in 1 .. Len(q) : j[q[i]].op \in Gated /\ j[q[i]].at = "waiting"
    BY <1>4, <1>5, <1>6 DEF GateOK
  <2> QED
    BY <1>5, <2>1, <2>2, <2>3 DEF GateOK
<1>9. Notify(h, q, j)
  BY DEF Leave, j, q
<1>10. h \in SUBSET (Callers \cup {Migrator})
  BY <1>1
<1>11. Migrator \in h <=> Migrator \in holders
  BY LifecycleAssumption DEF Callers
<1> HIDE DEF h
<1>12. /\ holders' \in SUBSET (Callers \cup {Migrator})
       /\ waiters' \in Seq(Callers)
       /\ job' \in [Callers -> Jobs]
       /\ GateOK(holders', waiters', job')
       /\ \A u \in Callers : Kept(u, j, job')
       /\ Migrator \in holders' <=> Migrator \in h
  BY <1>4, <1>5, <1>7, <1>8, <1>9, <1>10, NotifyKeeps
<1>13. \A u \in Callers \ {t} : Kept(u, job, job')
  BY <1>4, <1>12 DEF Kept
<1>14. job'[t] = r
  BY <1>2, <1>4, <1>12 DEF Kept
<1> QED
  BY <1>11, <1>12, <1>13, <1>14 DEF r

(***************************************************************************)
(* The inductive invariant.                                                *)
(***************************************************************************)

\* What a goroutine t in state r may be doing, and on which store, when the
\* served store is s and the stores in o are open.
Proper(t, r, s, o) ==
  /\ IF t = Main THEN r.op \in {"none", "stop", "flush", "close", "down"}
                 ELSE r.op \notin {"stop", "flush", "close", "down"}
  /\ r.at \in {"opening", "swapped"} => r.op = "reload"
  /\ r.at = "opening" => r.target \in Targets
  /\ r.at = "using" => r.op \in (Gated \ {"reload", "close"}) \cup {"read"}
  /\ r.at = "awaiting" => r.op \in {"cancel", "stop", "close"}
  /\ r.at = "stopping" => r.op \in {"stop", "close"}
  /\ r.op \in Gated /\ r.at = "using" => r.store = s /\ s \in o
  /\ r.at = "swapped" => r.store # s

GateInv ==
  /\ GateOK(holders, waiters, job)
  /\ Migrator \in holders <=> migration.at \in {"copying", "ending"}

JobsInv == \A t \in Callers : Proper(t, job[t], active, open)

StoreInv ==
  /\ active # 0 => active \in open /\ opened[active] = fingerprint
  /\ opened = <<>> => /\ \A t \in Callers : job[t] = Idle
                      /\ migration = NoMigration

\* Before its deadline a shutdown has the store marked as closing from its
\* first wait on.
ShutdownInv ==
  ~expired => /\ job[Main].at = "awaiting" => closing
              /\ job[Main].op \in {"flush", "close"} => closing /\ migration.at = "idle"

IInv ==
  /\ TypeOK /\ GateInv /\ JobsInv /\ StoreInv
  /\ MigrationKeepsTarget /\ NoLostConnection /\ ShutdownInv

\* The owner of an exclusive lease is alone, and no migration is copying.
LEMMA OwnerAlone ==
  ASSUME IInv, NEW t \in Callers, Leases(job[t]), Excludes(t)
  PROVE  /\ \A u \in Callers \ {t} : ~Leases(job[u])
         /\ migration.at \notin {"copying", "ending"}
<1>1. ExcludesIn(job, t) /\ t \in holders
  BY DEF IInv, GateInv, GateOK, Excludes, ExcludesIn
<1>2. \A u \in holders : u = t
  BY <1>1 DEF IInv, GateInv, GateOK
<1>3. t # Migrator
  BY LifecycleAssumption DEF Callers
<1> QED
  BY <1>2, <1>3 DEF IInv, GateInv, GateOK

\* One goroutine moves without touching the gate.
LEMMA MoveKeeps ==
  ASSUME IInv, NEW t \in Callers, NEW r \in Jobs,
         job' = [job EXCEPT ![t] = r], UNCHANGED gate,
         job[t].at # "waiting",
         Leases(r) <=> Leases(job[t]), Leases(r) => r.op = job[t].op
  PROVE  /\ holders' \in SUBSET (Callers \cup {Migrator})
         /\ waiters' \in Seq(Callers)
         /\ job' \in [Callers -> Jobs]
         /\ GateOK(holders', waiters', job')
         /\ \A u \in Callers \ {t} : Kept(u, job, job')
         /\ job'[t] = r
         /\ Migrator \in holders' <=> Migrator \in holders
<1>1. /\ job \in [Callers -> Jobs] /\ holders \in SUBSET (Callers \cup {Migrator})
      /\ waiters \in Seq(Callers) /\ holders' = holders /\ waiters' = waiters
  BY DEF IInv, TypeOK, gate
<1>2. job' \in [Callers -> Jobs] /\ job'[t] = r /\ \A u \in Callers \ {t} : job'[u] = job[u]
  BY <1>1
<1>3. \A u \in Callers : u \in holders <=> Leases(job'[u])
  BY <1>2 DEF IInv, GateInv, GateOK
<1>4. \A u, v \in holders : ExcludesIn(job', u) => u = v
  <2>1. \A u \in holders : ExcludesIn(job', u) => ExcludesIn(job, u)
    BY <1>1, <1>2, <1>3 DEF ExcludesIn
  <2> QED
    BY <2>1 DEF IInv, GateInv, GateOK
<1>5. \A i \in 1 .. Len(waiters) : waiters[i] \in Callers \ {t}
  BY <1>1 DEF IInv, GateInv, GateOK
<1>6. \A i \in 1 .. Len(waiters) : job'[waiters[i]].op \in Gated /\ job'[waiters[i]].at = "waiting"
  BY <1>2, <1>5 DEF IInv, GateInv, GateOK
<1> QED
  BY <1>1, <1>2, <1>3, <1>4, <1>6 DEF IInv, GateInv, GateOK, Kept

\* A goroutine that at most got its lease is still doing what it may.
LEMMA KeptProper ==
  ASSUME IInv, NEW u \in Callers, Kept(u, job, job')
  PROVE  Proper(u, job'[u], active, open)
<1>1. Proper(u, job[u], active, open)
  BY DEF IInv, JobsInv
<1>2. CASE job'[u] = job[u]
  BY <1>1, <1>2
<1>3. CASE job[u].op \in Gated /\ job'[u] = [job[u] EXCEPT !.at = "granted"]
  <2>1. job[u] \in Jobs
    BY DEF IInv, TypeOK
  <2>2. job'[u].op = job[u].op /\ job'[u].at = "granted"
    BY <1>3, <2>1 DEF Jobs
  <2> QED
    BY <1>1, <2>2 DEF Proper
<1> QED
  BY <1>2, <1>3 DEF Kept

\* Whatever happens to the stores concerns only who holds a lease.
LEMMA OthersProper ==
  ASSUME IInv, NEW t \in Callers, Leases(job[t]), Excludes(t),
         NEW u \in Callers \ {t}, Kept(u, job, job'), NEW s, NEW o
  PROVE  Proper(u, job'[u], s, o)
<1>1. ~Leases(job[u]) /\ Proper(u, job'[u], active, open)
  BY OwnerAlone, KeptProper
<1>2. CASE job'[u] = job[u]
  BY <1>1, <1>2 DEF Proper, Leases, Gated, Exclusive
<1>3. CASE job[u].op \in Gated /\ job'[u] = [job[u] EXCEPT !.at = "granted"]
  <2>1. job'[u].at = "granted"
    BY <1>3 DEF IInv, TypeOK, Jobs
  <2> QED
    BY <1>1, <2>1 DEF Proper
<1> QED
  BY <1>2, <1>3 DEF Kept

\* A move of t that changes no store keeps the goroutines and stores right.
LEMMA SameStores ==
  ASSUME IInv, NEW t \in Callers, UNCHANGED stores,
         \A u \in Callers \ {t} : Kept(u, job, job'),
         Proper(t, job'[t], active, open), job[t].at = "swapped" => job'[t] = job[t],
         opened # <<>>
  PROVE  JobsInv' /\ StoreInv' /\ NoLostConnection'
<1>1. UNCHANGED <<active, open, opened, fingerprint>>
  BY DEF stores
<1>2. \A u \in Callers \ {t} : Proper(u, job'[u], active, open)
  BY KeptProper
<1>4. JobsInv'
  BY <1>1, <1>2 DEF JobsInv
<1>5. StoreInv'
  BY <1>1 DEF IInv, StoreInv
<1>6. \A u \in Callers : At(u, "reload", "swapped")
                             => At(u, "reload", "swapped")' /\ job'[u].store = job[u].store
  BY DEF At, Kept
<1>7. NoLostConnection'
  BY <1>1, <1>6 DEF IInv, NoLostConnection
<1> QED
  BY <1>4, <1>5, <1>7

\* What a step of t leaves of the gate.
Moves(t) ==
  /\ holders' \in SUBSET (Callers \cup {Migrator})
  /\ waiters' \in Seq(Callers)
  /\ job' \in [Callers -> Jobs]
  /\ GateOK(holders', waiters', job')
  /\ \A u \in Callers \ {t} : Kept(u, job, job')

\* A step of t that changes neither the stores nor the migration.
LEMMA Preserved ==
  ASSUME IInv, NEW t \in Callers, opened # <<>>, Moves(t),
         Migrator \in holders' <=> Migrator \in holders,
         UNCHANGED <<stores, saved, expired>>,
         migration' = migration \/ migration' = [migration EXCEPT !.canceled = TRUE],
         configured' \in Targets, closing' \in BOOLEAN,
         Proper(t, job'[t], active, open),
         job[t].at = "swapped" => job'[t] = job[t],
         t # Main => closing' = closing,
         t = Main => ShutdownInv'
  PROVE  IInv'
<1>0. /\ migration'.at = migration.at /\ migration'.store = migration.store
      /\ migration'.target = migration.target /\ migration' \in MigrationStates
  BY DEF IInv, TypeOK, MigrationStates
<1>1. JobsInv' /\ StoreInv' /\ NoLostConnection'
  BY SameStores DEF Moves
<1>2. TypeOK'
  BY <1>0 DEF IInv, TypeOK, stores, Moves
<1>3. GateInv'
  BY <1>0 DEF IInv, GateInv, Moves
<1>4. MigrationKeepsTarget'
  BY <1>0 DEF IInv, MigrationKeepsTarget, stores
<1>5. ShutdownInv'
  <2>1. CASE t = Main
    BY <2>1
  <2>2. CASE t # Main
    <3>1. Kept(Main, job, job') /\ job[Main] \in Jobs
      BY <2>2 DEF Moves, Callers, IInv, TypeOK
    <3>2. job'[Main].op = job[Main].op /\ (job'[Main].at = "awaiting" => job[Main].at = "awaiting")
      BY <3>1 DEF Kept, Jobs
    <3> QED
      BY <1>0, <2>2, <3>2 DEF IInv, ShutdownInv
  <2> QED
    BY <2>1, <2>2
<1> QED
  BY <1>1, <1>2, <1>3, <1>4, <1>5 DEF IInv

\* Nobody is busy before a store was opened.
LEMMA BusyOpened ==
  ASSUME IInv, NEW t \in Callers, job[t] # Idle
  PROVE  opened # <<>>
BY DEF IInv, StoreInv

LEMMA MainCaller == Main \in Callers /\ Main \notin Clients /\ Clients \subseteq Callers
BY LifecycleAssumption DEF Callers

\* A call that returns, and lets go of its lease or of its place in the queue.
LEMMA Leaves ==
  ASSUME IInv, NEW t \in Callers, Leave(t), job[t].op # "none",
         job[t].at # "swapped",
         t = Main => job[t].op \in {"stop", "flush", "close"},
         t = Main /\ ~expired => job[t].op # "stop" /\ closing' = closing,
         closing' = closing \/ (t = Main /\ closing' = FALSE),
         UNCHANGED <<config, stores, expired, migration>>
  PROVE  IInv'
<1>1. /\ Moves(t)
      /\ job'[t] = IF t = Main THEN NextCleanup(job[t].op) ELSE Idle
      /\ Migrator \in holders' <=> Migrator \in holders
  BY LeaveKeeps DEF Moves, IInv, GateInv
<1>2. opened # <<>>
  BY BusyOpened DEF Idle
<1>3. Proper(t, job'[t], active, open)
  <2>1. CASE t # Main
    BY <1>1, <2>1 DEF Proper, Idle
  <2>2. CASE t = Main
    BY <1>1, <2>2 DEF Proper, Idle, NextCleanup
  <2> QED
    BY <2>1, <2>2
<1>4. ASSUME t = Main
      PROVE  ShutdownInv'
  <2>1. CASE expired
    BY <2>1 DEF ShutdownInv
  <2>2. CASE ~expired /\ job[t].op = "flush"
    BY <1>1, <1>4, <2>2 DEF IInv, ShutdownInv, NextCleanup, Idle
  <2>3. CASE ~expired /\ job[t].op = "close"
    BY <1>1, <1>4, <2>3 DEF IInv, ShutdownInv, NextCleanup, Idle
  <2> QED
    BY <1>4, <2>1, <2>2, <2>3
<1>5. configured' \in Targets /\ closing' \in BOOLEAN /\ UNCHANGED <<stores, migration, saved, expired>>
  BY DEF IInv, TypeOK, config
<1> QED
  BY <1>1, <1>2, <1>3, <1>4, <1>5, Preserved

\* A call that goes on without touching the gate.
LEMMA GoesOn ==
  ASSUME IInv, NEW t \in Callers, NEW r \in Jobs,
         job' = [job EXCEPT ![t] = r], opened # <<>>,
         job[t].at \notin {"waiting", "swapped"},
         Leases(r) <=> Leases(job[t]), Leases(r) => r.op = job[t].op,
         Proper(t, r, active, open),
         configured' \in Targets, closing' \in BOOLEAN,
         t # Main => closing' = closing,
         t = Main => ShutdownInv',
         migration' = migration \/ migration' = [migration EXCEPT !.canceled = TRUE],
         UNCHANGED <<saved, stores, gate, expired>>
  PROVE  IInv'
<1>1. Moves(t) /\ job'[t] = r /\ (Migrator \in holders' <=> Migrator \in holders)
  BY MoveKeeps DEF Moves
<1> QED
  BY <1>1, Preserved

(***************************************************************************)
(* The steps of the calls.                                                 *)
(***************************************************************************)
LEMMA AcquireStep ==
  ASSUME IInv, NEW t \in Callers, Acquire(t)
  PROVE  IInv'
<1>1. /\ job[t].op \in Gated /\ job[t].at = "asking" /\ job[t] \in Jobs
      /\ job \in [Callers -> Jobs] /\ waiters \in Seq(Callers)
      /\ holders \in SUBSET (Callers \cup {Migrator})
  BY DEF Acquire, IInv, TypeOK
<1>2. t \notin holders /\ \A i \in 1 .. Len(waiters) : waiters[i] # t
  BY <1>1 DEF IInv, GateInv, GateOK, Leases
<1>3. Moves(t) /\ Kept(t, [job EXCEPT ![t].at = "waiting"], job') /\ job'[t].op = job[t].op
      /\ job'[t].at \in {"granted", "waiting"}
  <2>1. CASE waiters = <<>> /\ Compatible(holders \cup {t})
    <3>1. holders' = holders \cup {t} /\ waiters' = waiters /\ job' = Moved(t, "granted")
      BY <2>1 DEF Acquire
    <3>2. /\ job' \in [Callers -> Jobs] /\ job'[t] = [job[t] EXCEPT !.at = "granted"]
          /\ \A u \in Callers \ {t} : job'[u] = job[u]
      BY <1>1, <3>1 DEF Moved, Jobs, Steps
    <3>3. job'[t].op = job[t].op /\ job'[t].at = "granted"
      BY <1>1, <3>2 DEF Jobs
    <3>4. \A u \in Callers : u \in holders' <=> Leases(job'[u])
      BY <1>1, <3>1, <3>2, <3>3 DEF IInv, GateInv, GateOK, Leases
    <3>5. \A u, v \in holders' : ExcludesIn(job', u) => u = v
      <4>1. \A u \in holders' : ExcludesIn(job', u) => Excludes(u)
        BY <1>1, <3>1, <3>2, <3>3 DEF Excludes, ExcludesIn
      <4> QED
        BY <2>1, <3>1, <4>1 DEF Compatible
    <3>6. GateOK(holders', waiters', job')
      BY <2>1, <3>1, <3>4, <3>5 DEF GateOK
    <3> QED
      BY <1>1, <3>1, <3>2, <3>3, <3>6 DEF Moves, Kept, Jobs
  <2>2. CASE ~(waiters = <<>> /\ Compatible(holders \cup {t}))
    <3>1. holders' = holders /\ waiters' = Append(waiters, t) /\ job' = Moved(t, "waiting")
      BY <2>2 DEF Acquire
    <3>2. /\ job' \in [Callers -> Jobs] /\ job'[t] = [job[t] EXCEPT !.at = "waiting"]
          /\ \A u \in Callers \ {t} : job'[u] = job[u]
      BY <1>1, <3>1 DEF Moved, Jobs, Steps
    <3>3. job'[t].op = job[t].op /\ job'[t].at = "waiting"
      BY <1>1, <3>2 DEF Jobs
    <3>4. \A u \in Callers : u \in holders' <=> Leases(job'[u])
      BY <1>1, <1>2, <3>1, <3>2, <3>3 DEF IInv, GateInv, GateOK, Leases, Gated, Shared, Exclusive
    <3>5. \A u, v \in holders' : ExcludesIn(job', u) => u = v
      BY <1>1, <1>2, <3>1, <3>2 DEF IInv, GateInv, GateOK, ExcludesIn
    <3>6. /\ waiters' \in Seq(Callers) /\ Len(waiters') = Len(waiters) + 1
          /\ \A i \in 1 .. Len(waiters) : waiters'[i] = waiters[i]
          /\ waiters'[Len(waiters) + 1] = t
      BY <1>1, <3>1
    <3>7. \A i \in 1 .. Len(waiters') : job'[waiters'[i]].op \in Gated /\ job'[waiters'[i]].at = "waiting"
      <4>1. \A i \in 1 .. Len(waiters) : waiters[i] \in Callers \ {t}
                /\ job[waiters[i]].op \in Gated /\ job[waiters[i]].at = "waiting"
        BY <1>1, <1>2 DEF IInv, GateInv, GateOK
      <4>2. \A i \in 1 .. Len(waiters) :
              job'[waiters'[i]].op \in Gated /\ job'[waiters'[i]].at = "waiting"
        BY <3>2, <3>6, <4>1
      <4>3. \A i \in 1 .. Len(waiters') : i \in 1 .. Len(waiters) \/ i = Len(waiters) + 1
        BY <1>1, <3>6
      <4> QED
        BY <1>1, <3>3, <3>6, <4>2, <4>3
    <3>8. \A i, k \in 1 .. Len(waiters') : waiters'[i] = waiters'[k] => i = k
      BY <1>1, <1>2, <3>6 DEF IInv, GateInv, GateOK
    <3>9. GateOK(holders', waiters', job')
      BY <3>4, <3>5, <3>7, <3>8 DEF GateOK
    <3> QED
      BY <1>1, <3>1, <3>2, <3>3, <3>6, <3>9 DEF Moves, Kept, Jobs
  <2> QED
    BY <2>1, <2>2
<1>4. Migrator \in holders' <=> Migrator \in holders
  <2>1. t # Migrator
    BY LifecycleAssumption DEF Callers
  <2> QED
    BY <2>1 DEF Acquire
<1>5. Proper(t, job'[t], active, open)
  <2>1. Proper(t, job[t], active, open)
    BY DEF IInv, JobsInv
  <2> QED
    BY <1>3, <2>1 DEF Proper
<1>6. t = Main => ShutdownInv'
  BY <1>3 DEF Acquire, flags, IInv, ShutdownInv
<1>7. opened # <<>>
  BY <1>1, BusyOpened DEF Idle
<1>8. /\ UNCHANGED <<stores, migration, saved, expired>> /\ closing' = closing
      /\ configured' \in Targets /\ closing' \in BOOLEAN
  BY DEF Acquire, flags, config, IInv, TypeOK
<1> QED
  BY <1>1, <1>3, <1>4, <1>5, <1>6, <1>7, <1>8, Preserved

LEMMA GiveUpStep ==
  ASSUME IInv, NEW t \in Callers, GiveUp(t)
  PROVE  IInv'
<1>1. t = Main => job[t].op \in {"none", "stop", "flush", "close", "down"}
  BY DEF IInv, JobsInv, Proper
<1>2. /\ job[t].op \in (Gated \ {"reclaim"}) \cup {"cancel", "stop"}
      /\ job[t].at # "swapped" /\ (t = Main => expired)
      /\ closing' = (closing /\ job[t].op # "close")
      /\ Leave(t) /\ UNCHANGED <<config, stores, expired, migration>>
  BY DEF GiveUp
<1>3. t # Main => job[t].op # "close"
  BY DEF IInv, JobsInv, Proper
<1>4. closing' = closing \/ (t = Main /\ closing' = FALSE)
  <2>1. closing \in BOOLEAN
    BY DEF IInv, TypeOK
  <2> QED
    BY <1>2, <1>3, <2>1
<1>5. job[t].op # "none" /\ (t = Main => job[t].op \in {"stop", "flush", "close"})
  BY <1>1, <1>2 DEF Gated, Shared, Exclusive
<1> QED
  BY <1>2, <1>4, <1>5, Leaves

LEMMA ReadStoreStep ==
  ASSUME IInv, NEW t \in Callers, ReadStore(t)
  PROVE  IInv'
<1> DEFINE r == [job[t] EXCEPT !.at = "using", !.store = active]
<1>1. /\ job[t].op \in Gated \ {"reload", "close"} /\ job[t].at = "granted"
      /\ UNCHANGED <<config, stores, flags, migration>>
      /\ job \in [Callers -> Jobs] /\ job[t] \in Jobs
      /\ Proper(t, job[t], active, open) /\ opened # <<>>
  BY BusyOpened DEF ReadStore, IInv, TypeOK, JobsInv, Idle
<1>2. CASE active = 0
  <2>1. Leave(t) /\ UNCHANGED <<config, stores, expired, migration>> /\ closing' = closing
    BY <1>2 DEF ReadStore, flags
  <2>2. job[t].op \notin {"none", "stop"} /\ (t = Main => job[t].op \in {"stop", "flush", "close"})
    BY <1>1 DEF Proper, Gated, Shared, Exclusive
  <2> QED
    BY <1>1, <2>1, <2>2, Leaves
<1>3. CASE active # 0
  <2>1. job' = [job EXCEPT ![t] = r] /\ UNCHANGED gate
    BY <1>1, <1>3 DEF ReadStore
  <2>2. active \in 0 .. MaxOpens /\ active \in open
    BY <1>3, LifecycleAssumption DEF IInv, TypeOK, StoreInv
  <2>3. r \in Jobs /\ r.op = job[t].op /\ r.at = "using" /\ r.store = active
    BY <1>1, <2>2 DEF Jobs, Steps
  <2>4. Proper(t, r, active, open)
    BY <1>1, <2>2, <2>3 DEF Proper
  <2>5. Leases(r) /\ Leases(job[t])
    BY <1>1, <2>3 DEF Leases
  <2>6. t = Main => ShutdownInv'
    BY <1>1, <2>1, <2>3 DEF IInv, ShutdownInv, flags
  <2>7. configured' \in Targets /\ closing' \in BOOLEAN /\ UNCHANGED <<saved, closing, expired>>
    BY <1>1 DEF IInv, TypeOK, config, flags
  <2> HIDE DEF r
  <2> QED
    BY <1>1, <2>1, <2>3, <2>4, <2>5, <2>6, <2>7, GoesOn
<1> QED
  BY <1>2, <1>3

LEMMA FinishStep ==
  ASSUME IInv, NEW t \in Callers, Finish(t)
  PROVE  IInv'
<1>1. /\ job[t].at = "using" /\ Leave(t) /\ UNCHANGED <<config, stores, flags, migration>>
      /\ Proper(t, job[t], active, open)
  BY DEF Finish, IInv, JobsInv
<1>2. job[t].op \notin {"none", "stop", "reload"} /\ (t = Main => job[t].op = "flush")
  BY <1>1 DEF Proper, Gated, Shared, Exclusive
<1>3. UNCHANGED <<config, stores, expired, migration>> /\ closing' = closing
  BY <1>1 DEF flags
<1> QED
  BY <1>1, <1>2, <1>3, Leaves

LEMMA CallStep ==
  ASSUME IInv, NEW t \in Clients, NEW op \in Offered, Call(t, op)
  PROVE  IInv'
<1> DEFINE r == [job[t] EXCEPT !.op = op, !.at = "asking"]
<1>1. /\ t \in Callers /\ t # Main /\ opened # <<>> /\ job[t] = Idle
      /\ UNCHANGED <<config, stores, gate, flags, migration>>
      /\ job \in [Callers -> Jobs] /\ job[t] \in Jobs
  BY MainCaller DEF Call, IInv, TypeOK
<1>2. job' = [job EXCEPT ![t] = r]
  BY <1>1 DEF Call
<1>3. op \in {"report", "query", "compact", "exec", "reclaim", "cancel", "read"}
  BY LifecycleAssumption DEF Call
<1>4. r \in Jobs /\ r.op = op /\ r.at = "asking"
  BY <1>1, <1>3 DEF Jobs, Steps, Gated, Shared, Exclusive
<1>5. /\ job[t].at = "idle" /\ ~Leases(r) /\ ~Leases(job[t]) /\ Proper(t, r, active, open)
  BY <1>1, <1>3, <1>4 DEF Idle, Leases, Proper
<1>6. configured' \in Targets /\ closing' \in BOOLEAN /\ closing' = closing
      /\ UNCHANGED <<saved, stores, gate, expired, migration>>
  BY <1>1 DEF IInv, TypeOK, config, flags
<1> HIDE DEF r
<1> QED
  BY <1>1, <1>2, <1>4, <1>5, <1>6, GoesOn

LEMMA GetStoreStep ==
  ASSUME IInv, NEW t \in Callers, GetStore(t)
  PROVE  IInv'
<1>1. /\ job[t].op = "read" /\ job[t].at = "asking"
      /\ UNCHANGED <<config, stores, gate, flags, migration>>
      /\ job \in [Callers -> Jobs] /\ job[t] \in Jobs
      /\ t # Main /\ opened # <<>>
  BY BusyOpened DEF GetStore, At, IInv, TypeOK, JobsInv, Proper, Idle
<1>2. PICK r \in Jobs : /\ job' = [job EXCEPT ![t] = r]
                        /\ r = Idle \/ (r.op = "read" /\ r.at = "using")
  <2>1. CASE active = 0
    <3>1. Idle \in Jobs
      BY LifecycleAssumption DEF Idle, Jobs, Steps
    <3> QED
      BY <1>1, <2>1, <3>1 DEF GetStore, Returned
  <2>2. CASE active # 0
    <3>1. active \in 0 .. MaxOpens
      BY LifecycleAssumption DEF IInv, TypeOK
    <3>2. [job[t] EXCEPT !.at = "using", !.store = active] \in Jobs
      BY <1>1, <3>1 DEF Jobs, Steps
    <3>3. job' = [job EXCEPT ![t] = [job[t] EXCEPT !.at = "using", !.store = active]]
      BY <1>1, <2>2 DEF GetStore
    <3>4. [job[t] EXCEPT !.at = "using", !.store = active].op = "read"
          /\ [job[t] EXCEPT !.at = "using", !.store = active].at = "using"
      BY <1>1 DEF Jobs
    <3> QED
      BY <3>2, <3>3, <3>4
  <2> QED
    BY <2>1, <2>2
<1>3. ~Leases(r) /\ ~Leases(job[t]) /\ Proper(t, r, active, open)
  BY <1>1, <1>2 DEF Idle, Leases, Proper, Gated, Shared, Exclusive
<1>4. configured' \in Targets /\ closing' \in BOOLEAN /\ closing' = closing
      /\ UNCHANGED <<saved, stores, gate, expired, migration>>
  BY <1>1 DEF IInv, TypeOK, config, flags
<1> QED
  BY <1>1, <1>2, <1>3, <1>4, GoesOn

LEMMA EditSettingsStep ==
  ASSUME IInv, NEW t \in Clients, NEW target \in Targets, EditSettings(t, target)
  PROVE  IInv'
<1> DEFINE r == [job[t] EXCEPT !.op = "reload", !.at = "asking"]
<1>1. /\ t \in Callers /\ t # Main /\ opened # <<>> /\ job[t] = Idle
      /\ configured' = target /\ UNCHANGED <<saved, stores, gate, flags, migration>>
      /\ job \in [Callers -> Jobs] /\ job[t] \in Jobs
  BY MainCaller DEF EditSettings, IInv, TypeOK
<1>2. job' = [job EXCEPT ![t] = r]
  BY <1>1 DEF EditSettings
<1>3. r \in Jobs /\ r.op = "reload" /\ r.at = "asking"
  BY <1>1 DEF Jobs, Steps, Gated, Exclusive
<1>4. job[t].at = "idle" /\ ~Leases(r) /\ ~Leases(job[t]) /\ Proper(t, r, active, open)
  BY <1>1, <1>3 DEF Idle, Leases, Proper
<1>5. closing' \in BOOLEAN /\ closing' = closing /\ expired' = expired
  BY <1>1 DEF IInv, TypeOK, flags
<1> HIDE DEF r
<1> QED
  BY <1>1, <1>2, <1>3, <1>4, <1>5, GoesOn

LEMMA RequestMigrationStep ==
  ASSUME IInv, NEW t \in Clients, NEW source, RequestMigration(t, source)
  PROVE  IInv'
<1> DEFINE r == [job[t] EXCEPT !.op = "migrate", !.at = "asking", !.target = configured]
<1>1. /\ t \in Callers /\ t # Main /\ opened # <<>> /\ job[t] = Idle
      /\ UNCHANGED <<config, stores, gate, flags, migration>>
      /\ job \in [Callers -> Jobs] /\ job[t] \in Jobs /\ configured \in Targets
  BY MainCaller DEF RequestMigration, IInv, TypeOK
<1>2. job' = [job EXCEPT ![t] = r]
  BY <1>1 DEF RequestMigration
<1>3. r \in Jobs /\ r.op = "migrate" /\ r.at = "asking"
  BY <1>1 DEF Jobs, Steps
<1>4. job[t].at = "idle" /\ ~Leases(r) /\ ~Leases(job[t]) /\ Proper(t, r, active, open)
  BY <1>1, <1>3 DEF Idle, Leases, Proper
<1>5. configured' \in Targets /\ closing' \in BOOLEAN /\ closing' = closing
      /\ UNCHANGED <<saved, stores, gate, expired, migration>>
  BY <1>1 DEF IInv, TypeOK, config, flags
<1> HIDE DEF r
<1> QED
  BY <1>1, <1>2, <1>3, <1>4, <1>5, GoesOn

LEMMA ReloadReadsStep ==
  ASSUME IInv, NEW t \in Callers, ReloadReads(t)
  PROVE  IInv'
<1> DEFINE r == [job[t] EXCEPT !.at = "opening", !.target = configured]
<1>1. /\ job[t].op = "reload" /\ job[t].at = "granted" /\ t # Main /\ opened # <<>>
      /\ job \in [Callers -> Jobs] /\ job[t] \in Jobs /\ configured \in Targets
      /\ Proper(t, job[t], active, open)
  BY BusyOpened DEF ReloadReads, At, IInv, TypeOK, JobsInv, Proper, Idle
<1>2. /\ UNCHANGED <<config, stores, expired, migration, saved>> /\ closing' = closing
      /\ configured' \in Targets /\ closing' \in BOOLEAN
  BY DEF ReloadReads, flags, config, IInv, TypeOK
<1>3. CASE closing
  <2>1. Leave(t)
    BY <1>3 DEF ReloadReads
  <2> QED
    BY <1>1, <1>2, <2>1, Leaves
<1>4. CASE ~closing
  <2>1. job' = [job EXCEPT ![t] = r] /\ UNCHANGED gate
    BY <1>1, <1>4 DEF ReloadReads
  <2>2. r \in Jobs /\ r.op = "reload" /\ r.at = "opening"
    BY <1>1 DEF Jobs, Steps
  <2>3. r.target \in Targets
    BY <1>1 DEF Jobs
  <2>4. Leases(r) /\ Leases(job[t]) /\ Proper(t, r, active, open)
    BY <1>1, <2>2, <2>3 DEF Leases, Proper, Gated, Exclusive
  <2> HIDE DEF r
  <2> QED
    BY <1>1, <1>2, <2>1, <2>2, <2>4, GoesOn
<1> QED
  BY <1>3, <1>4

LEMMA ReloadFailsStep ==
  ASSUME IInv, NEW t \in Callers, ReloadFails(t)
  PROVE  IInv'
<1>1. /\ job[t].op = "reload" /\ job[t].at = "opening" /\ t # Main /\ Leave(t)
  BY DEF ReloadFails, At, IInv, JobsInv, Proper
<1>2. UNCHANGED <<config, stores, expired, migration>> /\ closing' = closing
  BY DEF ReloadFails, flags
<1> QED
  BY <1>1, <1>2, Leaves

LEMMA TryAcquireStep ==
  ASSUME IInv, NEW t \in Callers, TryAcquire(t)
  PROVE  IInv'
<1>1. /\ job[t].op = "migrate" /\ job[t].at = "asking" /\ t # Main /\ opened # <<>>
      /\ job \in [Callers -> Jobs] /\ job[t] \in Jobs /\ t # Migrator
      /\ Proper(t, job[t], active, open)
  BY BusyOpened, LifecycleAssumption
  DEF TryAcquire, At, IInv, TypeOK, JobsInv, Proper, Idle, Callers
<1>2. /\ UNCHANGED <<stores, expired, migration, saved, waiters>> /\ closing' = closing
      /\ configured' \in Targets /\ closing' \in BOOLEAN
  BY DEF TryAcquire, flags, config, IInv, TypeOK
<1>3. CASE holders = {} /\ waiters = <<>>
  <2>1. holders' = {t} /\ job' = Moved(t, "granted") /\ waiters' = <<>>
    BY <1>2, <1>3 DEF TryAcquire
  <2>2. /\ job' \in [Callers -> Jobs] /\ job'[t] = [job[t] EXCEPT !.at = "granted"]
        /\ \A u \in Callers \ {t} : job'[u] = job[u]
    BY <1>1, <2>1 DEF Moved, Jobs, Steps
  <2>3. job'[t].op = "migrate" /\ job'[t].at = "granted"
    BY <1>1, <2>2 DEF Jobs
  <2>4. GateOK(holders', waiters', job')
    BY <1>3, <2>1, <2>2, <2>3 DEF IInv, GateInv, GateOK, Leases
  <2>5. Moves(t) /\ (Migrator \in holders' <=> Migrator \in holders)
    BY <1>1, <1>3, <2>1, <2>2, <2>4 DEF Moves, Kept
  <2>6. Proper(t, job'[t], active, open)
    BY <1>1, <2>3 DEF Proper
  <2> QED
    BY <1>1, <1>2, <2>5, <2>6, Preserved
<1>4. CASE ~(holders = {} /\ waiters = <<>>)
  <2>1. job' = [job EXCEPT ![t] = Idle] /\ UNCHANGED gate
    BY <1>1, <1>4 DEF TryAcquire, Returned, gate
  <2>2. Idle \in Jobs /\ ~Leases(Idle) /\ ~Leases(job[t]) /\ Proper(t, Idle, active, open)
    BY <1>1, LifecycleAssumption DEF Idle, Jobs, Steps, Leases, Proper
  <2> QED
    BY <1>1, <1>2, <2>1, <2>2, GoesOn
<1> QED
  BY <1>3, <1>4

\* The lease passes to the migration, which starts on the served store.
LEMMA StartMigrationStep ==
  ASSUME IInv, NEW t \in Callers, StartMigration(t)
  PROVE  IInv'
<1>1. /\ job[t].op = "migrate" /\ job[t].at = "granted" /\ t # Main /\ opened # <<>>
      /\ job \in [Callers -> Jobs] /\ job[t] \in Jobs /\ t # Migrator
      /\ waiters \in Seq(Callers) /\ holders \in SUBSET (Callers \cup {Migrator})
  BY BusyOpened, LifecycleAssumption
  DEF StartMigration, At, IInv, TypeOK, JobsInv, Proper, Idle, Callers
<1>2. UNCHANGED <<config, stores, expired, saved, configured, flags>> /\ closing' = closing
  BY DEF StartMigration, flags, config
<1>3. CASE ~MayMigrate(job[t].target)
  <2>1. Leave(t) /\ UNCHANGED migration
    BY <1>3 DEF StartMigration
  <2> QED
    BY <1>1, <1>2, <2>1, Leaves
<1>4. CASE MayMigrate(job[t].target)
  <2>1. /\ migration' = [at |-> "copying", canceled |-> FALSE,
                          store |-> active, target |-> job[t].target]
        /\ holders' = (holders \ {t}) \cup {Migrator} /\ waiters' = waiters
        /\ job' = [job EXCEPT ![t] = Idle]
    BY <1>1, <1>4 DEF StartMigration, Returned
  <2>2. /\ Idle \in Jobs /\ ~Leases(Idle) /\ Proper(t, Idle, active, open)
    BY <1>1, LifecycleAssumption DEF Idle, Jobs, Steps, Leases, Proper
  <2>3. /\ job' \in [Callers -> Jobs] /\ job'[t] = Idle
        /\ \A u \in Callers \ {t} : job'[u] = job[u]
    BY <1>1, <2>1, <2>2
  <2>4. \A u \in Callers \ {t} : ~Leases(job[u])
    BY <1>1, OwnerAlone DEF Leases, Excludes
  <2>5. \A u \in Callers : u \notin holders' /\ ~Leases(job'[u])
    <3>1. \A u \in Callers \ {t} : u \notin holders
      BY <2>4 DEF IInv, GateInv, GateOK
    <3>2. Migrator \notin Callers
      BY LifecycleAssumption DEF Callers
    <3> QED
      BY <2>1, <2>2, <2>3, <2>4, <3>1, <3>2
  <2>6. holders' = {Migrator}
    BY <1>1, <2>1, <2>5
  <2>7. \A i \in 1 .. Len(waiters) : waiters[i] \in Callers \ {t}
    BY <1>1 DEF IInv, GateInv, GateOK
  <2>8. GateOK(holders', waiters', job')
    <3>1. \A i \in 1 .. Len(waiters) : job'[waiters[i]].op \in Gated /\ job'[waiters[i]].at = "waiting"
      BY <2>3, <2>7 DEF IInv, GateInv, GateOK
    <3>2. \A u, v \in holders' : u = v
      BY <2>6
    <3> QED
      BY <2>1, <2>5, <3>1, <3>2 DEF IInv, GateInv, GateOK
  <2>9. JobsInv' /\ StoreInv' /\ NoLostConnection'
    BY <1>1, <1>2, <2>2, <2>3, SameStores DEF Kept
  <2>10. active \in 0 .. MaxOpens /\ job[t].target \in Targets \cup {NoTarget}
    BY <1>1, LifecycleAssumption DEF IInv, TypeOK, Jobs
  <2>11. TypeOK'
    BY <1>1, <1>2, <2>1, <2>3, <2>6, <2>10 DEF IInv, TypeOK, stores, MigrationStates
  <2>12. GateInv'
    BY <2>1, <2>6, <2>8 DEF GateInv
  <2>13. MigrationKeepsTarget'
    BY <1>2, <1>4, <2>1 DEF MigrationKeepsTarget, MayMigrate, IInv, StoreInv, stores
  <2>14. ShutdownInv'
    <3>1. ~closing
      BY <1>4 DEF MayMigrate
    <3>2. job'[Main] = job[Main] /\ expired' = expired
      BY <1>1, <1>2, <2>3, MainCaller
    <3> QED
      BY <3>1, <3>2 DEF IInv, ShutdownInv
  <2> QED
    BY <2>9, <2>11, <2>12, <2>13, <2>14 DEF IInv
<1> QED
  BY <1>3, <1>4

LEMMA CancelMigrationStep ==
  ASSUME IInv, NEW t \in Callers, CancelMigration(t)
  PROVE  IInv'
<1>1. /\ job[t].op = "cancel" /\ job[t].at = "asking" /\ t # Main /\ opened # <<>>
      /\ job \in [Callers -> Jobs] /\ job[t] \in Jobs
      /\ Proper(t, job[t], active, open)
  BY BusyOpened DEF CancelMigration, At, IInv, TypeOK, JobsInv, Proper, Idle
<1>2. /\ UNCHANGED <<stores, expired, saved, gate>> /\ closing' = closing
      /\ configured' \in Targets /\ closing' \in BOOLEAN
  BY DEF CancelMigration, flags, config, IInv, TypeOK
<1>3. CASE migration.at = "idle"
  <2>1. job' = [job EXCEPT ![t] = Idle] /\ migration' = migration
    BY <1>1, <1>3 DEF CancelMigration, Returned
  <2>2. Idle \in Jobs /\ ~Leases(Idle) /\ ~Leases(job[t]) /\ Proper(t, Idle, active, open)
    BY <1>1, LifecycleAssumption DEF Idle, Jobs, Steps, Leases, Proper
  <2> QED
    BY <1>1, <1>2, <2>1, <2>2, GoesOn
<1>4. CASE migration.at # "idle"
  <2> DEFINE r == [job[t] EXCEPT !.at = "awaiting"]
  <2>1. /\ job' = [job EXCEPT ![t] = r]
        /\ migration' = [migration EXCEPT !.canceled = TRUE]
    BY <1>1, <1>4 DEF CancelMigration, Moved
  <2>2. r \in Jobs /\ r.op = "cancel" /\ r.at = "awaiting"
    BY <1>1 DEF Jobs, Steps
  <2>3. ~Leases(r) /\ ~Leases(job[t]) /\ Proper(t, r, active, open)
    BY <1>1, <2>2 DEF Leases, Proper, Gated, Shared, Exclusive
  <2> HIDE DEF r
  <2> QED
    BY <1>1, <1>2, <2>1, <2>2, <2>3, GoesOn
<1> QED
  BY <1>3, <1>4

LEMMA BeginShutdownStep ==
  ASSUME IInv, BeginShutdown
  PROVE  IInv'
<1> DEFINE r == [job[Main] EXCEPT !.op = "stop", !.at = "stopping"]
<1>1. /\ opened # <<>> /\ job[Main] = Idle /\ Main \in Callers
      /\ UNCHANGED <<config, stores, gate, flags, migration>>
      /\ job \in [Callers -> Jobs] /\ job[Main] \in Jobs
  BY MainCaller DEF BeginShutdown, IInv, TypeOK
<1>2. job' = [job EXCEPT ![Main] = r]
  BY <1>1 DEF BeginShutdown
<1>3. r \in Jobs /\ r.op = "stop" /\ r.at = "stopping"
  BY <1>1 DEF Jobs, Steps
<1>4. job[Main].at = "idle" /\ ~Leases(r) /\ ~Leases(job[Main]) /\ Proper(Main, r, active, open)
  BY <1>1, <1>3 DEF Idle, Leases, Proper, Gated, Shared, Exclusive
<1>5. configured' \in Targets /\ closing' \in BOOLEAN /\ closing' = closing
      /\ UNCHANGED <<saved, stores, gate, expired, migration>>
  BY <1>1 DEF IInv, TypeOK, config, flags
<1>6. ShutdownInv'
  BY <1>1, <1>2, <1>3 DEF ShutdownInv
<1> HIDE DEF r
<1> QED
  BY <1>1, <1>2, <1>3, <1>4, <1>5, <1>6, GoesOn

LEMMA ExpireStep ==
  ASSUME IInv, Expire
  PROVE  IInv'
<1>1. /\ UNCHANGED <<config, stores, gate, closing, migration, job>>
      /\ expired' = TRUE
  BY DEF Expire
<1>2. UNCHANGED <<configured, saved, active, fingerprint, opened, open, holders, waiters>>
  BY <1>1 DEF config, stores, gate
<1> QED
  BY <1>1, <1>2
  DEF IInv, TypeOK, GateInv, JobsInv, StoreInv, MigrationKeepsTarget, NoLostConnection,
      ShutdownInv, At

\* stopStoreMigrationForClose: from here on the store is marked as closing.
LEMMA StopMigrationStep ==
  ASSUME IInv, StopMigration
  PROVE  IInv'
<1>1. /\ job[Main].at = "stopping" /\ job[Main].op \in {"stop", "close"} /\ Main \in Callers
      /\ job \in [Callers -> Jobs] /\ job[Main] \in Jobs /\ opened # <<>>
      /\ Proper(Main, job[Main], active, open)
  BY MainCaller, BusyOpened DEF StopMigration, IInv, TypeOK, JobsInv, Proper, Idle
<1>2. /\ closing' = TRUE /\ configured' \in Targets /\ closing' \in BOOLEAN
      /\ UNCHANGED <<saved, stores, gate, expired>>
  BY DEF StopMigration, config, IInv, TypeOK
<1>3. PICK r \in Jobs :
        /\ job' = [job EXCEPT ![Main] = r]
        /\ \/ migration.at = "idle" /\ r.at = "asking" /\ r.op \in {"flush", "close"}
              /\ migration' = migration
           \/ migration.at # "idle" /\ r.at = "awaiting" /\ r.op = job[Main].op
              /\ migration' = [migration EXCEPT !.canceled = TRUE]
  <2>1. CASE migration.at = "idle" /\ job[Main].op = "close"
    <3> DEFINE r == [job[Main] EXCEPT !.at = "asking"]
    <3>1. r \in Jobs /\ r.op = "close" /\ r.at = "asking"
      BY <1>1, <2>1 DEF Jobs, Steps
    <3>2. job' = [job EXCEPT ![Main] = r] /\ migration' = migration
      BY <1>1, <2>1 DEF StopMigration, Moved
    <3> QED
      BY <2>1, <3>1, <3>2
  <2>2. CASE migration.at = "idle" /\ job[Main].op = "stop"
    <3> DEFINE r == [op |-> "flush", at |-> "asking", store |-> 0, target |-> NoTarget]
    <3>0. NextCleanup("stop") = r
      BY DEF NextCleanup, Idle
    <3>1. r \in Jobs /\ r.op = "flush" /\ r.at = "asking"
      BY LifecycleAssumption DEF Jobs, Steps, Gated, Shared
    <3>2. job' = [job EXCEPT ![Main] = r] /\ migration' = migration
      BY <1>1, <2>2, <3>0 DEF StopMigration, Returned
    <3> QED
      BY <2>2, <3>1, <3>2
  <2>3. CASE migration.at # "idle"
    <3> DEFINE r == [job[Main] EXCEPT !.at = "awaiting"]
    <3>1. r \in Jobs /\ r.op = job[Main].op /\ r.at = "awaiting"
      BY <1>1 DEF Jobs, Steps
    <3>2. /\ job' = [job EXCEPT ![Main] = r]
          /\ migration' = [migration EXCEPT !.canceled = TRUE]
      BY <1>1, <2>3 DEF StopMigration, Moved
    <3> QED
      BY <2>3, <3>1, <3>2
  <2> QED
    BY <1>1, <2>1, <2>2, <2>3
<1>4. ~Leases(r) /\ ~Leases(job[Main]) /\ Proper(Main, r, active, open)
  BY <1>1, <1>3 DEF Leases, Proper
<1>5. ShutdownInv'
  <2>1. job'[Main] = r
    BY <1>1, <1>3
  <2> QED
    BY <1>1, <1>2, <1>3, <2>1 DEF IInv, ShutdownInv
<1>6. /\ migration' = migration \/ migration' = [migration EXCEPT !.canceled = TRUE]
      /\ job[Main].at \notin {"waiting", "swapped"}
  BY <1>1, <1>3
<1> QED
  BY <1>1, <1>2, <1>3, <1>4, <1>5, <1>6, GoesOn

(***************************************************************************)
(* The steps that open, replace and close stores.                          *)
(***************************************************************************)

\* A store that is opened is new, and it is the served one.
LEMMA OpenedServes ==
  ASSUME TypeOK, NEW target \in Targets, Opened(target)
  PROVE  /\ opened' \in Seq(Targets) /\ Len(opened') <= MaxOpens /\ opened' # <<>>
         /\ active' \in 1 .. Len(opened') /\ active' \notin open /\ active' # active
         /\ open' = open \cup {active'} /\ open' \subseteq 1 .. Len(opened')
         /\ fingerprint' = target /\ opened'[active'] = target
<1>1. /\ opened \in Seq(Targets) /\ Len(opened) < MaxOpens /\ Len(opened) \in Nat
      /\ opened' = Append(opened, target) /\ active' = Len(opened') /\ fingerprint' = target
      /\ open' = open \cup {active'}
      /\ active \in 0 .. Len(opened) /\ open \subseteq 1 .. Len(opened)
  BY DEF TypeOK, Opened
<1>2. /\ opened' \in Seq(Targets) /\ Len(opened') = Len(opened) + 1
      /\ opened'[Len(opened) + 1] = target
  BY <1>1
<1>3. opened' # <<>>
  BY <1>1, <1>2
<1>4. active' = Len(opened) + 1 /\ opened'[active'] = target
  BY <1>1, <1>2
<1>5. active' \in 1 .. Len(opened') /\ active' \notin open /\ active' # active
  BY <1>1, <1>2, <1>4
<1>6. open' \subseteq 1 .. Len(opened') /\ Len(opened') <= MaxOpens
  <2>1. MaxOpens \in Nat
    BY LifecycleAssumption
  <2>2. 1 .. Len(opened) \subseteq 1 .. Len(opened')
    BY <1>1, <1>2
  <2>3. Len(opened') <= MaxOpens
    BY <1>1, <1>2, <2>1
  <2> QED
    BY <1>1, <1>5, <2>2, <2>3
<1> QED
  BY <1>1, <1>2, <1>3, <1>4, <1>5, <1>6

\* The first store is opened before anything else runs.
LEMMA FirstStore ==
  ASSUME IInv, opened = <<>>, NEW target \in Targets, Opened(target),
         configured' \in Targets, saved' \in Targets \cup {NoTarget}, closing' = FALSE,
         UNCHANGED <<gate, expired, migration, job>>
  PROVE  IInv'
<1>1. /\ \A t \in Callers : job'[t] = Idle
      /\ migration' = NoMigration /\ open = {} /\ Main \in Callers
  BY MainCaller DEF IInv, StoreInv, TypeOK
<1>2. TypeOK'
  <2>1. TypeOK
    BY DEF IInv
  <2>2. /\ opened' \in Seq(Targets) /\ Len(opened') <= MaxOpens
        /\ active' \in 0 .. Len(opened') /\ open' \subseteq 1 .. Len(opened')
        /\ fingerprint' \in IF active' = 0 THEN {NoTarget} ELSE Targets
    BY <2>1, OpenedServes
  <2> QED
    BY <2>1, <2>2 DEF TypeOK, gate
<1>3. GateInv'
  BY DEF IInv, GateInv, gate
<1>4. JobsInv'
  <2>1. \A t \in Callers : Proper(t, Idle, active', open')
    BY DEF Proper, Idle, Gated, Shared, Exclusive
  <2> QED
    BY <1>1, <2>1 DEF JobsInv
<1>5. StoreInv' /\ NoLostConnection'
  <2>1. /\ open' = {active'} /\ opened' # <<>> /\ opened'[active'] = fingerprint'
    BY <1>1, OpenedServes DEF IInv
  <2> QED
    BY <2>1 DEF StoreInv, NoLostConnection
<1>6. MigrationKeepsTarget' /\ ShutdownInv'
  BY <1>1 DEF MigrationKeepsTarget, ShutdownInv, NoMigration, Idle
<1> QED
  BY <1>2, <1>3, <1>4, <1>5, <1>6 DEF IInv

LEMMA InitializeStoreStep ==
  ASSUME IInv, InitializeStore
  PROVE  IInv'
<1>1. /\ opened = <<>> /\ configured \in Targets /\ Opened(configured) /\ closing' = FALSE
      /\ configured' \in Targets /\ saved' \in Targets \cup {NoTarget}
      /\ UNCHANGED <<gate, expired, migration, job>>
  BY DEF InitializeStore, IInv, TypeOK, config
<1> QED
  BY <1>1, FirstStore

LEMMA RecoverStoreStep ==
  ASSUME IInv, NEW target \in Targets, NEW outdated, RecoverStore(target, outdated)
  PROVE  IInv'
<1>1. /\ opened = <<>> /\ configured' \in Targets /\ saved' \in Targets \cup {NoTarget}
      /\ UNCHANGED <<gate, expired, migration, job>>
  BY DEF RecoverStore
<1>2. CASE ~outdated
  <2>1. Opened(target) /\ closing' = FALSE
    BY <1>2 DEF RecoverStore
  <2> QED
    BY <1>1, <2>1, FirstStore
<1>3. CASE outdated
  <2>1. UNCHANGED <<active, fingerprint, opened, open, holders, waiters, closing>>
    BY <1>1, <1>3 DEF RecoverStore, stores, gate
  <2> QED
    BY <1>1, <2>1
    DEF IInv, TypeOK, GateInv, JobsInv, StoreInv, MigrationKeepsTarget, NoLostConnection,
        ShutdownInv, At
<1> QED
  BY <1>2, <1>3

\* A reload holds the only lease when it puts the new store in place.
LEMMA ReloadSwapsStep ==
  ASSUME IInv, NEW t \in Callers, ReloadSwaps(t)
  PROVE  IInv'
<1> DEFINE r == [job[t] EXCEPT !.at = "swapped", !.store = active]
<1>1. /\ job[t].op = "reload" /\ job[t].at = "opening" /\ t # Main /\ opened # <<>>
      /\ job \in [Callers -> Jobs] /\ job[t] \in Jobs /\ Main \in Callers
      /\ UNCHANGED <<config, gate, flags, migration>> /\ job' = [job EXCEPT ![t] = r]
      /\ active \in 0 .. MaxOpens
  <2>1. /\ job[t].op = "reload" /\ job[t].at = "opening" /\ t # Main /\ Main \in Callers
        /\ job \in [Callers -> Jobs] /\ job[t] \in Jobs /\ opened # <<>>
    BY BusyOpened, MainCaller DEF ReloadSwaps, At, IInv, TypeOK, JobsInv, Proper, Idle
  <2>2. UNCHANGED <<config, gate, flags, migration>> /\ job' = [job EXCEPT ![t] = r]
    BY <2>1 DEF ReloadSwaps
  <2>3. active \in 0 .. MaxOpens
    BY LifecycleAssumption DEF IInv, TypeOK
  <2> QED
    BY <2>1, <2>2, <2>3
<1>2. Leases(job[t]) /\ Excludes(t)
  BY <1>1 DEF Leases, Excludes, Gated, Exclusive
<1>3. PICK target \in Targets : Opened(target)
  <2>1. Opened(job[t].target) /\ job[t].target \in Targets
    BY <1>1 DEF ReloadSwaps, IInv, JobsInv, Proper
  <2> QED
    BY <2>1
<1>4. /\ opened' \in Seq(Targets) /\ Len(opened') <= MaxOpens /\ opened' # <<>>
      /\ active' \in 1 .. Len(opened') /\ active' \notin open /\ active' # active
      /\ open' = open \cup {active'} /\ open' \subseteq 1 .. Len(opened')
      /\ fingerprint' = target /\ opened'[active'] = target
  BY <1>3, OpenedServes DEF IInv
<1>5. r \in Jobs /\ r.op = "reload" /\ r.at = "swapped" /\ r.store = active /\ Leases(r)
  BY <1>1 DEF Jobs, Steps, Leases, Gated, Exclusive
<1> HIDE DEF r
<1>6. /\ holders' \in SUBSET (Callers \cup {Migrator}) /\ waiters' \in Seq(Callers)
      /\ job' \in [Callers -> Jobs] /\ GateOK(holders', waiters', job')
      /\ \A u \in Callers \ {t} : Kept(u, job, job')
      /\ job'[t] = r /\ (Migrator \in holders' <=> Migrator \in holders)
  BY <1>1, <1>2, <1>5, MoveKeeps
<1>7. TypeOK'
  <2>1. /\ active' \in 0 .. Len(opened') /\ fingerprint' \in IF active' = 0 THEN {NoTarget} ELSE Targets
    BY <1>4
  <2> QED
    BY <1>1, <1>4, <1>6, <2>1 DEF IInv, TypeOK, config, flags
<1>8. GateInv'
  BY <1>1, <1>6 DEF IInv, GateInv
<1>9. JobsInv'
  <2>1. \A u \in Callers \ {t} : Proper(u, job'[u], active', open')
    BY <1>2, <1>6, OthersProper
  <2>2. Proper(t, r, active', open')
    BY <1>1, <1>4, <1>5 DEF Proper
  <2> QED
    BY <1>6, <2>1, <2>2 DEF JobsInv
<1>10. StoreInv'
  BY <1>4 DEF StoreInv
<1>11. NoLostConnection'
  <2>1. \A u \in Callers : ~(job[u].op = "reload" /\ job[u].at = "swapped")
    BY <1>1, <1>2, OwnerAlone DEF Leases, Gated, Exclusive
  <2>2. open \subseteq {active}
    BY <2>1 DEF IInv, NoLostConnection, At
  <2> QED
    BY <1>4, <1>5, <1>6, <2>2 DEF NoLostConnection, At
<1>12. MigrationKeepsTarget'
  BY <1>1, <1>2, OwnerAlone DEF MigrationKeepsTarget
<1>13. ShutdownInv'
  BY <1>1 DEF IInv, ShutdownInv, flags
<1> QED
  BY <1>7, <1>8, <1>9, <1>10, <1>11, <1>12, <1>13 DEF IInv

\* The owner of an exclusive lease returns and closes a store with it.
LEMMA ClosingKeeps ==
  ASSUME IInv, NEW t \in Callers, Leases(job[t]), Excludes(t), Leave(t),
         t = Main => job[t].op = "close",
         NEW s \in {job[t].store, active}, open' = open \ {s},
         open \subseteq {s, active'},
         active' \in {0, active}, active' # s,
         fingerprint' = IF active' = 0 THEN NoTarget ELSE fingerprint,
         UNCHANGED <<config, opened, flags, migration>>
  PROVE  IInv'
<1>1. /\ Moves(t)
      /\ job'[t] = IF t = Main THEN NextCleanup(job[t].op) ELSE Idle
      /\ Migrator \in holders' <=> Migrator \in holders
  BY LeaveKeeps DEF Moves, IInv, GateInv
<1>2. opened # <<>> /\ Main \in Callers
  BY BusyOpened, MainCaller DEF Idle, Leases, Gated, Shared, Exclusive
<1>3. TypeOK'
  <2>1. active' \in 0 .. Len(opened) /\ open' \subseteq 1 .. Len(opened)
        /\ fingerprint' \in IF active' = 0 THEN {NoTarget} ELSE Targets
    BY DEF IInv, TypeOK
  <2> QED
    BY <1>1, <2>1 DEF IInv, TypeOK, Moves, config, flags
<1>4. GateInv'
  BY <1>1 DEF IInv, GateInv, Moves
<1>5. JobsInv'
  <2>1. \A u \in Callers \ {t} : Proper(u, job'[u], active', open')
    BY <1>1, OthersProper DEF Moves
  <2>2. Proper(t, job'[t], active', open')
    BY <1>1 DEF Proper, Idle, NextCleanup
  <2> QED
    BY <2>1, <2>2 DEF JobsInv
<1>6. StoreInv'
  BY <1>2 DEF IInv, StoreInv
<1>7. NoLostConnection'
  BY DEF NoLostConnection
<1>8. MigrationKeepsTarget'
  BY OwnerAlone DEF MigrationKeepsTarget
<1>9. ShutdownInv'
  <2>1. CASE t = Main
    BY <1>1, <2>1 DEF IInv, ShutdownInv, flags, NextCleanup, Idle
  <2>2. CASE t # Main
    <3>1. Kept(Main, job, job') /\ job[Main] \in Jobs
      BY <1>1, <1>2, <2>2 DEF Moves, IInv, TypeOK
    <3>2. job'[Main].op = job[Main].op /\ (job'[Main].at = "awaiting" => job[Main].at = "awaiting")
      BY <3>1 DEF Kept, Jobs
    <3> QED
      BY <3>2 DEF IInv, ShutdownInv, flags
  <2> QED
    BY <2>1, <2>2
<1> QED
  BY <1>3, <1>4, <1>5, <1>6, <1>7, <1>8, <1>9 DEF IInv

LEMMA ReloadClosesOldStep ==
  ASSUME IInv, NEW t \in Callers, ReloadClosesOld(t)
  PROVE  IInv'
<1>1. /\ job[t].op = "reload" /\ job[t].at = "swapped" /\ t # Main /\ Leave(t)
      /\ open' = open \ {job[t].store} /\ job[t].store # active
      /\ UNCHANGED <<config, active, fingerprint, opened, flags, migration>>
  BY DEF ReloadClosesOld, At, IInv, JobsInv, Proper
<1>2. Leases(job[t]) /\ Excludes(t)
  BY <1>1 DEF Leases, Excludes, Gated, Exclusive
<1>3. open \subseteq {job[t].store, active}
  <2>1. \A u \in Callers \ {t} : ~(job[u].op = "reload" /\ job[u].at = "swapped")
    BY <1>2, OwnerAlone DEF Leases, Gated, Exclusive
  <2> QED
    BY <2>1 DEF IInv, NoLostConnection, At
<1>4. fingerprint' = IF active' = 0 THEN NoTarget ELSE fingerprint
  BY <1>1 DEF IInv, TypeOK
<1> QED
  BY <1>1, <1>2, <1>3, <1>4, ClosingKeeps

LEMMA CloseStoreStep ==
  ASSUME IInv, CloseStore
  PROVE  IInv'
<1>1. /\ job[Main].op = "close" /\ job[Main].at = "granted" /\ Leave(Main) /\ Main \in Callers
      /\ active' = 0 /\ fingerprint' = NoTarget /\ open' = open \ {active}
      /\ UNCHANGED <<config, opened, flags, migration>>
  BY MainCaller DEF CloseStore, At
<1>2. Leases(job[Main]) /\ Excludes(Main)
  BY <1>1 DEF Leases, Excludes, Gated, Exclusive
<1>3. open \subseteq {active}
  <2>1. \A u \in Callers : ~(job[u].op = "reload" /\ job[u].at = "swapped")
    BY <1>1, <1>2, OwnerAlone DEF Leases, Gated, Exclusive
  <2> QED
    BY <2>1 DEF IInv, NoLostConnection, At
<1>4. CASE active # 0
  BY <1>1, <1>2, <1>3, <1>4, ClosingKeeps
<1>5. CASE active = 0
  <2>1. open = {} /\ open' = {} /\ fingerprint = NoTarget
    BY <1>1, <1>3, <1>5 DEF IInv, TypeOK
  <2>2. Leave(Main) /\ UNCHANGED <<config, stores, expired, migration>> /\ closing' = closing
    BY <1>1, <1>5, <2>1 DEF stores, flags
  <2> QED
    BY <1>1, <2>2, Leaves
<1> QED
  BY <1>4, <1>5

(***************************************************************************)
(* The steps of the migration's goroutine.                                 *)
(***************************************************************************)
LEMMA EndCopyStep ==
  ASSUME IInv, EndCopy
  PROVE  IInv'
<1>1. /\ migration.at = "copying" /\ migration' = [migration EXCEPT !.at = "ending"]
      /\ saved' \in {migration.target, saved}
      /\ UNCHANGED <<configured, stores, gate, flags, job>>
      /\ migration \in MigrationStates
  BY DEF EndCopy, IInv, TypeOK
<1>2. migration' \in MigrationStates /\ migration'.at = "ending"
  BY <1>1 DEF MigrationStates
<1>3. saved' \in Targets \cup {NoTarget}
  BY <1>1 DEF MigrationStates, IInv, TypeOK
<1>4. TypeOK'
  BY <1>1, <1>2, <1>3 DEF IInv, TypeOK, stores, gate, flags
<1>5. GateInv'
  BY <1>1, <1>2 DEF IInv, GateInv, gate
<1>6. JobsInv' /\ NoLostConnection'
  BY <1>1 DEF IInv, JobsInv, NoLostConnection, stores, At
<1>7. StoreInv' /\ MigrationKeepsTarget' /\ ShutdownInv'
  BY <1>1, <1>2 DEF IInv, StoreInv, MigrationKeepsTarget, ShutdownInv, stores, flags, NoMigration
<1> QED
  BY <1>4, <1>5, <1>6, <1>7 DEF IInv

LEMMA ReleaseMigrationStep ==
  ASSUME IInv, ReleaseMigration
  PROVE  IInv'
<1> DEFINE h == holders \ {Migrator}
<1>1. /\ migration.at = "ending" /\ migration' = [migration EXCEPT !.at = "released"]
      /\ Notify(h, waiters, job) /\ UNCHANGED <<config, stores, flags>>
      /\ migration \in MigrationStates /\ Main \in Callers
      /\ job \in [Callers -> Jobs] /\ waiters \in Seq(Callers)
      /\ h \in SUBSET (Callers \cup {Migrator}) /\ Migrator \notin Callers
  BY MainCaller, LifecycleAssumption DEF ReleaseMigration, IInv, TypeOK, Callers
<1>2. migration' \in MigrationStates /\ migration'.at = "released"
  BY <1>1 DEF MigrationStates
<1>3. GateOK(h, waiters, job)
  BY <1>1 DEF IInv, GateInv, GateOK
<1>4. \A t \in h \cup {waiters[i] : i \in 1 .. Len(waiters)} : Excludes(t) <=> ExcludesIn(job, t)
  BY DEF Excludes, ExcludesIn
<1> HIDE DEF h
<1>5. /\ holders' \in SUBSET (Callers \cup {Migrator}) /\ waiters' \in Seq(Callers)
      /\ job' \in [Callers -> Jobs] /\ GateOK(holders', waiters', job')
      /\ \A t \in Callers : Kept(t, job, job')
      /\ Migrator \in holders' <=> Migrator \in h
  BY <1>1, <1>3, <1>4, NotifyKeeps
<1>6. Migrator \notin holders'
  BY <1>5 DEF h
<1>7. opened # <<>>
  BY <1>1 DEF IInv, StoreInv, NoMigration
<1>8. JobsInv' /\ StoreInv' /\ NoLostConnection'
  <2>1. Proper(Main, job'[Main], active, open)
    BY <1>1, <1>5, KeptProper
  <2>2. job[Main].at = "swapped" => job'[Main] = job[Main]
    BY <1>1, <1>5 DEF Kept
  <2> QED
    BY <1>1, <1>5, <1>7, <2>1, <2>2, SameStores
<1>9. TypeOK'
  BY <1>1, <1>2, <1>5 DEF IInv, TypeOK, config, stores, flags
<1>10. GateInv' /\ MigrationKeepsTarget'
  BY <1>2, <1>5, <1>6 DEF GateInv, MigrationKeepsTarget
<1>11. ShutdownInv'
  <2>1. Kept(Main, job, job') /\ job[Main] \in Jobs
    BY <1>1, <1>5
  <2>2. job'[Main].op = job[Main].op /\ (job'[Main].at = "awaiting" => job[Main].at = "awaiting")
    BY <2>1 DEF Kept, Jobs
  <2> QED
    BY <1>1, <2>2 DEF IInv, ShutdownInv, flags
<1> QED
  BY <1>8, <1>9, <1>10, <1>11 DEF IInv

\* A goroutine that waited for the migration goes on without a lease.
LEMMA AwokenFits ==
  ASSUME IInv, NEW t \in Callers
  PROVE  \/ Awoken(t) = job[t] /\ job[t].at # "awaiting"
         \/ /\ job[t].at = "awaiting" /\ Awoken(t) \in Jobs
            /\ Awoken(t).at \in {"idle", "asking"}
            /\ Proper(t, Awoken(t), active, open)
            /\ t = Main => job[t].op \in {"stop", "close"}
<1>1. job \in [Callers -> Jobs] /\ job[t] \in Jobs /\ Proper(t, job[t], active, open)
  BY DEF IInv, TypeOK, JobsInv
<1>2. CASE job[t].at # "awaiting"
  BY <1>2 DEF Awoken
<1>3. CASE job[t].at = "awaiting" /\ job[t].op = "close"
  <2> DEFINE r == [job[t] EXCEPT !.at = "asking"]
  <2>1. r \in Jobs /\ r.op = "close" /\ r.at = "asking"
    BY <1>1, <1>3 DEF Jobs, Steps
  <2>2. Awoken(t) = r
    BY <1>3 DEF Awoken
  <2> HIDE DEF r
  <2> QED
    BY <1>1, <1>3, <2>1, <2>2 DEF Proper
<1>4. CASE job[t].at = "awaiting" /\ job[t].op = "stop"
  <2> DEFINE r == [op |-> "flush", at |-> "asking", store |-> 0, target |-> NoTarget]
  <2>1. NextCleanup("stop") = r
    BY DEF NextCleanup, Idle
  <2>2. t = Main
    BY <1>1, <1>4 DEF Proper
  <2>3. Awoken(t) = r
    BY <1>1, <1>4, <2>1, <2>2 DEF Awoken, Returned
  <2>4. r \in Jobs /\ r.op = "flush" /\ r.at = "asking"
    BY LifecycleAssumption DEF Jobs, Steps, Gated, Shared
  <2> HIDE DEF r
  <2> QED
    BY <1>4, <2>2, <2>3, <2>4 DEF Proper
<1>5. CASE job[t].at = "awaiting" /\ job[t].op = "cancel"
  <2>1. t # Main
    BY <1>1, <1>5 DEF Proper
  <2>2. Awoken(t) = Idle
    BY <1>1, <1>5, <2>1 DEF Awoken, Returned
  <2>3. Idle \in Jobs /\ Idle.at = "idle" /\ Proper(t, Idle, active, open)
    BY <2>1, LifecycleAssumption DEF Idle, Jobs, Steps, Proper
  <2> QED
    BY <1>5, <2>1, <2>2, <2>3
<1> QED
  BY <1>1, <1>2, <1>3, <1>4, <1>5 DEF Proper

LEMMA ClearMigrationStep ==
  ASSUME IInv, ClearMigration
  PROVE  IInv'
<1>1. /\ migration.at = "released" /\ migration' = NoMigration
      /\ job' = [t \in Callers |-> Awoken(t)]
      /\ UNCHANGED <<config, stores, gate, flags>>
      /\ job \in [Callers -> Jobs] /\ waiters \in Seq(Callers) /\ Main \in Callers
  BY MainCaller DEF ClearMigration, IInv, TypeOK
<1>2. \A t \in Callers :
        \/ job'[t] = job[t] /\ job[t].at # "awaiting"
        \/ /\ job[t].at = "awaiting" /\ job'[t] \in Jobs
           /\ job'[t].at \in {"idle", "asking"}
           /\ Proper(t, job'[t], active, open)
           /\ t = Main => job[t].op \in {"stop", "close"}
  BY <1>1, AwokenFits
<1>3. TypeOK'
  <2>1. job' \in [Callers -> Jobs]
    BY <1>1, <1>2
  <2>2. NoMigration \in MigrationStates
    BY LifecycleAssumption DEF NoMigration, MigrationStates
  <2> QED
    BY <1>1, <2>1, <2>2 DEF IInv, TypeOK, config, stores, gate, flags
<1>4. GateInv'
  <2>1. \A t \in Callers : Leases(job'[t]) <=> Leases(job[t])
    BY <1>2 DEF Leases
  <2>2. \A t \in Callers : Leases(job[t]) => job'[t] = job[t]
    BY <1>2 DEF Leases
  <2>3. \A t, u \in holders : ExcludesIn(job', t) => t = u
    <3>1. \A t \in holders : t = Migrator \/ (t \in Callers /\ job'[t] = job[t])
      BY <2>2 DEF IInv, TypeOK, GateInv, GateOK
    <3> QED
      BY <3>1 DEF IInv, GateInv, GateOK, ExcludesIn
  <2>4. \A i \in 1 .. Len(waiters) : job'[waiters[i]] = job[waiters[i]]
    BY <1>1, <1>2 DEF IInv, GateInv, GateOK
  <2>5. GateOK(holders, waiters, job')
    BY <2>1, <2>3, <2>4 DEF IInv, GateInv, GateOK
  <2>6. Migrator \notin holders /\ migration'.at = "idle"
    BY <1>1 DEF IInv, GateInv, NoMigration
  <2> QED
    BY <1>1, <2>5, <2>6 DEF GateInv, gate
<1>5. JobsInv'
  BY <1>1, <1>2 DEF IInv, JobsInv, stores
<1>6. StoreInv'
  <2>1. opened # <<>>
    BY <1>1 DEF IInv, StoreInv, NoMigration
  <2> QED
    BY <1>1, <2>1 DEF IInv, StoreInv, stores
<1>7. NoLostConnection'
  BY <1>1, <1>2 DEF IInv, NoLostConnection, At, stores
<1>8. MigrationKeepsTarget'
  BY <1>1 DEF MigrationKeepsTarget, NoMigration
<1>9. ShutdownInv'
  BY <1>1, <1>2 DEF IInv, ShutdownInv, NoMigration, flags
<1> QED
  BY <1>3, <1>4, <1>5, <1>6, <1>7, <1>8, <1>9 DEF IInv

(***************************************************************************)
(* The theorems.                                                           *)
(***************************************************************************)
LEMMA InitIInv == Init => IInv
<1> SUFFICES ASSUME Init PROVE IInv
  OBVIOUS
<1>1. /\ active = 0 /\ fingerprint = NoTarget /\ opened = <<>> /\ open = {}
      /\ holders = {} /\ waiters = <<>> /\ closing = FALSE /\ expired = FALSE
      /\ migration = NoMigration /\ job = [t \in Callers |-> Idle] /\ Main \in Callers
      /\ configured \in Targets /\ saved \in Targets \cup {NoTarget}
  BY MainCaller DEF Init
<1>2. Idle \in Jobs /\ Idle.op = "none" /\ Idle.at = "idle"
  BY LifecycleAssumption DEF Idle, Jobs, Steps
<1>3. NoMigration \in MigrationStates /\ NoMigration.at = "idle"
  BY LifecycleAssumption DEF NoMigration, MigrationStates
<1>4. TypeOK
  <2>1. opened \in Seq(Targets) /\ Len(opened) = 0 /\ waiters \in Seq(Callers)
    BY <1>1
  <2>2. job \in [Callers -> Jobs] /\ migration \in MigrationStates
    BY <1>1, <1>2, <1>3
  <2>3. active \in 0 .. Len(opened) /\ open \subseteq 1 .. Len(opened) /\ Len(opened) <= MaxOpens
    BY <1>1, <2>1, LifecycleAssumption
  <2>4. /\ fingerprint \in IF active = 0 THEN {NoTarget} ELSE Targets
        /\ closing \in BOOLEAN /\ expired \in BOOLEAN
        /\ holders \subseteq Callers \cup {Migrator}
    BY <1>1
  <2> QED
    BY <1>1, <2>1, <2>2, <2>3, <2>4 DEF TypeOK
<1>5. GateInv
  BY <1>1, <1>2, <1>3 DEF GateInv, GateOK, Leases
<1>6. JobsInv
  BY <1>1, <1>2 DEF JobsInv, Proper
<1>7. StoreInv /\ MigrationKeepsTarget /\ NoLostConnection /\ ShutdownInv
  BY <1>1, <1>2, <1>3 DEF StoreInv, MigrationKeepsTarget, NoLostConnection, ShutdownInv
<1> QED
  BY <1>4, <1>5, <1>6, <1>7 DEF IInv

LEMMA NextIInv == IInv /\ [Next]_vars => IInv'
<1> SUFFICES ASSUME IInv, [Next]_vars PROVE IInv'
  OBVIOUS
<1>1. CASE InitializeStore
  BY <1>1, InitializeStoreStep
<1>2. ASSUME NEW target \in Targets, NEW outdated \in BOOLEAN, RecoverStore(target, outdated)
      PROVE  IInv'
  BY <1>2, RecoverStoreStep
<1>3. ASSUME NEW t \in Clients, NEW op \in Offered, Call(t, op)
      PROVE  IInv'
  BY <1>3, CallStep
<1>4. ASSUME NEW t \in Clients, NEW target \in Targets, EditSettings(t, target)
      PROVE  IInv'
  BY <1>4, EditSettingsStep
<1>5. ASSUME NEW t \in Clients, NEW source, RequestMigration(t, source)
      PROVE  IInv'
  BY <1>5, RequestMigrationStep
<1>6. CASE BeginShutdown \/ Expire
  BY <1>6, BeginShutdownStep, ExpireStep
<1>7. CASE Cleanup
  BY <1>7, StopMigrationStep, CloseStoreStep, GiveUpStep, MainCaller DEF Cleanup
<1>8. CASE Migrate
  BY <1>8, EndCopyStep, ReleaseMigrationStep, ClearMigrationStep DEF Migrate
<1>9. ASSUME NEW t \in Callers, Step(t)
      PROVE  IInv'
  BY <1>9, AcquireStep, ReadStoreStep, GetStoreStep, FinishStep, ReloadReadsStep,
     ReloadFailsStep, ReloadSwapsStep, ReloadClosesOldStep, TryAcquireStep,
     StartMigrationStep, CancelMigrationStep DEF Step
<1>10. ASSUME NEW t \in Clients, GiveUp(t)
       PROVE  IInv'
  BY <1>10, GiveUpStep, MainCaller
<1>11. CASE UNCHANGED vars
  <2>1. UNCHANGED <<configured, saved, active, fingerprint, opened, open, holders, waiters,
                    closing, expired, migration, job>>
    BY <1>11 DEF vars, config, stores, gate, flags
  <2> QED
    BY <2>1
    DEF IInv, TypeOK, GateInv, JobsInv, StoreInv, MigrationKeepsTarget, NoLostConnection,
        ShutdownInv, At
<1> QED
  BY <1>1, <1>2, <1>3, <1>4, <1>5, <1>6, <1>7, <1>8, <1>9, <1>10, <1>11 DEF Next

LEMMA Invariance == Spec => []IInv
BY InitIInv, NextIInv, PTL DEF Spec

\* TypeOK holds for any goroutines, databases and number of reloads.
THEOREM TypeCorrect == Spec => []TypeOK
<1>1. IInv => TypeOK
  BY DEF IInv
<1> QED
  BY <1>1, Invariance, PTL

\* The gate keeps its promise to lease holders (operation_gate.go:9-11): the
\* store they read from the variable stays the served one, and open.
THEOREM LeaseKeepsStoreSafe == Spec => []LeaseKeepsStore
<1>1. IInv => LeaseKeepsStore
  BY DEF IInv, JobsInv, Proper, StoreInv, LeaseKeepsStore
<1> QED
  BY <1>1, Invariance, PTL

\* A copy always goes to the served store, of the target the migration was
\* started for (store_migration.go:126-128), until it releases its lease.
THEOREM MigrationKeepsTargetSafe == Spec => []MigrationKeepsTarget
<1>1. IInv => MigrationKeepsTarget
  BY DEF IInv
<1> QED
  BY <1>1, Invariance, PTL

\* The FIFO semaphore never lets a reload, a close, a statement or a migration
\* in beside another lease (operation_gate.go:11), hand-over to the migration's
\* goroutine included.
THEOREM ExclusiveAloneSafe == Spec => []ExclusiveAlone
<1>1. IInv => ExclusiveAlone
  <2> SUFFICES ASSUME IInv, NEW t \in holders, NEW u \in holders, Excludes(t)
               PROVE  t = u
    BY DEF ExclusiveAlone, Compatible
  <2>1. ExcludesIn(job, t)
    BY DEF Excludes, ExcludesIn
  <2> QED
    BY <2>1 DEF IInv, GateInv, GateOK
<1> QED
  BY <1>1, Invariance, PTL

\* Once the first cleanup returned in time, no migration runs and none starts
\* (store_migration.go:271-272, metric_store.go:86-87).
THEOREM QuietShutdownSafe == Spec => []QuietShutdown
<1>1. IInv => QuietShutdown
  BY DEF IInv, ShutdownInv, QuietShutdown
<1> QED
  BY <1>1, Invariance, PTL

\* No reload, failed open or close forgets a connection pool (store.go:249-253).
THEOREM NoLostConnectionSafe == Spec => []NoLostConnection
<1>1. IInv => NoLostConnection
  BY DEF IInv
<1> QED
  BY <1>1, Invariance, PTL

\* A migration is recorded only for the store it filled, and a recovered target
\* only for the store that is served then (store_migration.go:199-202).
THEOREM RecordsServedTargetSafe == Spec => RecordsServedTarget
<1> DEFINE Records == saved' # saved => saved' = IF active' = 0 THEN configured' ELSE fingerprint'
<1>1. IInv /\ [Next]_vars => Records
  <2> SUFFICES ASSUME IInv, [Next]_vars, saved' # saved PROVE Records
    OBVIOUS
  <2>1. EndCopy \/ \E target \in Targets, outdated \in BOOLEAN : RecoverStore(target, outdated)
    BY DEF Next, vars, config, InitializeStore, Call, EditSettings, RequestMigration,
       BeginShutdown, Expire, Cleanup, StopMigration, CloseStore, GiveUp, Migrate,
       ReleaseMigration, ClearMigration, Step, Acquire, ReadStore, GetStore, Finish,
       ReloadReads, ReloadFails, ReloadSwaps, ReloadClosesOld, TryAcquire,
       StartMigration, CancelMigration
  <2>2. CASE EndCopy
    <3>1. saved' = migration.target /\ migration.at = "copying" /\ UNCHANGED <<active, fingerprint>>
      BY <2>2 DEF EndCopy, stores
    <3>2. migration.target = fingerprint /\ active # 0
      BY <3>1 DEF IInv, MigrationKeepsTarget, TypeOK
    <3> QED
      BY <3>1, <3>2
  <2>3. ASSUME NEW target \in Targets, NEW outdated \in BOOLEAN, RecoverStore(target, outdated)
        PROVE  Records
    <3>1. /\ saved' = target /\ configured' = target /\ opened = <<>>
          /\ IF outdated THEN active' = active ELSE Opened(target)
      BY <2>3 DEF RecoverStore, stores
    <3>2. active = 0
      BY <3>1 DEF IInv, TypeOK
    <3>3. ~outdated => fingerprint' = target
      BY <3>1 DEF Opened
    <3> QED
      BY <2>3, <3>1, <3>2, <3>3 DEF RecoverStore, Opened
  <2> QED
    BY <2>1, <2>2, <2>3
<1> QED
  BY <1>1, Invariance, PTL DEF Spec, RecordsServedTarget

(***************************************************************************)
(* A closed store stays closed.                                            *)
(***************************************************************************)

\* While a close is under way, and after it, no reload may start.
ClosedInv ==
  /\ job[Main].op = "close" /\ job[Main].at # "stopping" => closing
  /\ opened # <<>> /\ active = 0 =>
       /\ closing /\ job[Main].op = "down"
       /\ \A t \in Callers : job[t].at # "opening"

\* The ways in which a step of a goroutine can leave ClosedInv alone.
LEMMA ClosedKeeps ==
  ASSUME ClosedInv, UNCHANGED <<opened, active, closing>>,
         \A t \in Callers : job'[t].at = "opening" => job[t].at = "opening" \/ ~closing,
         job'[Main].op = "close" /\ job'[Main].at # "stopping"
           => job[Main].op = "close" /\ job[Main].at # "stopping",
         job[Main].op = "down" => job'[Main].op = "down"
  PROVE  ClosedInv'
BY DEF ClosedInv

\* A call that returns starts no reload, and a close only from its beginning.
LEMMA ClosedLeaves ==
  ASSUME IInv, ClosedInv, NEW t \in Callers, Leave(t), UNCHANGED <<opened, active, closing>>,
         t = Main => job[t].op \in {"stop", "flush", "close"}
  PROVE  ClosedInv'
<1>1. /\ \A u \in Callers \ {t} : Kept(u, job, job')
      /\ job'[t] = IF t = Main THEN NextCleanup(job[t].op) ELSE Idle
      /\ job \in [Callers -> Jobs] /\ Main \in Callers
  BY LeaveKeeps, MainCaller DEF IInv, GateInv, TypeOK
<1>2. \A u \in Callers \ {t} :
        /\ job'[u].op = job[u].op
        /\ job'[u].at # job[u].at => job[u].at = "waiting" /\ job'[u].at = "granted"
  <2> SUFFICES ASSUME NEW u \in Callers \ {t}
               PROVE  /\ job'[u].op = job[u].op
                      /\ job'[u].at # job[u].at => job[u].at = "waiting" /\ job'[u].at = "granted"
    OBVIOUS
  <2>1. job[u] \in Jobs /\ Kept(u, job, job')
    BY <1>1
  <2>2. [job[u] EXCEPT !.at = "granted"].op = job[u].op /\ [job[u] EXCEPT !.at = "granted"].at = "granted"
    BY <2>1 DEF Jobs
  <2> QED
    BY <2>1, <2>2 DEF Kept
<1>3. job'[t].at \in {"idle", "asking", "stopping"}
      /\ (t = Main => job'[t].op \in {"flush", "close", "down"}
                     /\ (job'[t].op = "close" => job'[t].at = "stopping"))
  BY <1>1 DEF NextCleanup, Idle
<1>4. \A u \in Callers : job'[u].at = "opening" => job[u].at = "opening"
  BY <1>2, <1>3
<1>5. /\ job'[Main].op = "close" /\ job'[Main].at # "stopping"
           => job[Main].op = "close" /\ job[Main].at # "stopping"
      /\ job[Main].op = "down" => job'[Main].op = "down"
  <2>1. CASE t = Main
    BY <1>3, <2>1
  <2>2. CASE t # Main
    BY <1>1, <1>2, <2>2
  <2> QED
    BY <2>1, <2>2
<1> QED
  BY <1>4, <1>5, ClosedKeeps

\* Only a reload opens a store once one was opened.
LEMMA ClosedStep ==
  ASSUME IInv, ClosedInv, NEW t \in Callers, Step(t)
  PROVE  ClosedInv'
<1>1. job \in [Callers -> Jobs] /\ Main \in Callers /\ Proper(t, job[t], active, open)
  BY MainCaller DEF IInv, TypeOK, JobsInv
<1>2. CASE Acquire(t)
  <2>1. \E at \in {"granted", "waiting"} : job' = [job EXCEPT ![t].at = at]
    BY <1>2 DEF Acquire, Moved
  <2>2. \A u \in Callers : job'[u].op = job[u].op
    BY <1>1, <2>1 DEF Jobs
  <2>3. /\ \A u \in Callers \ {t} : job'[u].at = job[u].at
        /\ job'[t].at \in {"granted", "waiting"} /\ job[t].at = "asking"
    BY <1>1, <1>2, <2>1 DEF Jobs, Acquire
  <2> QED
    BY <1>1, <1>2, <2>2, <2>3, ClosedKeeps DEF Acquire, stores, flags
<1>3. CASE Leave(t) /\ UNCHANGED <<opened, active, closing>>
           /\ (ReadStore(t) \/ Finish(t) \/ ReloadReads(t) \/ ReloadFails(t)
                \/ ReloadClosesOld(t) \/ StartMigration(t))
  <2>1. t = Main => job[t].op \in {"stop", "flush", "close"}
    BY <1>1, <1>3 DEF Proper, ReadStore, Finish, ReloadReads, ReloadFails, ReloadClosesOld,
                      StartMigration, At, Gated, Shared, Exclusive
  <2> QED
    BY <1>3, <2>1, ClosedLeaves
<1>4. CASE ReadStore(t) /\ ~Leave(t)
  <2>1. job' = [job EXCEPT ![t].at = "using", ![t].store = active] /\ job[t].op # "close"
    BY <1>4 DEF ReadStore
  <2>2. /\ \A u \in Callers : job'[u].op = job[u].op
        /\ \A u \in Callers \ {t} : job'[u].at = job[u].at
        /\ job'[t].at = "using"
    BY <1>1, <2>1 DEF Jobs
  <2> QED
    BY <1>1, <1>4, <2>1, <2>2, ClosedKeeps DEF ReadStore, stores, flags
<1>5. CASE GetStore(t) \/ TryAcquire(t) \/ CancelMigration(t)
           \/ (StartMigration(t) /\ ~Leave(t))
  <2>1. /\ t # Main /\ UNCHANGED <<opened, active, closing>>
    BY <1>1, <1>5 DEF Proper, GetStore, TryAcquire, CancelMigration, StartMigration, At,
                      stores, flags
  <2>2. \E r : job' = [job EXCEPT ![t] = r] /\ r.at # "opening"
    <3>1. job[t] \in Jobs
      BY <1>1
    <3>2. \A at \in {"granted", "awaiting"} : [job[t] EXCEPT !.at = at].at # "opening"
      BY <3>1 DEF Jobs
    <3>3. [job[t] EXCEPT !.at = "using", !.store = active].at # "opening"
      BY <3>1 DEF Jobs
    <3>4. job' \in {[job EXCEPT ![t] = Idle], [job EXCEPT ![t].at = "granted"],
                    [job EXCEPT ![t].at = "awaiting"],
                    [job EXCEPT ![t].at = "using", ![t].store = active]}
      BY <1>5, <2>1 DEF GetStore, TryAcquire, CancelMigration, StartMigration, Returned, Moved
    <3>5. Idle.at # "opening"
      BY DEF Idle
    <3> QED
      BY <1>1, <3>2, <3>3, <3>4, <3>5
  <2> QED
    BY <1>1, <2>1, <2>2, ClosedKeeps
<1>6. CASE ReloadReads(t) /\ ~Leave(t)
  <2>1. /\ ~closing /\ t # Main /\ UNCHANGED <<opened, active, closing>>
        /\ job' = [job EXCEPT ![t].at = "opening", ![t].target = configured]
    BY <1>1, <1>6 DEF ReloadReads, At, Proper, stores, flags
  <2> QED
    BY <1>1, <2>1, ClosedKeeps
<1>7. CASE ReloadSwaps(t)
  <2>1. t # Main /\ job'[Main] = job[Main] /\ UNCHANGED closing
    BY <1>1, <1>7 DEF ReloadSwaps, At, Proper, flags
  <2>2. active' # 0
    BY <1>7 DEF ReloadSwaps, Opened, IInv, TypeOK
  <2> QED
    BY <2>1, <2>2 DEF ClosedInv
<1> QED
  BY <1>2, <1>3, <1>4, <1>5, <1>6, <1>7
  DEF Step, ReadStore, Finish, ReloadReads, ReloadFails, ReloadClosesOld, StartMigration,
      stores, flags

LEMMA ClosedCleanup ==
  ASSUME IInv, ClosedInv, Cleanup
  PROVE  ClosedInv'
<1>1. job \in [Callers -> Jobs] /\ Main \in Callers /\ Proper(Main, job[Main], active, open)
  BY MainCaller DEF IInv, TypeOK, JobsInv
<1>2. CASE StopMigration
  <2>1. /\ job[Main].at = "stopping" /\ job[Main].op \in {"stop", "close"} /\ opened # <<>>
        /\ closing' /\ UNCHANGED <<opened, active>>
    BY <1>1, <1>2, BusyOpened DEF StopMigration, Proper, Idle, stores
  <2>2. active # 0
    BY <2>1 DEF ClosedInv
  <2> QED
    BY <2>1, <2>2 DEF ClosedInv
<1>3. CASE CloseStore
  <2>1. /\ job[Main].op = "close" /\ job[Main].at = "granted" /\ Leave(Main)
        /\ closing' = closing
    BY <1>3 DEF CloseStore, At, flags
  <2>2. closing
    BY <2>1 DEF ClosedInv
  <2>3. \A u \in Callers \ {Main} : ~Leases(job[u])
    BY <1>1, <2>1, OwnerAlone DEF Leases, Excludes, Gated, Exclusive
  <2>4. /\ \A u \in Callers \ {Main} : Kept(u, job, job') /\ Proper(u, job[u], active, open)
        /\ job'[Main] = NextCleanup(job[Main].op)
    BY <1>1, <2>1, LeaveKeeps DEF IInv, GateInv, JobsInv
  <2>5. \A u \in Callers \ {Main} : job'[u].at # "opening"
    <3>1. \A u \in Callers \ {Main} : job[u].at # "opening"
      BY <2>3, <2>4 DEF Proper, Leases, Gated, Exclusive
    <3> QED
      BY <1>1, <2>4, <3>1 DEF Kept, Jobs
  <2>6. job'[Main].op = "down" /\ job'[Main].at = "idle"
    BY <2>1, <2>4 DEF NextCleanup, Idle
  <2> QED
    BY <2>1, <2>2, <2>5, <2>6 DEF ClosedInv
<1>4. CASE GiveUp(Main)
  <2>1. /\ job[Main].op \in {"stop", "flush", "close"} /\ Leave(Main)
        /\ UNCHANGED <<opened, active>> /\ opened # <<>>
    BY <1>1, <1>4, BusyOpened
    DEF GiveUp, Proper, stores, Idle, Gated, Shared, Exclusive
  <2>2. active # 0
    BY <2>1 DEF ClosedInv
  <2>3. job'[Main] = NextCleanup(job[Main].op)
    BY <1>1, <2>1, LeaveKeeps DEF IInv, GateInv
  <2>4. job'[Main].op = "close" => job'[Main].at = "stopping"
    BY <2>1, <2>3 DEF NextCleanup, Idle
  <2> QED
    BY <2>1, <2>2, <2>4 DEF ClosedInv
<1> QED
  BY <1>2, <1>3, <1>4 DEF Cleanup

LEMMA ClosedMigrate ==
  ASSUME IInv, ClosedInv, Migrate
  PROVE  ClosedInv'
<1>1. job \in [Callers -> Jobs] /\ Main \in Callers /\ Proper(Main, job[Main], active, open)
  BY MainCaller DEF IInv, TypeOK, JobsInv
<1>2. UNCHANGED <<opened, active, closing>>
  BY DEF Migrate, EndCopy, ReleaseMigration, ClearMigration, stores, flags
<1>3. CASE EndCopy
  BY <1>2, <1>3, ClosedKeeps DEF EndCopy
<1>4. CASE ReleaseMigration
  <2>1. \E S : job' = [t \in Callers |-> IF t \in S THEN [job[t] EXCEPT !.at = "granted"] ELSE job[t]]
    BY <1>4 DEF ReleaseMigration, Notify
  <2>2. \A t \in Callers :
          /\ job'[t].op = job[t].op
          /\ job'[t].at = job[t].at \/ job'[t].at = "granted"
    BY <1>1, <2>1 DEF Jobs
  <2>3. job'[Main].at # job[Main].at => job[Main].at = "waiting"
    <3>1. migration.at = "ending" /\ Notify(holders \ {Migrator}, waiters, job)
      BY <1>4 DEF ReleaseMigration
    <3>2. GateOK(holders \ {Migrator}, waiters, job)
      BY LifecycleAssumption DEF IInv, GateInv, GateOK, Callers
    <3>3. /\ holders \ {Migrator} \in SUBSET (Callers \cup {Migrator})
          /\ waiters \in Seq(Callers)
      BY DEF IInv, TypeOK
    <3>4. \A t : Excludes(t) <=> ExcludesIn(job, t)
      BY DEF Excludes, ExcludesIn
    <3>5. Kept(Main, job, job')
      BY <1>1, <3>1, <3>2, <3>3, <3>4, NotifyKeeps
    <3> QED
      BY <3>5 DEF Kept
  <2> QED
    BY <1>1, <1>2, <2>2, <2>3, ClosedKeeps
<1>5. CASE ClearMigration
  <2>1. \A t \in Callers : job'[t] = Awoken(t)
    BY <1>5 DEF ClearMigration
  <2>2. \A t \in Callers : job'[t].at = "opening" => job[t].at = "opening"
    BY <2>1, AwokenFits
  <2>3. CASE job[Main].at # "awaiting"
    BY <1>1, <1>2, <2>1, <2>2, <2>3, ClosedKeeps DEF Awoken
  <2>4. CASE job[Main].at = "awaiting" /\ job[Main].op = "close"
    BY <1>1, <1>2, <2>1, <2>2, <2>4, ClosedKeeps
  <2>5. CASE job[Main].at = "awaiting" /\ job[Main].op = "stop"
    <3>1. job'[Main] = NextCleanup("stop")
      BY <1>1, <2>1, <2>5 DEF Awoken, Returned
    <3>2. job'[Main].op = "flush"
      BY <3>1 DEF NextCleanup, Idle
    <3> QED
      BY <1>2, <2>2, <2>5, <3>2, ClosedKeeps
  <2> QED
    BY <1>1, <2>3, <2>4, <2>5 DEF Proper
<1> QED
  BY <1>3, <1>4, <1>5 DEF Migrate

LEMMA ClosedNext == IInv /\ ClosedInv /\ [Next]_vars => ClosedInv'
<1> SUFFICES ASSUME IInv, ClosedInv, [Next]_vars PROVE ClosedInv'
  OBVIOUS
<1>1. job \in [Callers -> Jobs] /\ Main \in Callers
  BY MainCaller DEF IInv, TypeOK
<1>2. CASE InitializeStore \/ \E target \in Targets, outdated \in BOOLEAN : RecoverStore(target, outdated)
  <2>1. opened = <<>> /\ job[Main] = Idle /\ job' = job
    BY <1>1, <1>2 DEF InitializeStore, RecoverStore, IInv, StoreInv
  <2>2. job'[Main].op = "none"
    BY <2>1 DEF Idle
  <2>3. opened' = <<>> \/ active' # 0
    <3>1. opened' = opened \/ \E target \in Targets : Opened(target)
      BY <1>2 DEF InitializeStore, RecoverStore, stores, IInv, TypeOK
    <3> QED
      BY <2>1, <3>1, OpenedServes DEF IInv
  <2> QED
    BY <2>2, <2>3 DEF ClosedInv
<1>3. ASSUME NEW t \in Clients,
             \/ \E op \in Offered : Call(t, op)
             \/ \E target \in Targets : EditSettings(t, target)
             \/ \E source \in Targets \cup {NoTarget} : RequestMigration(t, source)
      PROVE  ClosedInv'
  <2>1. /\ t \in Callers /\ t # Main /\ UNCHANGED <<opened, active, closing>>
    BY <1>3, MainCaller DEF Call, EditSettings, RequestMigration, stores, flags
  <2>2. /\ job'[Main] = job[Main]
        /\ \A u \in Callers : job'[u].at = job[u].at \/ job'[u].at = "asking"
    BY <1>1, <1>3, <2>1, ZenonT(60) DEF Call, EditSettings, RequestMigration, Jobs
  <2> QED
    BY <1>1, <2>1, <2>2, ClosedKeeps
<1>4. CASE BeginShutdown
  <2>1. /\ UNCHANGED <<opened, active, closing>> /\ job[Main].op = "none"
        /\ job' = [job EXCEPT ![Main].op = "stop", ![Main].at = "stopping"]
    BY <1>4 DEF BeginShutdown, stores, flags, Idle
  <2>2. /\ job'[Main].op = "stop" /\ job'[Main].at = "stopping"
        /\ \A u \in Callers \ {Main} : job'[u] = job[u]
    BY <1>1, <2>1 DEF Jobs
  <2> QED
    BY <1>1, <2>1, <2>2, ClosedKeeps
<1>5. CASE Expire \/ UNCHANGED vars
  BY <1>5, ClosedKeeps DEF Expire, vars, stores, flags
<1>6. ASSUME NEW t \in Clients, GiveUp(t)
      PROVE  ClosedInv'
  <2>1. t \in Callers /\ t # Main /\ Leave(t) /\ UNCHANGED <<opened, active>>
    BY <1>6, MainCaller DEF GiveUp, stores
  <2>2. closing' = closing
    BY <1>6, <2>1 DEF GiveUp, IInv, JobsInv, Proper, TypeOK
  <2> QED
    BY <2>1, <2>2, ClosedLeaves
<1> QED
  BY <1>2, <1>3, <1>4, <1>5, <1>6, ClosedStep, ClosedCleanup, ClosedMigrate DEF Next

\* However long a reload waits for the gate, it does not open a store again that
\* the shutdown closed (store.go:203-210).
THEOREM StaysClosedSafe == Spec => StaysClosed
<1>1. Init => ClosedInv
  BY MainCaller DEF Init, ClosedInv, Idle
<1>2. IInv /\ ClosedInv /\ [Next]_vars
        => (job[Main].op = "down" /\ active = 0 => active' = 0)
  <2> SUFFICES ASSUME IInv, ClosedInv, [Next]_vars, job[Main].op = "down", active = 0, active' # 0
               PROVE  FALSE
    OBVIOUS
  <2>1. opened # <<>>
    BY MainCaller, BusyOpened DEF Idle
  <2>2. PICK t \in Callers : ReloadSwaps(t)
    BY <2>1 DEF Next, vars, stores, InitializeStore, RecoverStore, Call, EditSettings,
       RequestMigration, BeginShutdown, Expire, Cleanup, StopMigration, CloseStore, GiveUp,
       Migrate, EndCopy, ReleaseMigration, ClearMigration, Step, Acquire, ReadStore,
       GetStore, Finish, ReloadReads, ReloadFails, ReloadClosesOld, TryAcquire,
       StartMigration, CancelMigration
  <2> QED
    BY <2>1, <2>2 DEF ClosedInv, ReloadSwaps, At
<1> QED
  BY <1>1, <1>2, Invariance, ClosedNext, PTL DEF Spec, StaysClosed

(***************************************************************************)
(* The lifecycle implements ServedStore: what the gate, the reloads, the    *)
(* migrations and the shutdown do to the store is what that service allows. *)
(***************************************************************************)

\* A goroutine in this state works on a store under a lease.
Works(r) == r.op \in Gated /\ r.at = "using"

NoWork == [store |-> 0, alone |-> FALSE]

\* Who works on what, before a step and after it.
LEMMA WorkFacts ==
  /\ Migrator \notin Callers
  /\ \A t \in Callers :
       /\ WorkOf(t) = IF Works(job[t]) THEN [store |-> job[t].store, alone |-> job[t].op \in Exclusive]
                                       ELSE NoWork
       /\ WorkOf(t)' = IF Works(job'[t]) THEN [store |-> job'[t].store, alone |-> job'[t].op \in Exclusive]
                                         ELSE NoWork
  /\ WorkOf(Migrator) = IF migration.at = "copying" THEN [store |-> migration.store, alone |-> TRUE]
                                                    ELSE NoWork
  /\ WorkOf(Migrator)' = IF migration'.at = "copying" THEN [store |-> migration'.store, alone |-> TRUE]
                                                      ELSE NoWork
<1>1. Migrator \notin Callers
  BY LifecycleAssumption DEF Callers
<1> QED
  BY <1>1 DEF WorkOf, Works, NoWork

\* The goroutine does what it did before, or works on no store before and after.
SameWork(t) == job'[t] = job[t] \/ (~Works(job[t]) /\ ~Works(job'[t]))

\* The migration copies what it copied before, or nothing before and after.
SameCopy == /\ migration'.at = "copying" <=> migration.at = "copying"
            /\ migration.at = "copying" => migration'.store = migration.store

LEMMA WorkStays ==
  ASSUME SameCopy, NEW S \in SUBSET Callers, \A t \in S : SameWork(t)
  PROVE  \A t \in S \cup {Migrator} : WorkOf(t)' = WorkOf(t)
<1>1. \A t \in S : WorkOf(t)' = WorkOf(t)
  BY WorkFacts DEF SameWork
<1>2. WorkOf(Migrator)' = WorkOf(Migrator)
  BY WorkFacts DEF SameCopy
<1> QED
  BY <1>1, <1>2

\* A step like that is none of the service's.
LEMMA Unnoticed ==
  ASSUME UNCHANGED <<opened, active, open, saved>>, SameCopy, \A t \in Callers : SameWork(t)
  PROVE  UNCHANGED Service!service
<1>1. \A t \in Callers \cup {Migrator} : WorkOf(t)' = WorkOf(t)
  BY WorkStays
<1> QED
  BY <1>1 DEF Service!service

\* A step of the service by one user.
LEMMA WorkMoves ==
  ASSUME NEW t \in Callers \cup {Migrator}, NEW w, WorkOf(t)' = w,
         \A u \in (Callers \cup {Migrator}) \ {t} : WorkOf(u)' = WorkOf(u)
  PROVE  [u \in Callers \cup {Migrator} |-> WorkOf(u)]'
           = [[u \in Callers \cup {Migrator} |-> WorkOf(u)] EXCEPT ![t] = w]
OBVIOUS

\* Getting a lease is no work yet.
LEMMA KeptWork ==
  ASSUME TypeOK, NEW u \in Callers, Kept(u, job, job')
  PROVE  SameWork(u)
<1>1. job[u] \in Jobs
  BY DEF TypeOK
<1>2. [job[u] EXCEPT !.at = "granted"].at = "granted"
  BY <1>1 DEF Jobs
<1> QED
  BY <1>2 DEF Kept, SameWork, Works

\* A call that returns works no more, and the others do what they did.
LEMMA LeaveWork ==
  ASSUME IInv, NEW t \in Callers, Leave(t), t = Main => job[t].op \in {"stop", "flush", "close"}
  PROVE  ~Works(job'[t]) /\ \A u \in Callers \ {t} : SameWork(u)
<1>1. /\ \A u \in Callers \ {t} : Kept(u, job, job')
      /\ job'[t] = IF t = Main THEN NextCleanup(job[t].op) ELSE Idle
  BY LeaveKeeps DEF IInv, GateInv
<1>2. ~Works(job'[t])
  BY <1>1 DEF NextCleanup, Idle, Works
<1> QED
  BY <1>1, <1>2, KeptWork DEF IInv

\* A call that goes on without a lease, or before it uses it, is not noticed.
LEMMA MoveWork ==
  ASSUME TypeOK, NEW t \in Callers, NEW r, job' = [job EXCEPT ![t] = r],
         ~Works(job[t]), ~Works(r)
  PROVE  \A u \in Callers : SameWork(u)
BY DEF TypeOK, SameWork

\* Who holds the exclusive lease and does not use it yet finds nobody at work.
LEMMA OwnerQuiet ==
  ASSUME IInv, NEW t \in Callers, Leases(job[t]), Excludes(t), ~Works(job[t])
  PROVE  Service!Quiet
<1>1. /\ \A u \in Callers \ {t} : ~Leases(job[u])
      /\ migration.at # "copying"
  BY OwnerAlone
<1>2. \A u \in Callers : ~Works(job[u])
  BY <1>1 DEF Works, Leases
<1> QED
  BY <1>1, <1>2, WorkFacts DEF Service!Quiet, Service!Rest, NoWork

\* Beside a lease there is no replaced store that waits for its reload.
LEMMA OneOpen ==
  ASSUME IInv, active # 0, \A u \in Callers : ~At(u, "reload", "swapped")
  PROVE  open = {active}
BY DEF IInv, StoreInv, NoLostConnection

\* Where somebody holds a lease, nobody else works alone.
LEMMA NoneAlone ==
  ASSUME IInv, NEW t \in Callers, Leases(job[t]), ~Works(job[t])
  PROVE  /\ \A v \in Callers \cup {Migrator} : ~WorkOf(v).alone
         /\ migration.at # "copying"
         /\ \A u \in Callers : ~At(u, "reload", "swapped") \/ u = t
<1>1. t \in holders /\ t # Migrator
  BY WorkFacts DEF IInv, GateInv, GateOK
<1>2. migration.at # "copying"
  <2>1. SUFFICES ASSUME migration.at = "copying" PROVE FALSE
    OBVIOUS
  <2>2. Migrator \in holders /\ ExcludesIn(job, Migrator)
    BY <2>1 DEF IInv, GateInv, ExcludesIn
  <2> QED
    BY <1>1, <2>2 DEF IInv, GateInv, GateOK
<1>3. \A v \in Callers : Leases(job[v]) /\ job[v].op \in Exclusive => v = t
  <2> SUFFICES ASSUME NEW v \in Callers, Leases(job[v]), job[v].op \in Exclusive, v # t
               PROVE  FALSE
    OBVIOUS
  <2>1. Excludes(v)
    BY DEF Excludes
  <2> QED
    BY <2>1, OwnerAlone
<1>4. \A v \in Callers : Works(job[v]) => job[v].op \notin Exclusive
  BY <1>3 DEF Works, Leases
<1>5. \A v \in Callers : ~WorkOf(v).alone
  <2> SUFFICES ASSUME NEW v \in Callers PROVE ~WorkOf(v).alone
    OBVIOUS
  <2>1. CASE Works(job[v])
    <3>1. WorkOf(v) = [store |-> job[v].store, alone |-> job[v].op \in Exclusive]
      BY <2>1, WorkFacts
    <3>2. WorkOf(v).alone = (job[v].op \in Exclusive)
      BY <3>1
    <3> QED
      BY <1>4, <2>1, <3>2
  <2>2. CASE ~Works(job[v])
    BY <2>2, WorkFacts DEF NoWork
  <2> QED
    BY <2>1, <2>2
<1>6. ~WorkOf(Migrator).alone
  BY <1>2, WorkFacts DEF NoWork
<1>7. \A u \in Callers : ~At(u, "reload", "swapped") \/ u = t
  BY <1>3 DEF At, Leases, Gated, Exclusive
<1> QED
  BY <1>2, <1>5, <1>6, <1>7

(***************************************************************************)
(* The steps of the service.                                               *)
(***************************************************************************)

LEMMA InitServes == Init => Service!Init
<1> SUFFICES ASSUME Init PROVE Service!Init
  OBVIOUS
<1>1. \A t \in Callers : ~Works(job[t])
  BY DEF Init, Idle, Works
<1>2. \A t \in Callers \cup {Migrator} : WorkOf(t) = NoWork
  BY <1>1, WorkFacts DEF Init, NoMigration
<1> QED
  BY <1>2 DEF Init, Service!Init, Service!Rest, NoWork

\* The first store, and a recovery that only records its target.
LEMMA FirstServed ==
  ASSUME IInv, InitializeStore \/ \E target \in Targets, outdated \in BOOLEAN :
                                    RecoverStore(target, outdated)
  PROVE  Service!Next
<1>1. /\ opened = <<>> /\ UNCHANGED <<migration, job>> /\ open = {}
      /\ \A t \in Callers : job[t] = Idle
      /\ migration = NoMigration
  BY DEF InitializeStore, RecoverStore, IInv, StoreInv, TypeOK
<1>2. \A t \in Callers : ~Works(job[t])
  BY <1>1 DEF Idle, Works
<1>3. \A t \in Callers \cup {Migrator} : WorkOf(t) = NoWork /\ WorkOf(t)' = WorkOf(t)
  BY <1>1, <1>2, WorkFacts DEF NoMigration
<1>4. Service!Quiet
  BY <1>3 DEF Service!Quiet, Service!Rest, NoWork
<1>5. ASSUME NEW target \in Targets, Opened(target), saved' = saved \/ saved' = target
      PROVE  Service!Publish
  <2>1. opened' = Append(opened, target) /\ active' = Len(opened') /\ open' = open \cup {active'}
    BY <1>5 DEF Opened
  <2> QED
    BY <1>1, <1>3, <1>4, <1>5, <2>1 DEF Service!Publish
<1>6. CASE InitializeStore
  <2>1. configured \in Targets /\ Opened(configured) /\ saved' = saved
    BY <1>6 DEF InitializeStore, IInv, TypeOK, config
  <2> QED
    BY <1>5, <2>1 DEF Service!Next
<1>7. ASSUME NEW target \in Targets, NEW outdated \in BOOLEAN, RecoverStore(target, outdated)
      PROVE  Service!Next
  <2>1. CASE outdated
    <3>1. saved' = target /\ UNCHANGED <<opened, active, open>>
      BY <1>7, <2>1 DEF RecoverStore, stores
    <3> QED
      BY <1>1, <1>3, <3>1 DEF Service!Choose, Service!Next
  <2>2. CASE ~outdated
    <3>1. saved' = target /\ Opened(target)
      BY <1>7, <2>2 DEF RecoverStore
    <3> QED
      BY <1>5, <3>1 DEF Service!Next
  <2> QED
    BY <2>1, <2>2
<1> QED
  BY <1>6, <1>7

\* Reading the variable under a lease begins work, if there is a store.
LEMMA ReadBegins ==
  ASSUME IInv, NEW t \in Callers, ReadStore(t)
  PROVE  Service!Next \/ UNCHANGED Service!service
<1>1. /\ job[t].op \in Gated \ {"reload", "close"} /\ job[t].at = "granted"
      /\ job[t] \in Jobs /\ job \in [Callers -> Jobs]
      /\ UNCHANGED <<opened, active, open, saved, migration>>
      /\ Proper(t, job[t], active, open)
  BY DEF ReadStore, IInv, TypeOK, JobsInv, stores, config
<1>2. SameCopy /\ ~Works(job[t]) /\ Leases(job[t])
  BY <1>1 DEF SameCopy, Works, Leases
<1>3. CASE active = 0
  <2>1. Leave(t)
    BY <1>3 DEF ReadStore
  <2>2. t = Main => job[t].op \in {"stop", "flush", "close"}
    BY <1>1 DEF Proper, Gated, Shared, Exclusive
  <2>3. \A u \in Callers : SameWork(u)
    BY <1>2, <2>1, <2>2, LeaveWork DEF SameWork
  <2> QED
    BY <1>1, <1>2, <2>3, Unnoticed
<1>4. CASE active # 0
  <2> DEFINE r == [job[t] EXCEPT !.at = "using", !.store = active]
  <2>1. job' = [job EXCEPT ![t] = r]
    BY <1>1, <1>4 DEF ReadStore
  <2>2. r.op = job[t].op /\ r.at = "using" /\ r.store = active
    BY <1>1 DEF Jobs
  <2> HIDE DEF r
  <2>3. job'[t] = r /\ \A u \in Callers \ {t} : SameWork(u)
    BY <1>1, <2>1 DEF SameWork
  <2>4. /\ WorkOf(t)' = [store |-> active, alone |-> job[t].op \in Exclusive]
        /\ WorkOf(t) = NoWork
    BY <1>1, <1>2, <2>2, <2>3, WorkFacts DEF Works
  <2>5. \A u \in (Callers \ {t}) \cup {Migrator} : WorkOf(u)' = WorkOf(u)
    BY <1>2, <2>3, WorkStays
  <2>6. open = {active}
    <3>1. ~At(t, "reload", "swapped")
      BY <1>1 DEF At
    <3> QED
      BY <1>2, <1>4, <3>1, NoneAlone, OneOpen
  <2>7. job[t].op \in Exclusive => Service!Quiet
    BY <1>2, OwnerQuiet DEF Excludes
  <2>8. \A v \in Callers \cup {Migrator} : ~WorkOf(v).alone
    BY <1>2, NoneAlone
  <2>9. Service!Begin(t)
    <3>1. PICK alone \in BOOLEAN : alone = (job[t].op \in Exclusive)
      <4>1. (job[t].op \in Exclusive) \in BOOLEAN
        OBVIOUS
      <4> QED
        BY ONLY <4>1, Zenon
    <3>2. alone => Service!Quiet
      BY <2>7, <3>1
    <3>3. [u \in Callers \cup {Migrator} |-> WorkOf(u)]'
            = [[u \in Callers \cup {Migrator} |-> WorkOf(u)] EXCEPT
                 ![t] = [store |-> active, alone |-> alone]]
      BY <2>4, <2>5, <3>1, WorkMoves
    <3>4. [u \in Callers \cup {Migrator} |-> WorkOf(u)][t] = Service!Rest
      BY <2>4 DEF Service!Rest, NoWork
    <3>5. \A v \in Callers \cup {Migrator} : ~[u \in Callers \cup {Migrator} |-> WorkOf(u)][v].alone
      BY <2>8
    <3> QED
      BY <1>1, <1>4, <2>6, <3>2, <3>3, <3>4, <3>5 DEF Service!Begin
  <2> QED
    BY <2>9 DEF Service!Next
<1> QED
  BY <1>3, <1>4

\* A call that is done with the store ends its work; GetStore's never was a lease's.
LEMMA FinishEnds ==
  ASSUME IInv, NEW t \in Callers, Finish(t)
  PROVE  Service!Next \/ UNCHANGED Service!service
<1>1. /\ job[t].at = "using" /\ Leave(t) /\ Proper(t, job[t], active, open)
      /\ UNCHANGED <<opened, active, open, saved, migration>>
  BY DEF Finish, IInv, JobsInv, stores, config
<1>2. SameCopy
  BY <1>1 DEF SameCopy
<1>3. t = Main => job[t].op \in {"stop", "flush", "close"}
  BY <1>1 DEF Proper, Gated, Shared, Exclusive
<1>4. ~Works(job'[t]) /\ \A u \in Callers \ {t} : SameWork(u)
  BY <1>1, <1>3, LeaveWork
<1>5. CASE job[t].op \notin Gated
  <2>1. \A u \in Callers : SameWork(u)
    BY <1>4, <1>5 DEF SameWork, Works
  <2> QED
    BY <1>1, <1>2, <2>1, Unnoticed
<1>6. CASE job[t].op \in Gated
  <2>1. Works(job[t]) /\ job[t].store = active /\ active \in open
    BY <1>1, <1>6 DEF Works, Proper
  <2>2. active # 0
    BY <2>1 DEF IInv, TypeOK
  <2>3. WorkOf(t)' = NoWork /\ WorkOf(t).store = active
    BY <1>4, <2>1, WorkFacts
  <2>4. \A u \in (Callers \ {t}) \cup {Migrator} : WorkOf(u)' = WorkOf(u)
    BY <1>2, <1>4, WorkStays
  <2>5. Service!End(t)
    <3>1. [u \in Callers \cup {Migrator} |-> WorkOf(u)]'
            = [[u \in Callers \cup {Migrator} |-> WorkOf(u)] EXCEPT ![t] = Service!Rest]
      BY <2>3, <2>4, WorkMoves DEF Service!Rest, NoWork
    <3>2. [u \in Callers \cup {Migrator} |-> WorkOf(u)][t] # Service!Rest
      BY <2>2, <2>3 DEF Service!Rest
    <3> QED
      BY <1>1, <3>1, <3>2 DEF Service!End
  <2> QED
    BY <2>5 DEF Service!Next
<1> QED
  BY <1>5, <1>6

\* A reload puts the next store beside the served one, which nobody uses.
LEMMA SwapPublishes ==
  ASSUME IInv, ClosedInv, NEW t \in Callers, ReloadSwaps(t)
  PROVE  Service!Next
<1> DEFINE r == [job[t] EXCEPT !.at = "swapped", !.store = active]
<1>1. /\ job[t].op = "reload" /\ job[t].at = "opening" /\ job[t] \in Jobs
      /\ job \in [Callers -> Jobs] /\ job' = [job EXCEPT ![t] = r]
      /\ UNCHANGED <<saved, migration>> /\ Opened(job[t].target)
      /\ Proper(t, job[t], active, open)
  BY DEF ReloadSwaps, At, IInv, TypeOK, JobsInv, config
<1>2. r.at = "swapped"
  BY <1>1 DEF Jobs
<1> HIDE DEF r
<1>3. Leases(job[t]) /\ Excludes(t) /\ ~Works(job[t]) /\ ~Works(r) /\ SameCopy
  BY <1>1, <1>2 DEF Leases, Excludes, Works, Gated, Exclusive, SameCopy
<1>4. Service!Quiet
  BY <1>3, OwnerQuiet
<1>5. \A u \in Callers \cup {Migrator} : WorkOf(u)' = WorkOf(u)
  <2>1. \A u \in Callers : SameWork(u)
    BY <1>1, <1>3, MoveWork DEF IInv
  <2> QED
    BY <1>3, <2>1, WorkStays
<1>6. opened # <<>> /\ active # 0
  <2>1. opened # <<>>
    BY <1>1, BusyOpened DEF Idle
  <2> QED
    BY <1>1, <2>1 DEF ClosedInv
<1>7. open = {active}
  <2>1. ~At(t, "reload", "swapped")
    BY <1>1 DEF At
  <2> QED
    BY <1>3, <1>6, <2>1, NoneAlone, OneOpen
<1>8. /\ job[t].target \in Targets /\ opened' = Append(opened, job[t].target)
      /\ active' = Len(opened') /\ open' = open \cup {active'}
  BY <1>1 DEF Opened, Proper
<1>9. Service!Publish
  BY <1>1, <1>4, <1>5, <1>6, <1>7, <1>8 DEF Service!Publish
<1> QED
  BY <1>9 DEF Service!Next

\* It closes the store it replaced.
LEMMA CloseRetires ==
  ASSUME IInv, NEW t \in Callers, ReloadClosesOld(t)
  PROVE  Service!Next \/ UNCHANGED Service!service
<1>1. /\ job[t].op = "reload" /\ job[t].at = "swapped" /\ open' = open \ {job[t].store}
      /\ Leave(t) /\ UNCHANGED <<opened, active, saved, migration>>
      /\ Proper(t, job[t], active, open)
  BY DEF ReloadClosesOld, At, IInv, JobsInv, config
<1>2. Leases(job[t]) /\ Excludes(t) /\ ~Works(job[t]) /\ SameCopy /\ t # Main
  BY <1>1 DEF Leases, Excludes, Works, Gated, Exclusive, SameCopy, Proper
<1>3. Service!Quiet
  BY <1>2, OwnerQuiet
<1>4. \A u \in Callers \cup {Migrator} : WorkOf(u)' = WorkOf(u)
  <2>1. \A u \in Callers : SameWork(u)
    BY <1>1, <1>2, LeaveWork DEF SameWork
  <2> QED
    BY <1>2, <2>1, WorkStays
<1>5. job[t].store # active
  BY <1>1 DEF Proper
<1>6. CASE job[t].store \in open
  <2>1. Service!Retire
    BY <1>1, <1>3, <1>4, <1>5, <1>6 DEF Service!Retire
  <2> QED
    BY <2>1 DEF Service!Next
<1>7. CASE job[t].store \notin open
  <2>1. UNCHANGED open
    BY <1>1, <1>7
  <2> QED
    BY <1>1, <1>4, <2>1 DEF Service!service
<1> QED
  BY <1>6, <1>7

\* The shutdown takes the store away while it holds the gate alone.
LEMMA CloseTakesAway ==
  ASSUME IInv, ClosedInv, CloseStore
  PROVE  Service!Next
<1>1. /\ job[Main].op = "close" /\ job[Main].at = "granted" /\ Leave(Main) /\ Main \in Callers
      /\ active' = 0 /\ open' = open \ {active}
      /\ UNCHANGED <<opened, saved, migration>>
  BY MainCaller DEF CloseStore, At, config
<1>2. Leases(job[Main]) /\ Excludes(Main) /\ ~Works(job[Main]) /\ SameCopy
  BY <1>1 DEF Leases, Excludes, Works, Gated, Exclusive, SameCopy
<1>3. Service!Quiet
  BY <1>1, <1>2, OwnerQuiet
<1>4. \A u \in Callers \cup {Migrator} : WorkOf(u)' = WorkOf(u)
  <2>1. \A u \in Callers : SameWork(u)
    BY <1>1, <1>2, LeaveWork DEF SameWork
  <2> QED
    BY <1>2, <2>1, WorkStays
<1>5. active # 0
  <2>1. opened # <<>>
    BY <1>1, BusyOpened DEF Idle
  <2> QED
    BY <1>1, <2>1 DEF ClosedInv
<1>6. open = {active}
  <2>1. ~At(Main, "reload", "swapped")
    BY <1>1 DEF At
  <2> QED
    BY <1>1, <1>2, <1>5, <2>1, NoneAlone, OneOpen
<1>7. open' = {}
  BY <1>1, <1>6
<1>8. Service!TakeAway
  BY <1>1, <1>3, <1>4, <1>5, <1>6, <1>7 DEF Service!TakeAway
<1> QED
  BY <1>8 DEF Service!Next

\* The lease passes to the migration's goroutine, which begins to copy alone.
LEMMA MigrationBegins ==
  ASSUME IInv, NEW t \in Callers, StartMigration(t)
  PROVE  Service!Next \/ UNCHANGED Service!service
<1>1. /\ job[t].op = "migrate" /\ job[t].at = "granted" /\ t # Main
      /\ job \in [Callers -> Jobs] /\ UNCHANGED <<opened, active, open, saved>>
  BY DEF StartMigration, At, IInv, TypeOK, JobsInv, Proper, stores, config
<1>2. Leases(job[t]) /\ Excludes(t) /\ ~Works(job[t])
  BY <1>1 DEF Leases, Excludes, Works, Gated, Shared, Exclusive
<1>3. CASE ~MayMigrate(job[t].target)
  <2>1. Leave(t) /\ SameCopy
    BY <1>3 DEF StartMigration, SameCopy
  <2>2. \A u \in Callers : SameWork(u)
    BY <1>1, <1>2, <2>1, LeaveWork DEF SameWork
  <2> QED
    BY <1>1, <2>1, <2>2, Unnoticed
<1>4. CASE MayMigrate(job[t].target)
  <2>1. /\ migration'.at = "copying" /\ migration'.store = active
        /\ job' = [job EXCEPT ![t] = Idle] /\ active # 0
    BY <1>1, <1>4 DEF StartMigration, Returned, MayMigrate
  <2>2. \A u \in Callers : SameWork(u)
    BY <1>2, <2>1, MoveWork DEF IInv, Idle, Works
  <2>3. \A u \in Callers : WorkOf(u)' = WorkOf(u)
    BY <2>2, WorkFacts DEF SameWork
  <2>4. WorkOf(Migrator)' = [store |-> active, alone |-> TRUE]
    BY <2>1, WorkFacts
  <2>5. Service!Quiet
    BY <1>2, OwnerQuiet
  <2>6. open = {active}
    <3>1. ~At(t, "reload", "swapped")
      BY <1>1 DEF At
    <3> QED
      BY <1>2, <2>1, <3>1, NoneAlone, OneOpen
  <2>7. \A v \in Callers \cup {Migrator} : ~WorkOf(v).alone
    BY <1>2, NoneAlone
  <2>8. Service!Begin(Migrator)
    <3>1. [u \in Callers \cup {Migrator} |-> WorkOf(u)]'
            = [[u \in Callers \cup {Migrator} |-> WorkOf(u)] EXCEPT
                 ![Migrator] = [store |-> active, alone |-> TRUE]]
      BY <2>3, <2>4, WorkMoves
    <3>2. [u \in Callers \cup {Migrator} |-> WorkOf(u)][Migrator] = Service!Rest
      BY <2>5 DEF Service!Quiet
    <3>3. \A v \in Callers \cup {Migrator} : ~[u \in Callers \cup {Migrator} |-> WorkOf(u)][v].alone
      BY <2>7
    <3> QED
      BY <1>1, <2>1, <2>5, <2>6, <3>1, <3>2, <3>3 DEF Service!Begin
  <2> QED
    BY <2>8 DEF Service!Next
<1> QED
  BY <1>3, <1>4

\* The copy ends, and is recorded if at all as what it was: of the served store.
LEMMA CopyEnds ==
  ASSUME IInv, EndCopy
  PROVE  Service!Next
<1>1. /\ migration.at = "copying" /\ migration'.at = "ending"
      /\ saved' \in {migration.target, saved} /\ UNCHANGED <<opened, active, open, job>>
  BY DEF EndCopy, IInv, TypeOK, MigrationStates, stores
<1>2. migration.store = active /\ migration.target = opened[active] /\ active # 0
  BY <1>1 DEF IInv, MigrationKeepsTarget, TypeOK
<1>3. \A u \in Callers : WorkOf(u)' = WorkOf(u)
  BY <1>1, WorkFacts
<1>4. WorkOf(Migrator) = [store |-> active, alone |-> TRUE] /\ WorkOf(Migrator)' = NoWork
  BY <1>1, <1>2, WorkFacts
<1>5. [u \in Callers \cup {Migrator} |-> WorkOf(u)]'
        = [[u \in Callers \cup {Migrator} |-> WorkOf(u)] EXCEPT ![Migrator] = Service!Rest]
  BY <1>3, <1>4, WorkMoves DEF Service!Rest, NoWork
<1>6. /\ [u \in Callers \cup {Migrator} |-> WorkOf(u)][Migrator] = [store |-> active, alone |-> TRUE]
      /\ [store |-> active, alone |-> TRUE] # Service!Rest
  BY <1>2, <1>4 DEF Service!Rest
<1>7. Service!End(Migrator)
  BY <1>1, <1>2, <1>5, <1>6 DEF Service!End
<1> QED
  BY <1>7 DEF Service!Next

(***************************************************************************)
(* The steps the service does not see.                                     *)
(***************************************************************************)

\* Asking for the gate, waiting, giving up, trying, reading the configuration.
LEMMA QuietStep ==
  ASSUME IInv, NEW t \in Callers,
         \/ Acquire(t) \/ GetStore(t) \/ ReloadReads(t) \/ ReloadFails(t)
         \/ TryAcquire(t) \/ CancelMigration(t) \/ GiveUp(t)
  PROVE  UNCHANGED Service!service
<1>1. /\ job \in [Callers -> Jobs] /\ job[t] \in Jobs /\ Proper(t, job[t], active, open)
      /\ TypeOK
  BY DEF IInv, TypeOK, JobsInv
<1>2. /\ UNCHANGED <<opened, active, open, saved>>
      /\ migration' \in {migration, [migration EXCEPT !.canceled = TRUE]}
  BY DEF Acquire, GetStore, ReloadReads, ReloadFails, TryAcquire, CancelMigration, GiveUp,
         stores, config
<1>3. SameCopy
  BY <1>1, <1>2 DEF SameCopy, TypeOK, MigrationStates
<1>4. ~Works(job[t])
  BY DEF Acquire, GetStore, ReloadReads, ReloadFails, TryAcquire, CancelMigration, GiveUp,
         At, Works
<1>5. \A u \in Callers : SameWork(u)
  <2>1. CASE Leave(t)
    <3>1. t = Main => job[t].op \in {"stop", "flush", "close"}
      BY <1>1 DEF Proper, Acquire, GetStore, ReloadReads, ReloadFails, TryAcquire,
                  CancelMigration, GiveUp, At, Gated, Shared, Exclusive
    <3> QED
      BY <1>4, <2>1, <3>1, LeaveWork DEF SameWork
  <2>2. ASSUME NEW r, job' = [job EXCEPT ![t] = r], ~Works(r)
        PROVE  \A u \in Callers : SameWork(u)
    BY <1>1, <1>4, <2>2, MoveWork
  <2>3. \A at \in {"granted", "waiting", "awaiting"} : ~Works([job[t] EXCEPT !.at = at])
    BY <1>1 DEF Works, Jobs
  <2>4. ~Works(Idle) /\ ~Works([job[t] EXCEPT !.at = "opening", !.target = configured])
    BY <1>1 DEF Works, Idle, Jobs
  <2>5. CASE Acquire(t)
    <3>1. \E at \in {"granted", "waiting"} : job' = [job EXCEPT ![t] = [job[t] EXCEPT !.at = at]]
      BY <2>5 DEF Acquire, Moved
    <3> QED
      BY <2>2, <2>3, <3>1
  <2>6. CASE GetStore(t)
    <3>1. job[t].op = "read" /\ t # Main
      BY <1>1, <2>6 DEF GetStore, At, Proper
    <3>2. ~Works([job[t] EXCEPT !.at = "using", !.store = active])
      BY <1>1, <3>1 DEF Works, Jobs, Gated, Shared, Exclusive
    <3>3. \/ job' = [job EXCEPT ![t] = Idle]
          \/ job' = [job EXCEPT ![t] = [job[t] EXCEPT !.at = "using", !.store = active]]
      BY <1>1, <2>6, <3>1 DEF GetStore, Returned
    <3> QED
      BY <2>2, <2>4, <3>2, <3>3
  <2>7. CASE TryAcquire(t)
    <3>1. t # Main
      BY <1>1, <2>7 DEF TryAcquire, At, Proper
    <3>2. \/ job' = [job EXCEPT ![t] = Idle]
          \/ job' = [job EXCEPT ![t] = [job[t] EXCEPT !.at = "granted"]]
      BY <1>1, <2>7, <3>1 DEF TryAcquire, Returned, Moved
    <3> QED
      BY <2>2, <2>3, <2>4, <3>2
  <2>8. CASE CancelMigration(t)
    <3>1. t # Main
      BY <1>1, <2>8 DEF CancelMigration, At, Proper
    <3>2. \/ job' = [job EXCEPT ![t] = Idle]
          \/ job' = [job EXCEPT ![t] = [job[t] EXCEPT !.at = "awaiting"]]
      BY <1>1, <2>8, <3>1 DEF CancelMigration, Returned, Moved
    <3> QED
      BY <2>2, <2>3, <2>4, <3>2
  <2>9. CASE ReloadReads(t)
    <3>1. \/ Leave(t)
          \/ job' = [job EXCEPT ![t] = [job[t] EXCEPT !.at = "opening", !.target = configured]]
      BY <1>1, <2>9 DEF ReloadReads
    <3> QED
      BY <2>1, <2>2, <2>4, <3>1
  <2>10. CASE ReloadFails(t) \/ GiveUp(t)
    BY <2>1, <2>10 DEF ReloadFails, GiveUp
  <2> QED
    BY <2>5, <2>6, <2>7, <2>8, <2>9, <2>10
<1> QED
  BY <1>2, <1>3, <1>5, Unnoticed

\* New calls, the beginning of a shutdown and its wait for the migration.
LEMMA CallsUnnoticed ==
  ASSUME IInv,
         \/ \E t \in Clients :
              \/ \E op \in Offered : Call(t, op)
              \/ \E target \in Targets : EditSettings(t, target)
              \/ \E source \in Targets \cup {NoTarget} : RequestMigration(t, source)
         \/ BeginShutdown \/ Expire \/ StopMigration
  PROVE  UNCHANGED Service!service
<1>1. /\ job \in [Callers -> Jobs] /\ TypeOK /\ Main \in Callers
      /\ Proper(Main, job[Main], active, open)
  BY MainCaller DEF IInv, TypeOK, JobsInv
<1>2. /\ UNCHANGED <<opened, active, open, saved>>
      /\ migration' \in {migration, [migration EXCEPT !.canceled = TRUE]}
  BY DEF Call, EditSettings, RequestMigration, BeginShutdown, Expire, StopMigration,
         stores, config
<1>3. SameCopy
  BY <1>1, <1>2 DEF SameCopy, TypeOK, MigrationStates
<1>4. ASSUME NEW t \in Clients,
             \/ \E op \in Offered : Call(t, op)
             \/ \E target \in Targets : EditSettings(t, target)
             \/ \E source \in Targets \cup {NoTarget} : RequestMigration(t, source)
      PROVE  \A u \in Callers : SameWork(u)
  <2>1. t \in Callers /\ job[t] = Idle /\ job[t] \in Jobs
    BY <1>1, <1>4, MainCaller DEF Call, EditSettings, RequestMigration
  <2>2. ASSUME NEW r, job' = [job EXCEPT ![t] = r], ~Works(r)
        PROVE  \A u \in Callers : SameWork(u)
    <3>1. ~Works(job[t])
      BY <2>1 DEF Works, Idle
    <3> QED
      BY <1>1, <2>1, <2>2, <3>1, MoveWork
  <2>3. \A op : /\ ~Works([job[t] EXCEPT !.op = op, !.at = "asking"])
                /\ ~Works([job[t] EXCEPT !.op = op, !.at = "asking", !.target = configured])
    BY <2>1 DEF Works, Jobs
  <2>4. CASE \E op \in Offered : Call(t, op)
    <3>1. \E op : job' = [job EXCEPT ![t] = [job[t] EXCEPT !.op = op, !.at = "asking"]]
      BY <2>4 DEF Call
    <3> QED
      BY <2>2, <2>3, <3>1
  <2>5. CASE \E target \in Targets : EditSettings(t, target)
    <3>1. job' = [job EXCEPT ![t] = [job[t] EXCEPT !.op = "reload", !.at = "asking"]]
      BY <2>5 DEF EditSettings
    <3> QED
      BY <2>2, <2>3, <3>1
  <2>6. CASE \E source \in Targets \cup {NoTarget} : RequestMigration(t, source)
    <3>1. job' = [job EXCEPT ![t] = [job[t] EXCEPT !.op = "migrate", !.at = "asking",
                                                   !.target = configured]]
      BY <2>6 DEF RequestMigration
    <3> QED
      BY <2>2, <2>3, <3>1
  <2> QED
    BY <1>4, <2>4, <2>5, <2>6
<1>5. CASE BeginShutdown
  <2>1. job[Main] = Idle /\ job[Main] \in Jobs
    BY <1>1, <1>5 DEF BeginShutdown
  <2>2. job' = [job EXCEPT ![Main] = [job[Main] EXCEPT !.op = "stop", !.at = "stopping"]]
    BY <1>1, <1>5 DEF BeginShutdown
  <2>3. ~Works([job[Main] EXCEPT !.op = "stop", !.at = "stopping"]) /\ ~Works(job[Main])
    BY <2>1 DEF Works, Jobs, Idle
  <2>4. \A u \in Callers : SameWork(u)
    BY <1>1, <2>2, <2>3, MoveWork
  <2> QED
    BY <1>2, <1>3, <2>4, Unnoticed
<1>6. CASE Expire
  BY <1>2, <1>3, <1>6, Unnoticed DEF Expire, SameWork
<1>7. CASE StopMigration
  <2>1. /\ job[Main].at = "stopping" /\ job[Main] \in Jobs
        /\ job[Main].op \in {"stop", "close"}
    BY <1>1, <1>7 DEF StopMigration, Proper
  <2>2. \/ \E at \in {"asking", "awaiting"} : job' = [job EXCEPT ![Main] = [job[Main] EXCEPT !.at = at]]
        \/ job' = [job EXCEPT ![Main] = NextCleanup(job[Main].op)]
    BY <1>7 DEF StopMigration, Moved, Returned
  <2>3. /\ \A at \in {"asking", "awaiting"} : ~Works([job[Main] EXCEPT !.at = at])
        /\ ~Works(NextCleanup(job[Main].op)) /\ ~Works(job[Main])
    BY <2>1 DEF Works, Jobs, NextCleanup, Idle
  <2>4. \A u \in Callers : SameWork(u)
    BY <1>1, <2>2, <2>3, MoveWork
  <2> QED
    BY <1>2, <1>3, <2>4, Unnoticed
<1> QED
  BY <1>2, <1>3, <1>4, <1>5, <1>6, <1>7, Unnoticed

\* The end of a migration, once it has recorded what it did.
LEMMA EndUnnoticed ==
  ASSUME IInv, ReleaseMigration \/ ClearMigration
  PROVE  UNCHANGED Service!service
<1>1. /\ job \in [Callers -> Jobs] /\ TypeOK /\ UNCHANGED <<opened, active, open, saved>>
  BY DEF IInv, TypeOK, ReleaseMigration, ClearMigration, stores, config
<1>2. SameCopy
  <2>1. migration.at # "copying" /\ migration'.at # "copying"
    BY <1>1 DEF ReleaseMigration, ClearMigration, NoMigration, TypeOK, MigrationStates
  <2> QED
    BY <2>1 DEF SameCopy
<1>3. CASE ReleaseMigration
  <2>1. Notify(holders \ {Migrator}, waiters, job)
    BY <1>3 DEF ReleaseMigration
  <2>2. GateOK(holders \ {Migrator}, waiters, job)
    BY LifecycleAssumption DEF IInv, GateInv, GateOK, Callers
  <2>3. /\ holders \ {Migrator} \in SUBSET (Callers \cup {Migrator})
        /\ waiters \in Seq(Callers)
    BY DEF IInv, TypeOK
  <2>4. \A t : Excludes(t) <=> ExcludesIn(job, t)
    BY DEF Excludes, ExcludesIn
  <2>5. \A u \in Callers : Kept(u, job, job')
    BY <1>1, <2>1, <2>2, <2>3, <2>4, NotifyKeeps
  <2> QED
    BY <1>1, <1>2, <2>5, KeptWork, Unnoticed
<1>4. CASE ClearMigration
  <2>1. \A u \in Callers : job'[u] = Awoken(u)
    BY <1>4 DEF ClearMigration
  <2>2. \A u \in Callers : SameWork(u)
    BY <2>1, AwokenFits DEF SameWork, Works
  <2> QED
    BY <1>1, <1>2, <2>2, Unnoticed
<1> QED
  BY <1>3, <1>4

LEMMA ServiceStep ==
  ASSUME IInv, ClosedInv, [Next]_vars
  PROVE  [Service!Next]_(Service!service)
<1>1. CASE InitializeStore \/ \E target \in Targets, outdated \in BOOLEAN : RecoverStore(target, outdated)
  BY <1>1, FirstServed
<1>2. CASE \/ \E t \in Clients :
              \/ \E op \in Offered : Call(t, op)
              \/ \E target \in Targets : EditSettings(t, target)
              \/ \E source \in Targets \cup {NoTarget} : RequestMigration(t, source)
           \/ BeginShutdown \/ Expire \/ StopMigration
  BY <1>2, CallsUnnoticed
<1>3. CASE CloseStore
  BY <1>3, CloseTakesAway
<1>4. ASSUME NEW t \in Callers, GiveUp(t)
      PROVE  [Service!Next]_(Service!service)
  BY <1>4, QuietStep
<1>5. CASE Migrate
  BY <1>5, CopyEnds, EndUnnoticed DEF Migrate
<1>6. ASSUME NEW t \in Callers, Step(t)
      PROVE  [Service!Next]_(Service!service)
  BY <1>6, QuietStep, ReadBegins, FinishEnds, SwapPublishes, CloseRetires, MigrationBegins
     DEF Step
<1>7. CASE UNCHANGED vars
  <2>1. UNCHANGED <<opened, active, open, saved, migration, job>>
    BY <1>7 DEF vars, stores, config
  <2> QED
    BY <2>1, Unnoticed DEF SameCopy, SameWork
<1> QED
  BY <1>1, <1>2, <1>3, <1>4, <1>5, <1>6, <1>7, MainCaller DEF Next, Cleanup

\* Whatever waits, gives up, fails or is canceled: the lifecycle of the store is a
\* behaviour of the service it promises (operation_gate.go:9-11).
THEOREM ServiceImplemented == Spec => ImplementsService
<1>1. Init => ClosedInv
  BY MainCaller DEF Init, ClosedInv, Idle
<1>2. Spec => []ClosedInv
  BY <1>1, Invariance, ClosedNext, PTL DEF Spec
<1> QED
  BY <1>2, InitServes, ServiceStep, Invariance, PTL DEF Spec, ImplementsService, Service!Spec

=============================================================================
