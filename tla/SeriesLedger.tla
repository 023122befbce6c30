---------------------------- MODULE SeriesLedger ----------------------------
(***************************************************************************)
(* What a metric store promises about the minutes of one series, without   *)
(* saying how: a ledger of accepted samples, and for every minute bucket    *)
(* the set of samples a query counts.  Only accepting samples, deleting the *)
(* series and stopping the store change what is shown.  Flushing, failing   *)
(* to flush, forgetting old raw samples and sealing coarse rows do not.     *)
(***************************************************************************)
EXTENDS Integers, Sequences

CONSTANTS Cell,       \* minute buckets: a minute and a label set
          CellOf(_)   \* the bucket of a sample, a record with a field ts

VARIABLES up,     \* the store is running
          log,    \* every sample ever accepted; its index is its id
          base,   \* how many of them the last start of the store found
          cut,    \* how many of them the last deletion covered
          live,   \* the samples neither deleted nor replaced
          shown   \* what each bucket counts

ledger == <<up, log, base, cut, live, shown>>

\* A bucket older than the running store: part of what rebuilds it is gone.
Torn(c) == \E i \in 1..base : CellOf(log[i]) = c

Init ==
  /\ up = TRUE /\ log = <<>> /\ base = 0 /\ cut = 0 /\ live = {}
  /\ shown = [c \in Cell |-> {}]

\* New samples are shown at once.  A whole bucket shows exactly its live
\* samples; a torn one may lose older ones, but gains nothing else.
Accept ==
  LET new    == (Len(log) + 1)..Len(log')
      own(c) == {i \in 1..Len(log') : CellOf(log'[i]) = c}
  IN
  /\ up
  /\ Len(log') > Len(log) /\ SubSeq(log', 1, Len(log)) = log
  /\ new \subseteq live' /\ live' \subseteq live \cup new
  /\ \A j \in live \ live' : \E i \in new : log'[i].ts = log[j].ts
  /\ shown' \in [Cell -> SUBSET (1..Len(log'))]
  /\ \A c \in Cell :
       IF Torn(c) THEN /\ new \cap own(c) \subseteq shown'[c]
                       /\ shown'[c] \subseteq shown[c] \cup (new \cap own(c))
                  ELSE shown'[c] = live' \cap own(c)
  /\ UNCHANGED <<up, base, cut>>

\* Stopping may lose samples that were not stored yet, or leave a row that a
\* replacement was to overwrite; it never revives deleted ones.
GoDown ==
  /\ up /\ up' = FALSE
  /\ shown' \in [Cell -> SUBSET (1..Len(log))]
  /\ \A c \in Cell : \A i \in shown'[c] : i > cut /\ CellOf(log[i]) = c
  /\ UNCHANGED <<log, base, cut, live>>

ComeUp ==
  /\ ~up /\ up' = TRUE
  /\ base' = Len(log)
  /\ UNCHANGED <<log, cut, live, shown>>

Delete ==
  /\ up
  /\ cut' = Len(log) /\ live' = {}
  /\ shown' = [c \in Cell |-> {}]
  /\ UNCHANGED <<up, log, base>>

Next == Accept \/ GoDown \/ ComeUp \/ Delete

Spec == Init /\ [][Next]_ledger

=============================================================================
