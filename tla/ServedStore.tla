---------------------------- MODULE ServedStore ----------------------------
(***************************************************************************)
(* What the life of the metric store promises to those who work on it,      *)
(* without saying how: no gate, no queue, no calls that wait or give up.    *)
(* One store at most is served.  It is replaced or taken away only while    *)
(* nobody is at work, nobody begins until its predecessor is closed, and    *)
(* after it was taken away there is no other.                               *)
(***************************************************************************)
EXTENDS Naturals, Sequences

CONSTANTS Users,    \* who may work on the store
          Targets,  \* the databases a store may be opened on
          NoTarget  \* nothing was recorded yet

VARIABLES opened,   \* the target of every store opened so far
          served,   \* the store that is served, 0 for none
          open,     \* the stores whose connections are open
          work,     \* the store each user works on, and whether alone
          recorded  \* the target whose store has all of the history

service == <<opened, served, open, work, recorded>>

Rest  == [store |-> 0, alone |-> FALSE]
Quiet == \A u \in Users : work[u] = Rest

Init ==
  /\ opened = <<>> /\ served = 0 /\ open = {}
  /\ work = [u \in Users |-> Rest]
  /\ recorded \in Targets \cup {NoTarget}

\* Before the first store is opened, its target may be chosen and recorded.
Choose ==
  /\ opened = <<>>
  /\ recorded' \in Targets
  /\ UNCHANGED <<opened, served, open, work>>

\* The first store, or the next one while the last one is still served.
Publish ==
  /\ Quiet
  /\ \/ opened = <<>> /\ open = {}
     \/ served # 0 /\ open = {served}
  /\ \E target \in Targets :
       /\ opened' = Append(opened, target)
       /\ recorded' = recorded \/ (opened = <<>> /\ recorded' = target)
  /\ served' = Len(opened')
  /\ open' = open \cup {served'}
  /\ UNCHANGED work

\* The store that was replaced is closed.
Retire ==
  /\ Quiet
  /\ \E s \in open : s # served /\ open' = open \ {s}
  /\ UNCHANGED <<opened, served, work, recorded>>

\* Work begins on the store that is served, the only one open.
Begin(u) ==
  /\ served # 0 /\ open = {served}
  /\ work[u] = Rest
  /\ \E alone \in BOOLEAN :
       /\ alone => Quiet
       /\ \A v \in Users : ~work[v].alone
       /\ work' = [work EXCEPT ![u] = [store |-> served, alone |-> alone]]
  /\ UNCHANGED <<opened, served, open, recorded>>

\* Work ends.  Only who worked alone may have copied all of the history, and
\* what is recorded then is the target of the store it went to.
End(u) ==
  /\ work[u] # Rest
  /\ work' = [work EXCEPT ![u] = Rest]
  /\ \/ recorded' = recorded
     \/ work[u].alone /\ recorded' = opened[work[u].store]
  /\ UNCHANGED <<opened, served, open>>

\* The store is taken away, for good.
TakeAway ==
  /\ Quiet
  /\ served # 0 /\ open = {served}
  /\ served' = 0 /\ open' = {}
  /\ UNCHANGED <<opened, work, recorded>>

Next ==
  \/ Choose \/ Publish \/ Retire \/ TakeAway
  \/ \E u \in Users : Begin(u) \/ End(u)

Spec == Init /\ [][Next]_service

=============================================================================
