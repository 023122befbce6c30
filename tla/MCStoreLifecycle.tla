------------------------- MODULE MCStoreLifecycle -------------------------
(* Instances of StoreLifecycle for TLC. *)
EXTENDS StoreLifecycle, TLC

CONSTANTS C, D,     \* goroutines of requests
          P, Q      \* databases

MCTwo      == {C, D}
MCTargets  == {P, Q}
MCNobody   == {}
MCAnybody  == {C, D, Main}

\* Reads and writes under a shared lease take the same steps, so one of them
\* stands for the others; likewise the exclusive calls.
MCLeases  == {"compact", "exec", "reload", "migrate", "cancel", "read"}
MCBusy    == {"query", "reload", "reclaim", "migrate", "cancel"}
MCReaders == {"read", "reload"}

ClientSymmetry == Permutations({C, D})

=============================================================================
