------------------------- MODULE MCStoreRestructure -------------------------
(* Instances of StoreRestructure for TLC. *)
EXTENDS StoreRestructure, TLC

CONSTANTS P1, P2, P3, P4, R1, R2, M  \* points, rollups, a metric

MCPoints  == {P1, P2, P3, P4}
MCRollups == {R1, R2}
MCOrphans == {P2}
MCRecent  == {P3}
MCExpired == {P4, R2}
MCUnrolled == {P1}
MCMetrics == {M}
MCDrivers == {"mysql", "transactional"}

=============================================================================
