--------------------------- MODULE MCMetricRollup ---------------------------
(* Instances of MetricRollup for TLC. *)
EXTENDS MetricRollup, TLC

CONSTANTS A, B  \* label sets

MCOneLabel  == {A}
MCTwoLabels == {A, B}

MCTwoTiers   == <<1, 2>>
MCThreeTiers == <<1, 2, 4>>

LabelSymmetry == Permutations({A, B})

=============================================================================
