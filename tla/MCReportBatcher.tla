-------------------------- MODULE MCReportBatcher --------------------------
(* Instances of ReportBatcher for TLC. *)
EXTENDS ReportBatcher, TLC

CONSTANTS A, B, F, S  \* agents, a flushing and a stopping caller

MCOneAgent  == {A}
MCTwoAgents == {A, B}
MCFlusher   == {F}
MCStopper   == {S}
MCNoCaller  == {}

MCNothing  == {{}}
MCFailure  == SUBSET {"write"}
MCAnything == SUBSET {"restart", "delete"}
                \cup {{"write"}, {"lookup"}, {"delete", "partial"}}

AgentSymmetry == Permutations({A, B})

=============================================================================
