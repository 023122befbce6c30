-------------------------- MODULE MCAgentPresence --------------------------
(* Instances of AgentPresence for TLC. *)
EXTENDS AgentPresence

CONSTANTS C1, C2, S1, S2  \* connections, polling sessions

MCConns    == {C1, C2}
MCSessions == {S1, S2}
MCOneSession == {S1}

=============================================================================
