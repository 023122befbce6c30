-------------------------- MODULE MCAgentCommands --------------------------
(* Instances of AgentCommands for TLC. *)
EXTENDS AgentCommands, TLC

CONSTANTS F, P, Q, T, W  \* a file operation, two pings, a task, a request

MCFiles == {F}
MCPings == {P, Q}
MCTasks == {T}
MCPolls == {W}

PingSymmetry == Permutations({P, Q})

=============================================================================
