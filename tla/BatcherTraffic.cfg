SPECIFICATION Spec
CONSTANTS
  A = A
  B = B
  F = F
  S = S
  Clients <- MCTwoAgents
  MaxTotal = 2
  MaxReset = 1
  Capacity = 2
  PingChunk = 1
  Flushers <- MCNoCaller
  Stoppers <- MCNoCaller
  MaxReports = 3
  MaxPings = 0
  Incidents <- MCAnything
SYMMETRY AgentSymmetry
INVARIANTS TrafficConserved
