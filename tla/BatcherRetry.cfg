SPECIFICATION Spec
CONSTANTS
  A = A
  B = B
  F = F
  S = S
  Clients <- MCOneAgent
  MaxTotal = 2
  MaxReset = 2
  Capacity = 2
  PingChunk = 1
  Flushers <- MCNoCaller
  Stoppers <- MCNoCaller
  MaxReports = 3
  MaxPings = 0
  Incidents <- MCFailure
INVARIANTS TrafficSummable
