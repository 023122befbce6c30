SPECIFICATION FairSpec
CONSTANTS
  A = A
  B = B
  F = F
  S = S
  Clients <- MCOneAgent
  MaxTotal = 0
  MaxReset = 0
  Capacity = 2
  PingChunk = 1
  Flushers <- MCFlusher
  Stoppers <- MCStopper
  MaxReports = 3
  MaxPings = 2
  Incidents <- MCNothing
INVARIANTS AcceptedInOrder FlushCoversEarlier StopLeavesNothing
PROPERTIES StopReturns AcceptedIsWritten
CHECK_DEADLOCK FALSE
