SPECIFICATION FairSpec
CONSTANTS
  C1 = C1
  C2 = C2
  S1 = S1
  S2 = S2
  None = None
  Conns <- MCConns
  Sessions <- MCOneSession
  MaxRefresh = 1
  MaxToggles = 2
INVARIANTS LatestServed PolledIsShown NoticesAlternate PendingHasWaiter
PROPERTIES LostIsReported
CHECK_DEADLOCK FALSE
