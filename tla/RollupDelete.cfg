SPECIFICATION Spec
CONSTANTS
  A = A
  B = B
  Labels <- MCOneLabel
  TicksPerMinute = 2
  RawMinutes = 1
  GraceMinutes = 1
  Interval <- MCTwoTiers
  MaxNow = 6
  MaxSamples = 1
  MaxBatch = 1
  MaxWait = 0
INVARIANTS DeletedEverywhere
