SPECIFICATION FairSpec
CONSTANTS
  A = A
  B = B
  Labels <- MCOneLabel
  TicksPerMinute = 1
  RawMinutes = 1
  GraceMinutes = 0
  Interval <- MCThreeTiers
  MaxNow = 4
  MaxSamples = 2
  MaxBatch = 2
  MaxWait = 2
INVARIANTS DeletedStaysDeleted
PROPERTIES SamplesReachRows ParentsSeal
