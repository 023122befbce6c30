SPECIFICATION Spec
CONSTANTS
  A = A
  B = B
  Labels <- MCOneLabel
  TicksPerMinute = 2
  RawMinutes = 1
  GraceMinutes = 1
  Interval <- MCTwoTiers
  MaxNow = 7
  MaxSamples = 2
  MaxBatch = 1
  MaxWait = 0
PROPERTIES SealMergesStoredRows
