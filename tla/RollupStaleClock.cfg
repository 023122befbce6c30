SPECIFICATION Spec
CONSTANTS
  A = A
  B = B
  Labels <- MCOneLabel
  TicksPerMinute = 2
  RawMinutes = 1
  GraceMinutes = 1
  Interval <- MCTwoTiers
  MaxNow = 6
  MaxSamples = 3
  MaxBatch = 1
  MaxWait = 1
PROPERTIES SealedImmutable
