SPECIFICATION Spec
CONSTANTS
  A = A
  B = B
  Labels <- MCTwoLabels
  TicksPerMinute = 2
  RawMinutes = 1
  GraceMinutes = 0
  Interval <- MCTwoTiers
  MaxNow = 4
  MaxSamples = 3
  MaxBatch = 1
  MaxWait = 1
SYMMETRY LabelSymmetry
INVARIANTS NoDoubleCount RawWindowComplete MinuteConserved
PROPERTIES ImplementsLedger SealedUnlessOutrun
