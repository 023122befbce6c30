SPECIFICATION FairSpec
CONSTANTS
  P1 = P1
  P2 = P2
  P3 = P3
  P4 = P4
  R1 = R1
  R2 = R2
  M = M
  Points <- MCPoints
  Rollups <- MCRollups
  Orphans <- MCOrphans
  Recent <- MCRecent
  Expired <- MCExpired
  Unrolled <- MCUnrolled
  Metrics <- MCMetrics
  Drivers <- MCDrivers
  BatchSize = 2
  MaxFailures = 3
INVARIANTS HistorySurvives DefinitionsSurvive ServedIsUpgraded
PROPERTIES UpgradeCompletes
CHECK_DEADLOCK FALSE
