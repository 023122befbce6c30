SPECIFICATION Spec
CONSTANTS
  C = C
  D = D
  P = P
  Q = Q
  Clients <- MCTwo
  Main = Main
  Migrator = Migrator
  Targets <- MCTargets
  DefaultTarget = P
  NoTarget = NoTarget
  Offered <- MCLeases
  Impatient <- MCAnybody
  MaxOpens = 3
SYMMETRY ClientSymmetry
INVARIANTS LeaseKeepsStore MigrationKeepsTarget ExclusiveAlone QuietShutdown NoLostConnection
PROPERTIES ImplementsService StaysClosed
