SPECIFICATION Spec
CONSTANTS
  C = C
  D = D
  P = P
  Q = Q
  Clients <- MCTwo
  Main = Main
  Migrator = Migrator
  Targets <- MCTargets
  DefaultTarget = P
  NoTarget = NoTarget
  Offered <- MCReaders
  Impatient <- MCNobody
  MaxOpens = 2
INVARIANTS ReadsKeepStore
