SPECIFICATION FairSpec
CONSTANTS
  C = C
  D = D
  P = P
  Q = Q
  Clients <- MCTwo
  Main = Main
  Migrator = Migrator
  Targets <- MCTargets
  DefaultTarget = P
  NoTarget = NoTarget
  Offered <- MCBusy
  Impatient <- MCNobody
  MaxOpens = 2
PROPERTIES WaitersServed ShutdownCloses
