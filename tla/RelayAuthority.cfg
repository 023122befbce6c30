SPECIFICATION Spec
CONSTANTS
  D = D
  E = E
  Nobody = Nobody
  NoTransfer = NoTransfer
  Leavers <- MCLeaver
  Downloads <- MCDownloads
  Transfers = {1, 2}
  StreamSlots = 1
  Size <- MCSizes
  ChunkSize = 2
  Attempts = 2
  Answers = {"oversize"}
PROPERTIES BytesAreAuthoritative
CHECK_DEADLOCK FALSE
