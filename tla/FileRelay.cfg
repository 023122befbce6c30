SPECIFICATION FairSpec
CONSTANTS
  D = D
  E = E
  Nobody = Nobody
  NoTransfer = NoTransfer
  Leavers <- MCLeaver
  Downloads <- MCDownloads
  Transfers = {1, 2}
  StreamSlots = 1
  Size <- MCSizes
  ChunkSize = 2
  Attempts = 2
  Answers = {"oversize"}
INVARIANTS ResponseIsPrefix SlotsHeldByRequests
PROPERTIES RequestsEnd
CHECK_DEADLOCK FALSE
