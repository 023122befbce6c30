SPECIFICATION Spec
CONSTANTS
  I = I
  J = J
  O = O
  P = P
  R = R
  S = S
  K = K
  L = L
  None = None
  Ids <- MCTwoUploads
  Objects <- MCObjects
  Requests <- MCRequests
  Slots = 1
  Chunks <- MCChunks
  MaxRestarts = 1
  Overwritten <- MCTwoUploads
SYMMETRY StructSymmetry
INVARIANTS CompleteIsUploaded
