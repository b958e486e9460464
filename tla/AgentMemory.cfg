SPECIFICATION Spec
CONSTANTS
  Writers = {w1, w2}
  Passes = {c1, c2}
  Keys = {"k1", "k2"}
  Texts <- MCTexts
  Chunks <- MCChunks
  Near <- MCNear
  Overlap <- MCOverlap
  NoEmbedding = NoEmbedding
  Requests <- MCRequests
  MaxRows = 4
  AgeBound = 1
SYMMETRY WorkSymmetry
INVARIANTS TypeOK OneRow Kept KeptWhole Normalised
PROPERTY CopyStays
CHECK_DEADLOCK FALSE
