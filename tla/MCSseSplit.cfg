SPECIFICATION Spec
CONSTANTS
  Pieces <- Sent
  Streams <- Both
  MaxPieces = 28
INVARIANT
  CrlfIsNormalized
CHECK_DEADLOCK FALSE
