SPECIFICATION Spec
CONSTANTS
  Pieces <- Sent
  Streams <- Both
  MaxPieces = 28
INVARIANTS
  ChunksDoNotShow
CHECK_DEADLOCK FALSE
