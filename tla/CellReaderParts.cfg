SPECIFICATION Spec
CONSTANTS
  Cells <- AsciiCells
  WcharSize = 2
  BufferLengths = {3, 4, 6, 8, 12}
  BoundLengths = {4, 6, 12}
INVARIANTS
  PartsInOrder
  BoundShowsRowUntilCut
PROPERTIES
  EndMeansComplete
  LengthIsWhatRemains
CHECK_DEADLOCK FALSE
