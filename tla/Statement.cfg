SPECIFICATION Spec
CONSTANTS
  MaxRows = 3
  Sizes = {1, 2}
  Offsets = {0, 1}
INVARIANTS
  RowsetReported
PROPERTIES
  NoDataOnlyAtEnd
  CloseIsFinal
