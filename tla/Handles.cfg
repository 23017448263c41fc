SPECIFICATION Spec
CONSTANTS
  NULL = NULL
  s1 = s1
  s2 = s2
  Envs = {e1}
  Conns = {c1}
  Stmts = {s1, s2}
  Descs = {d1}
  Kinds = {"ARD", "IRD"}
  Columns = {1}
  Buffers = {"buffer1"}
  Targets = {"CHAR", "TYPE_DATE", "UNSUPPORTED"}
  FieldValues <- MCFieldValues
  Copies <- MCCopies
  Fields = {"TYPE", "DATA_PTR"}
  Sizes = {1, 2}
  ColumnCount = 1
  MaxMoves = 3
  MaxCalls <- MCMaxCalls
SYMMETRY MCSymmetry
INVARIANTS
  PointersSound
  DescriptorsTrue
  RecordsTellCalls
PROPERTIES
  FailureChangesNothing
CHECK_DEADLOCK FALSE
