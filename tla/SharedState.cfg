CONSTANTS
  c1 = c1
  c2 = c2
  c3 = c3
  Nobody = Nobody
  Conns <- MCConns
  Phased = TRUE
  s1 = s1
  s2 = s2
  s3 = s3
  n1 = n1
  n2 = n2
  bad = bad
  NoName = NoName
  Stmts <- MCStmts
  Names <- MCNames
  BadNames <- MCBadNames
SPECIFICATION SharedSpec
SYMMETRY Symmetry
INVARIANTS SdkUpWhileLive SdkOnce SdkDownWhenUnused NoNameLeaks SharedOnlyAfterOverlap
