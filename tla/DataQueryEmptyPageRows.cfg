CONSTANTS
  t1 = t1
  t2 = t2
  Threads <- MCThreads
  PageSeqs <- HoledPages
  MaxExecutes = 1
  MaxPastEnd = 1
SPECIFICATION Spec
INVARIANT NoDataMeansComplete
