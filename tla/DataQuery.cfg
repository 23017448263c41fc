CONSTANTS
  t1 = t1
  t2 = t2
  Threads <- MCThreads
  PageSeqs <- AnyPages
  MaxExecutes = 3
  MaxPastEnd = 2
SPECIFICATION Spec
INVARIANTS NoThreadOutlivesQuery FetchThreadNeverWaits OneFetchThread CursorReadsARow
PROPERTIES RequestStableWhileRead CloseReturns ImplementsResultSet FetchReturns
