SPECIFICATION Spec
CONSTANTS
  WordBits = 4
  Bits <- MCBits
  WcharSize = 4
  LongSize = 8
  NestedBuffer = 8
  IntMax = 3
  Directories = {}
  Buffers <- MCBuffers
  Whole64 <- MCWhole64
  Instants <- MCInstants
  IntervalSet <- MCIntervals
  Datums <- MCDatums
  BigInts <- MCBigInts
  Divisors <- MCDivisors
  Decimals <- MCDecimals
  Described <- MCDescribed
  Strays <- MCStrays
  Assertions <- MCAssertions
INVARIANTS
  BufferHoldsValue
  ValueSurvives
  ArithmeticExact
  ListsAgree
  AssertionDecoded
