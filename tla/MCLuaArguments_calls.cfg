SPECIFICATION Spec
CONSTANTS
  Halves <- SmallNumbers
  IntMax = 3
  MaxLen = 5
  BufferSize = 4
INVARIANTS ArgumentArrives ResultReturns
CHECK_DEADLOCK FALSE
