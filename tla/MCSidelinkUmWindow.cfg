SPECIFICATION Spec
CONSTANTS
  NumSdu = 7
  Parts <- MCParts
  MaxTake = 1
  Modulus = 8
  Window = 4
  Starts <- MCFastWrapStart
  Overtake = 0
  MaxBurst = 3
  MaxLost = 3
CHECK_DEADLOCK FALSE
INVARIANT
  WindowFlushed
