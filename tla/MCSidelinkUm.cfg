SPECIFICATION Spec
CONSTANTS
  NumSdu = 5
  Parts <- MCParts
  MaxTake = 2
  Modulus = 8
  Window = 4
  Starts <- MCStarts
  Overtake = 1
  MaxBurst = 2
  MaxLost = 2
CHECK_DEADLOCK FALSE
INVARIANTS
  TypeOK
  BufferIsCovered
  NoFramingError
PROPERTIES
  DeliversInOrder
  IntactAreDelivered
