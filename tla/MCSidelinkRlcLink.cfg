SPECIFICATION Spec
CONSTANTS
  NumSdu = 3
  SduSize <- MCSduSize
  MaxTxBufferSize = 6
  FirstShares <- MCFirstShares
  MaxLi = 7
  Modulus = 8
  Window = 4
  Starts <- MCStarts
  Overtake = 1
  MaxBurst = 2
  MaxLost = 2
CHECK_DEADLOCK FALSE
INVARIANTS
  TypeOK
  FramingAgrees
PROPERTIES
  EndToEnd
  AcceptedArrive
