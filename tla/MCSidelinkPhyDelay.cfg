CONSTANTS
  Device = {1, 2}
  Groups <- MCGroupsPair
  Optimized = FALSE
  SlotsPerSubframe = 2
  SymbPerSlot = 3
  SymbolPeriod = 2
  Distance = 1
  DataErrorModelEnabled = TRUE
  Peer <- MCPeer
  SfAllocInfo <- MCSfAllocInfo
  Delay <- MCDelay
SPECIFICATION Spec
INVARIANTS
  NeverFatal
