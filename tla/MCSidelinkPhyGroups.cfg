CONSTANTS
  Device = {1, 2, 3, 4}
  Groups <- MCGroups2
  Optimized = FALSE
  SlotsPerSubframe = 3
  SymbPerSlot = 2
  SymbolPeriod = 2
  Distance = 0
  DataErrorModelEnabled = TRUE
  Peer <- MCPeer
  SfAllocInfo <- MCSfAllocInfo
  Delay <- MCDelay
SPECIFICATION Spec
INVARIANTS
  NeverFatal
  NothingLost
PROPERTIES
  EveryBlockReceived
