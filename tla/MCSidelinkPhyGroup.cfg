CONSTANTS
  Device = {1, 2, 3}
  Groups <- MCGroups1
  Optimized = TRUE
  SlotsPerSubframe = 4
  SymbPerSlot = 3
  SymbolPeriod = 2
  Distance = 0
  DataErrorModelEnabled = TRUE
  Peer <- MCPeer
  SfAllocInfo <- MCSfAllocInfo
  Delay <- MCDelay
SPECIFICATION Spec
INVARIANTS
  TypeOK
  NeverFatal
  RadioMatchesEvents
  BeamsFaceEachOther
  OneTransmitterInGroup
