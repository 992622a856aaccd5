CONSTANTS
  Lcid = {1, 2, 3}
  Saturated = {1}
  DestRnti <- MCDestRnti
  Rnti = 1
  SlotsPerSubframe = 2
  SfAllocInfo <- MCSfAllocInfo
  SymbPerSlot = 5
  Mcs = {0, 1}
  UseAmc = TRUE
  FixedMcs = 0
  TbSize <- MCTbSize
  ReportSizes = {0, 1, 5}
  Report <- MCReport
  SatReport <- MCSatReport
  PduSize = {1, 2}
  NoBsr = NoBsr
SPECIFICATION Spec
INVARIANTS
  TypeOK
  IteratorValid
  SlotBudget
  PduInItsOwnTb
  NoStrandedPdu
  EveryActiveServed
  GrantsWithinReport
