CONSTANTS
  Lcid = {1, 2, 3}
  Saturated = {1}
  DestRnti <- MCDestRnti
  Rnti = 1
  SlotsPerSubframe = 2
  SfAllocInfo <- MCSfAllocInfo
  SymbPerSlot = 3
  Mcs = {0}
  UseAmc = FALSE
  FixedMcs = 0
  TbSize <- MCTbSize
  ReportSizes = {0, 4}
  Report <- MCReport
  SatReport <- MCSatReport
  PduSize = {1}
  NoBsr = NoBsr
SPECIFICATION Spec
PROPERTIES
  HandlerReturns
  ReportLeadsToGrant
