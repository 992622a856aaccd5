SPECIFICATION Spec
CONSTANTS
  Sdu <- MCSdu
  SduSize <- MCSduSize
  FirstShares <- MCFirstShares
  MaxTxBufferSize = 7
  MaxLi = 3
INVARIANTS
  TypeOK
  NoLostWakeup
  StatusTruthful
PROPERTIES
  OnlySmallSharesSilence
  PduFitsOpportunity
  BytesConserved
  RefusalIsFinal
  EverySduLeaves
