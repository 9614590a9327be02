SPECIFICATION FairSpec
CONSTANTS
  NofBuffers = 3
  Window = 2
  First = 2
  MaxCounter = 12
  MaxUnsteady = 5
  MaxLate = 2
  BoundaryLoss = FALSE
  Paces = {"steady", "any"}
INVARIANTS SlotHoldsItsBuffer
PROPERTIES StableDuringCorrelation ImplementsPipeline ReceptionContinues
