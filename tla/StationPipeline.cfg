SPECIFICATION FairSpec
CONSTANTS
  NofBuffers = 3
  Window = 2
  First = 2
  MaxCounter = 14
  MaxLate = 1
  MaxLoss = 3
  EarlierThanFirst = FALSE
  Pace = "full"
INVARIANTS KeepUpInv
PROPERTIES SuccessiveBuffers StableDuringCallback WaitEnds ImplementsPipeline
