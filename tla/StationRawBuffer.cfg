SPECIFICATION FairSpec
CONSTANTS
  NofBuffers = 4
  Window = 2
  First = 2
  IntMax = 100
  MaxCounter = 16
  MaxLate = 3
  MaxLoss = 2
  EarlierThanFirst = FALSE
  Paces = {"prompt", "any"}
INVARIANTS PacketsInBuffer FreeSlotsEmpty
PROPERTIES StableDuringCallback WaitEnds
CHECK_DEADLOCK FALSE
