SPECIFICATION Spec
CONSTANTS
  NofBuffers = 4
  Window = 2
  First = 2
  MaxCounter = 16
  MaxLate = 3
  MaxLoss = 3
  EarlierThanFirst = FALSE
  Pace = "ahead"
INVARIANTS CallbackData
