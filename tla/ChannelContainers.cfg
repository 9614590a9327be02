SPECIFICATION ContainersSpec
CONSTANTS
  NofContainers = 4
  Window = 4
  Senders = {0, 1}
  Modulus = 8
  Tick = 1
  Grain = 1
  BufferSkips = {0, 1, 2}
  StartTimes = {0, 6}
  First = 3
  MaxCounter = 28
  MaxLate = 1
  MaxLost = 1
  LateWhenSkipping = FALSE
  StartLoss = FALSE
  StartFirst = TRUE
INVARIANTS OneBufferPerContainer SamplesInPlace
PROPERTIES PersistedInOrder
