SPECIFICATION Spec
CONSTANTS
  NSamples = 2
  TicksPerSecond = 4
  FileSize = 2
  Usages <- ReceiverUsages
  Gaps = {0, 1}
  MaxTime = 15
INVARIANTS NothingLost StampsOrdered SpanCovers
CHECK_DEADLOCK FALSE
