SPECIFICATION FairAccess
CONSTANTS
  NSamples = 2
  FileSize = 2
  MaxPartitions = 2
  MaxQueries = 1
  Back = 0
  Beyond = 1
  MaxRestarts = 1
INVARIANTS ReadsExactly TimesInside ExclusiveAccess
CHECK_DEADLOCK FALSE
PROPERTIES BufferIsWritten
