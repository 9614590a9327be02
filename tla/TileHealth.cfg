SPECIFICATION FairSpec
CONSTANTS
  Boards <- SomeBoards
  Fpgas = {1}
  Watched <- WatchedRegisters
  Paths <- SomePaths
  Asked <- Filters
  MaxErrors = 1
  MaxCalls = 3
  MaxWaits = 1
INVARIANTS ReportIsOfNow ReportIsConsistent
PROPERTIES CallEnds
CHECK_DEADLOCK FALSE
