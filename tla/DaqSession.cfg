SPECIFICATION FairSession
CONSTANTS
  Versions = {"functions", "class"}
  Groups <- UsedTogether
  Options <- Configurations
  MaxBuffers <- Received
  MaxOps = 3
INVARIANTS RunningIsLibrary FirstTwoIgnored QuietlyFiled
PROPERTIES StopsAll
CHECK_DEADLOCK FALSE
