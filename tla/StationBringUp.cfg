SPECIFICATION FairBringUp
CONSTANTS
  NofTiles = 2
  BoardSets <- Boards
  Befores <- Earlier
  Configs <- StationConfigs
  DelaySets <- DelaysOfTiles
  Faults = {"lookup", "connect", "download", "jesd", "pps"}
  MaxSlips = 1
INVARIANTS StartTogether FormedIsInitialised SkewIsSmall
PROPERTIES ConnectEnds
CHECK_DEADLOCK FALSE
