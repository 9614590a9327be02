SPECIFICATION FairSpec
CONSTANTS
  NofTiles = 2
  Delay = 2
  Flagged = {TRUE, FALSE}
  Holding = {TRUE, FALSE}
  Groups <- UsedTogether
INVARIANTS NoneLeftLate WellIsTogether BothOrNone
PROPERTIES CommandEnds
CHECK_DEADLOCK FALSE
