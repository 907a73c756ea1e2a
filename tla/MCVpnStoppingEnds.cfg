SPECIFICATION FairSpec
CONSTANTS
  MaxStarts = 2
  MaxStops = 0
  MaxInst = 4
PROPERTIES
  StoppingEnds
CHECK_DEADLOCK FALSE
