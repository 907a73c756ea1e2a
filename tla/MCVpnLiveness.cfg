SPECIFICATION FairSpec
CONSTANTS
  MaxStarts = 1
  MaxStops = 2
  MaxInst = 4
PROPERTIES
  StoppingEnds
  StopEndsEngine
  ServiceReleased
  ImplementsFairly
CHECK_DEADLOCK FALSE
