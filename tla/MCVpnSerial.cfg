SPECIFICATION SerialSpec
CONSTANTS
  MaxStarts = 2
  MaxStops = 0
  MaxInst = 4
INVARIANTS
  IdleMeansDown
PROPERTIES
  StoppingEnds
  ServiceReleased
CHECK_DEADLOCK FALSE
