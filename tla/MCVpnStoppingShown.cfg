SPECIFICATION Spec
CONSTANTS
  MaxStarts = 1
  MaxStops = 1
  MaxInst = 4
PROPERTIES
  StoppingUntilShutdown
CHECK_DEADLOCK FALSE
