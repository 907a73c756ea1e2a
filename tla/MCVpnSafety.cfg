SPECIFICATION Spec
CONSTANTS
  MaxStarts = 2
  MaxStops = 1
  MaxInst = 4
INVARIANTS
  TypeOK
  FdClosedOnce
  StoppableEngine
  IdleNotConnected
PROPERTIES
  ImplementsSession
CHECK_DEADLOCK FALSE
