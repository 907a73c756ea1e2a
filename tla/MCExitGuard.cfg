SPECIFICATION FairSpec
CONSTANTS
  Interval = 3
  Timeout = 2
  CoreInterval = 2
INVARIANTS
  TypeOK
  FailsClosed
PROPERTIES
  ProbedBeforeBridge
  ListenerAfterPolicy
  PolicyLetsThrough
CHECK_DEADLOCK FALSE
