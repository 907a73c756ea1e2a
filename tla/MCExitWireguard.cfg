SPECIFICATION FairSpec
CONSTANTS
  Interval = 1
  Timeout = 1
  CoreInterval = 1
PROPERTY
  PolicyOnEveryTransport
CHECK_DEADLOCK FALSE
