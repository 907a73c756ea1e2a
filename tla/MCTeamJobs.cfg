SPECIFICATION FairSpec
CHECK_DEADLOCK FALSE
CONSTANTS
  MaxTaps = 3
  MaxEdits = 1
INVARIANTS
  TypeOK
  HandleAlive
  LeftOnlyLate
  SessionOfTeam
PROPERTIES
  JobsFreed
  BusyEnds
