SPECIFICATION FairSpec
CHECK_DEADLOCK FALSE
CONSTANTS
  Deadline = 20
  Retry1 = 2
  Retry2 = 4
  Resend = 2
  Gap = 1
  MinPause = 5
  MaxPause = 7
  Stale = 20
  MaxErrors = 2
  SockCap = 2
INVARIANTS
  TypeOK
  HandshakeRetried
  Probed
  SilentLeft
PROPERTIES
  SilentEnds
