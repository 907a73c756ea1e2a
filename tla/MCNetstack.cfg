SPECIFICATION FairSpec
CHECK_DEADLOCK FALSE
CONSTANTS
  Conn = {c1, c2}
  Steady = {c2}
  RxBuf = 1
  TxBuf = 1
  MaxPending = 1
  AppQueue = 1
  DataCap = 1
  Chunk = 2
INVARIANTS
  TypeOK
  Conserved
  FinAfterRequest
  AnswerWhole
PROPERTIES
  ConnectAnswered
  OrphanFreed
  OrphanUnblocks
