SPECIFICATION FairSpec
CONSTANTS
  Tasks = {a}
  NULL = NULL
  AT_SOCKETS_NUM = 1
  SemMod = 3
  Types = {"TCP", "UDP"}
  CallerAbove = TRUE
  MaxLen = 2
  MaxData = 3
  MaxConn = 3
INVARIANTS TypeOK DataMeetsSocket ReceivesInOrder WaiterHasNotice
PROPERTY RecvReturns
CHECK_DEADLOCK FALSE
