SPECIFICATION FairSpec
CONSTANTS
  Tasks = {gsm, shell}
  NULL = NULL
  Dialogs <- BareDialogs
  Apis = {"exec", "execnull", "wait"}
  Unsolicited = {"urc"}
  BufSize = 10
  LineLen = 2
  MayTimeout = TRUE
  CallerAbove = FALSE
  MaxCmd = 1
  MaxUnsol = 0
INVARIANTS TypeOK RespUnderLock
PROPERTY CallReturns
CHECK_DEADLOCK FALSE
