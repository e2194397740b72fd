SPECIFICATION Spec
CONSTANTS
  Tasks = {gsm}
  NULL = NULL
  Dialogs <- BareDialogs
  Apis = {"exec", "execnull", "wait"}
  Unsolicited = {"data"}
  BufSize = 10
  LineLen = 2
  MayTimeout = TRUE
  CallerAbove = FALSE
  MaxCmd = 5
  MaxUnsol = 0
INVARIANTS RespIsLive NoticeBound
CHECK_DEADLOCK FALSE
