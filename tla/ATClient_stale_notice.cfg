SPECIFICATION Spec
CONSTANTS
  Tasks = {gsm}
  NULL = NULL
  Dialogs <- BareDialogs
  Apis = {"exec"}
  Unsolicited = {"urc"}
  BufSize = 10
  LineLen = 2
  MayTimeout = TRUE
  CallerAbove = TRUE
  MaxCmd = 2
  MaxUnsol = 0
INVARIANT SuccessHasOK
CHECK_DEADLOCK FALSE
