SPECIFICATION FairSpec
CONSTANTS
  Tasks = {gsm, shell}
  NULL = NULL
  Dialogs <- MixedDialogs
  Apis = {"exec"}
  Unsolicited = {"urc", "long"}
  BufSize = 10
  LineLen = 2
  MayTimeout = FALSE
  CallerAbove = TRUE
  MaxCmd = 3
  MaxUnsol = 1
INVARIANTS NoFault CleanBetweenCalls
PROPERTIES ImplementsChannel CallReturns
CHECK_DEADLOCK FALSE
