SPECIFICATION Spec
CONSTANTS
  MaxTryNum = 5
  ByteMod = 256
  MayLoseLink = FALSE
INVARIANT ConnectedIsAccepted
