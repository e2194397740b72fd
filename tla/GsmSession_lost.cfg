SPECIFICATION FairSpec
CONSTANTS
  MaxTryNum = 5
  ByteMod = 256
  MayLoseLink = TRUE
PROPERTY LossIsNoticed
