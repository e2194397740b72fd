SPECIFICATION FairSpec
CONSTANTS
  MaxTryNum = 5
  ByteMod = 256
  MayLoseLink = TRUE
INVARIANTS TypeOK ReaderSwitch RightServer ConnectBeforeSubscribe
PROPERTY GetsOnline
