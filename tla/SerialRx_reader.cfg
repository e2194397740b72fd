SPECIFICATION TalkingSpec
CONSTANTS
  Byte = {b1, b2}
  bufsz = 4
  Burst = 2
  SemMod = 4
INVARIANTS TypeOK FullIsNotEmpty
PROPERTIES ImplementsByteQueue ReaderKeepsUp
