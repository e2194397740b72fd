SPECIFICATION FairSpec
CONSTANTS
  Capacity = 5
  SemMod = 3
  Sizes = {2, 5}
INVARIANTS TypeOK OneLineTaken SecondLineWhole
PROPERTY LinesComeThrough
