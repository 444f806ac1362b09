CONSTANTS
  Words = 4
  PerLine = 2
  Sizes <- MCSizes
SPECIFICATION Spec
INVARIANTS
  StartsClean
PROPERTIES
  SramIsTheirs
  BothStart
