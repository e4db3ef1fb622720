\* Eight free sectors: one file of four sectors, which reaches the doubly
\* indirect block, fills the disk; everything else may fail on a full one.
CONSTANTS
  f = f
  g = g
  Name <- MCName
  LastSector = 9
  Direct = 1
  PerTable = 2
  Lengths = {3, 4}
SPECIFICATION Spec
SYMMETRY MCSymmetry
INVARIANTS
  TypeOK
  NoSharedSector
  OwnedAreUsed
  OpenMatchesDisk
  OwnContent
  NothingLost
