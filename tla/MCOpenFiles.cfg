CONSTANTS
  f = f
  g = g
  a = a
  Nul = Nul
  Meta = Meta
  Letter = {a}
  Name <- MCName
  Text <- MCText
  Host <- MCHost
  Heap <- MCHeap
  SectorSize = 2
  LastSector = 6
  Gap = 2
  MaxLength = 5
  MaxChanges = 4
  Sizes = {1, 3}
  Offsets <- MCOffsets
SPECIFICATION Spec
SYMMETRY MCSymmetry
INVARIANTS
  TypeOK
  HandlesLive
  EndsInNul
  PastEndZero
PROPERTIES
  ImplementsFileStore
  RecoverFindsRemoved
  DefragmentCompacts
CHECK_DEADLOCK FALSE
