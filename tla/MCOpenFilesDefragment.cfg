CONSTANTS
  f = f
  g = g
  a = a
  Nul = Nul
  Meta = Meta
  Letter = {a}
  Name <- MCName
  Text <- MCText
  Host <- MCHost
  Heap <- EmptyHeap
  SectorSize = 2
  LastSector = 6
  Gap = 2
  MaxLength = 5
  MaxChanges = 4
  Sizes = {1, 3}
  Offsets = {0, 2}
SPECIFICATION Spec
PROPERTY
  DefragmentKeepsContent
CHECK_DEADLOCK FALSE
