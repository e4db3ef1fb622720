\* A create that needs an indirect table on a full disk, then a restart.
CONSTANTS
  f = f
  g = g
  Name <- MCName
  LastSector = 9
  Direct = 1
  PerTable = 2
  Lengths = {3}
SPECIFICATION Spec
INVARIANT
  MapSurvives
