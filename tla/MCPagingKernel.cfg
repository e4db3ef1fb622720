SPECIFICATION Spec
CONSTANTS
  FrameStoreSize = 17
  VarStoreSize = 1
  MaxPid = 3
  Script <- AllScripts
  Var = {x, y}
  Value = {d}
  None = None
INVARIANTS
  TypeOK
  MappingCoherent
  LRUExact
  TouchFinds
  NoProcessLost
  ExecutedInOrder
PROPERTIES
  FinishIsClean
  Terminates
