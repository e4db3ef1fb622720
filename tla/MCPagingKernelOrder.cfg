SPECIFICATION Spec
CONSTANTS
  FrameStoreSize = 9
  VarStoreSize = 2
  MaxPid = 2
  Script <- WithRemove
  Var = {x, y}
  Value = {d}
  None = None
INVARIANT
  EveryScriptInOrder
