SPECIFICATION Spec
CONSTANTS
  FrameStoreSize = 6
  VarStoreSize = 2
  MaxPid = 2
  Script <- WithTrailing
  Var = {x, y}
  Value = {d}
  None = None
PROPERTY
  RunReturns
