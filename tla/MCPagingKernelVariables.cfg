SPECIFICATION Spec
CONSTANTS
  FrameStoreSize = 12
  VarStoreSize = 2
  MaxPid = 2
  Script <- PlainScripts
  Var = {x, y}
  Value = {d}
  None = None
PROPERTY
  VariablesKept
