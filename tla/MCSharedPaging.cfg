CONSTANTS
  FrameStoreSize = 18
  Script <- MCScript
  Missing = "none"
  Execs <- MCExecs
  MaxPrompt = 3
SPECIFICATION Spec
INVARIANTS
  TypeOK
  LivePagesHold
  NoProcessLost
  ExecutedInOrder
  UndefinedNeedsShortPage
PROPERTY
  Returns
CHECK_DEADLOCK FALSE
