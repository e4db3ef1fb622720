CONSTANTS
  Word <- Strings
  Slots = 2
  Deref <- MCDeref
  Typed <- MCTyped
  Words <- WordsOf
  Nothing <- Blank
  Disk <- MCDisk
  OpenMax = 3
  MaxTyped = 5
SPECIFICATION Spec
INVARIANTS
  TypeOK
  IfRunsBranch
PROPERTIES
  ImplementsVariables
  Returns
CHECK_DEADLOCK FALSE
