SPECIFICATION Spec
CONSTANTS
  MaxLocals = 2
  ShortForms = {1}
  MaxCells = 2
  Elements = {2}
  Kinds = {"double"}
  Numbers = {0}
  MaxBoxes = 3
  MaxPointers = 4
  MaxKept = 1
  MaxStack = 3
  MaxFrames = 2
  AllPrograms = FALSE
INVARIANTS StoredLocalsAreOwned
PROPERTIES ImplementsJava
CHECK_DEADLOCK FALSE
