SPECIFICATION MCFairSpec
CONSTANTS
  NObjects = 3
  MaxRefs = 2
  Kind <- AllKinds
INVARIANTS
  TypeOK
  NothingDangles
  GraphPreserved
  GarbageDropped
PROPERTIES
  CollectionEnds
CHECK_DEADLOCK FALSE
