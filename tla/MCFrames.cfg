SPECIFICATION FairSpec
CONSTANTS
  Exceptions = {e1, e2}
  None = none
  ClinitsThrow = FALSE
  MaxDepth = 4
  MaxLocks = 1
INVARIANTS
  TypeOK
  PcsMatchFrames
  MarksAreConsumed
PROPERTIES
  MonitorsBalanced
  NoExceptionLost
  ExceptionsSettle
CHECK_DEADLOCK FALSE
