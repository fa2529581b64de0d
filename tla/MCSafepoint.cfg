SPECIFICATION Spec
CONSTANTS
  Threads = {main, c1, c2}
  Main = main
  Monitors = {m1, m2}
  NoThread = nobody
  GcThreshold = 3
  MaxOps = 3
SYMMETRY Children
INVARIANTS
  TypeOK
  WorldStopped
  NoMonitorAcrossCollection
  HeapOutlivesThreads
PROPERTIES
  ResumeOnlyAfterGc
CHECK_DEADLOCK FALSE
