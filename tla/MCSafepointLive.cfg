SPECIFICATION FairSpec
CONSTANTS
  Threads = {main, c1, c2}
  Main = main
  Monitors = {m1}
  NoThread = nobody
  GcThreshold = 2
  MaxOps = 2
INVARIANTS
  StartedThreadsRegistered
PROPERTIES
  CollectionCompletes
  StarterReturns
CHECK_DEADLOCK FALSE
