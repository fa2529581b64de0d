SPECIFICATION FairSpec
CONSTANTS
  Threads = {main, c1, c2}
  Main = main
  Monitors = {m1}
  NoThread = nobody
  GcThreshold = 3
  MaxOps = 2
PROPERTIES
  StoppedThreadsAreWoken
CHECK_DEADLOCK FALSE
