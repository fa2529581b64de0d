SPECIFICATION ShutdownSpec
CONSTANTS
  Threads = {main, c1}
  Main = main
  Monitors = {}
  NoThread = nobody
  GcThreshold = 2
  MaxOps = 3
INVARIANT
  LauncherEndsAlone
PROPERTY
  ExitEnds
CHECK_DEADLOCK FALSE
