SPECIFICATION Spec
CONSTANTS
  MaxCount = 2
  MaxPool = 3
  MaxPending = 10
INVARIANTS FitsItsLength StubsComplete PoolReleased
CHECK_DEADLOCK FALSE
