SPECIFICATION FairSpec
CONSTANTS
  Base = Base
  A = A
  B = B
  Sys = Sys
  NoClass = NoClass
  Threads = {t1, t2}
  Main = t1
  Classes <- MCClasses
  Parent <- MCParent
  WithClinit <- MCWithClinit
  Banned = {}
  Deferred <- MCDeferred
  MaxUses = 2
INVARIANTS
  TypeOK
  NoRecursiveInitialization
  OneRunPerThread
  ParentBegunFirst
  InitializedMeansRun
PROPERTY EveryUseReturns
CHECK_DEADLOCK FALSE
