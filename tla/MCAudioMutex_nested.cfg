SPECIFICATION MutexSpec
CONSTANTS
  outer = outer
  middle = middle
  inner = inner
  Threads = {t1, t2, t3}
  NoThread = NoThread
  Mutexes = {outer, middle, inner}
  NoMutex = NoMutex
  Order <- MCOrder
  Depth = 2
  NestedWaits = TRUE
  Watched = {t1, t2, t3}
INVARIANTS
  NoMutexCycle
SYMMETRY MCMutexSymmetry
CHECK_DEADLOCK FALSE
CONSTRAINT MCDeadlockOnly
