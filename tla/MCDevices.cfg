SPECIFICATION MCSpec
CONSTANTS
  outer = outer
  middle = middle
  inner = inner
  Threads = {t1, t2, t3}
  NoThread = NoThread
  Mutexes = {outer, middle, inner}
  NoMutex = NoMutex
  Order <- MCOrder
  Watched = {t1, t2, t3}
  Depth = 2
  NestedWaits = FALSE
  FrameCount = 3
  FrameCountP2 = 4
  IndexMod = 8
  Readers = {r1}
  Throttler = r1
  NoReader = NoReader
  Writer = Writer
  FlushReaders = {}
  SingleProcess = TRUE
  WriterCalls <- MCMixedWriter
  ReaderCalls <- MCMixedReader
  Sizes = {2}
  WriterLevels <- MCWakeOnNonEmpty
  ReaderLevels <- MCWakeOnNonFull
  Misuse = FALSE
  Signals = FALSE
  MaxFrames = 7
  Eac3 = TRUE
  Substreams = 2
  BlocksPerFrame = 1
  BlocksPerBurst = 2
  BurstWords = 10
  BufferWords = 10
  HeaderWords = 1
  FrameSizes = {1, 2}
  InputCounts = {0, 7}
  ReadSizes = {7}
  LinkFrames = 9
  mCsdWindowSeconds = 4
  MinRecord = 6
  Doses = {1, 4}
  Seconds = {0, 1, 2, 3}
  MaxLength = 2
  MaxCalls = 4
INVARIANTS
  NotesAreRight
  NoMutexCycle
  DeadlockIsFound
  IndInv
  SlicesDisjoint
  UnreadFramesIntact
  LinkDelivers
  LevelsAreSums
PROPERTIES
  StreamSpec
  ErrorsAreListed
  ObtainRespectsEffectiveSize
SYMMETRY MCMutexSymmetry
CONSTRAINTS
  MCDeadlockOnly
  MCLevelsEarly
CHECK_DEADLOCK FALSE
