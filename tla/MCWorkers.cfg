SPECIFICATION MCSpec
CONSTANTS
  Waiters = {w1}
  Delays <- MCDelays
  MaxCommands = 4
  MaxTime = 2
  RingSize = 3
  MaxMelValues = 2
  Rs1 = 80
  Rs2 = 100
  Levels = {70, 90, 101}
  NoReport = NoReport
  MaxMels = 3
  MaxPauses = 1
  FrameCount = 3
  FrameCountP2 = 4
  IndexMod = 8
  Readers = {r1}
  Throttler = r1
  NoReader = NoReader
  Writer = Writer
  FlushReaders = {}
  SingleProcess = TRUE
  WriterCalls <- MCLoopWriters
  ReaderCalls <- MCLoopReaders
  Sizes = {}
  WriterLevels = {}
  ReaderLevels = {}
  Misuse = FALSE
  Signals = TRUE
  MaxFrames = 7
  Alarm = TRUE
  Created = {0, 1}
  Requests <- MCDeadlines
  MayRemove = TRUE
  MaySuspend = TRUE
  MaxEvents = 3
  LastTime = 4
INVARIANTS
  EachCommandInOnePlace
  RunsInOrder
  WorkerSleepsOnlyWithoutWork
  NoLostWakeup
  IndexAgrees
  RunsOnceOrNever
  TimerArmedForNext
PROPERTIES
  WaitCoversEarlierCommands
  EveryCommandRuns
  EverybodyReturns
  ReportsWhatIsDue
  MelQueueSpec
  CallersReturn
  EveryFrameIsRead
  EventsRunUnlessReadBlocks
  DestructorReturns
CHECK_DEADLOCK FALSE
