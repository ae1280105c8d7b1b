SPECIFICATION FifoSpec
CONSTANTS
  FrameCount = 3
  FrameCountP2 = 4
  IndexMod = 8
  Readers = {r1}
  Throttler = r1
  NoReader = NoReader
  Writer = Writer
  FlushReaders = {}
  SingleProcess = TRUE
  WriterCalls <- MCLoopWriter
  ReaderCalls <- MCLoopReader
  Sizes = {}
  WriterLevels <- MCWakeOnNonEmpty
  ReaderLevels = {}
  Misuse = FALSE
  Signals = FALSE
  MaxFrames = 8
INVARIANTS
  NoLostReaderWakeup
CHECK_DEADLOCK FALSE
