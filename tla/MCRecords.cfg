SPECIFICATION MCSpec
CONSTANTS
  a = a
  b = b
  Packets <- MCPackets
  EntryCapacity <- MCEntryCapacity
  DataCapacity <- MCDataCapacity
  TypeSize <- MCTypeSize
  Values = {x, y}
  Counts = {1, 3}
  UpdateCounts = {1, 3}
  SortedIsFilled = TRUE
  Buffers = {p1, p2}
  NoBuffer = NoBuffer
  DefaultSize = 8
  MaxSize = 32
  KeyType <- MCKeyType
  TextSizes = {5, 9}
  TextLenMax = 5
  RawSizes = {0, 3}
  Payloads = {x, y}
  Channels = {c1}
  FrameCount = 3
  FrameCountP2 = 4
  IndexMod = 16
  Readers = {r1, r2}
  Throttler = NoReader
  NoReader = NoReader
  Writer = Writer
  FlushReaders = {r2}
  SingleProcess = TRUE
  WriterCalls <- MCStreamWriter
  ReaderCalls <- MCLappedReader
  Sizes = {}
  WriterLevels = {}
  ReaderLevels = {}
  Misuse = TRUE
  Signals = FALSE
  MaxFrames = 6
  int = int
  enum = enum
  tlv = tlv
  Controls <- MCControls
  Kind <- MCKind
  NumValues <- MCNumValues
  MixerStart <- MCMixerStart
  Names = {p1, p2}
  NoPath = NoPath
  CtlTags <- MCCtlTags
  MaxTags = 5
  MaxActive = 2
INVARIANTS
  StructureValid
  DataPacked
  FindIsExact
  BuiltBuffersPassCheck
  IndicesMatchTotals
  ReadersBehindWriter
  ActiveCountExact
  SettledControls
  IdleControlsAreReset
PROPERTIES
  SharedControlsAreKept
  ListSpec
  RadioListSpec
  NothingOverwrittenIsHandedOut
SYMMETRY MCAllSymmetry
CONSTRAINT MCFew
