SPECIFICATION Spec
CONSTANTS
  Eac3 = FALSE
  Substreams = 1
  BlocksPerFrame = 1
  BlocksPerBurst = 2
  BurstWords = 5
  BufferWords = 10
  HeaderWords = 1
  FrameSizes = {1, 2}
  InputCounts = {10}
  ReadSizes = {1, 7}
  MaxFrames = 4
INVARIANTS
  FramesArriveIntact
