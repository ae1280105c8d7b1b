SPECIFICATION Spec
CONSTANTS
  a = a
  b = b
  Packets <- MCPackets
  EntryCapacity <- MCEntryCapacity
  DataCapacity <- MCDataCapacity
  TypeSize <- MCTypeSize
  Values = {v1, v2}
  Counts = {1, 3}
  UpdateCounts = {1, 3}
  SortedIsFilled = FALSE
INVARIANT FindIsExact
SYMMETRY MCSymmetry

CONSTRAINT MCFewEntries
