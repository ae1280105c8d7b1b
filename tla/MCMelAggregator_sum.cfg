SPECIFICATION Spec
CONSTANTS
  mCsdWindowSeconds = 4
  MinRecord = 6
  Doses = {1, 4}
  Seconds = {0, 1, 2, 3}
  MaxLength = 2
  MaxCalls = 4
INVARIANTS
  CurrentCsdIsSum
