SPECIFICATION MelSpec
CONSTANTS
  RingSize = 3
  MaxMelValues = 2
  Rs1 = 80
  Rs2 = 100
  Levels = {70, 90, 101}
  NoReport = NoReport
  MaxMels = 4
  MaxPauses = 1
PROPERTIES
  RunsAreContinuous
CHECK_DEADLOCK FALSE
