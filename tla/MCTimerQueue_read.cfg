SPECIFICATION FairTimerSpec
CONSTANTS
  Alarm = TRUE
  Created = {0, 1}
  Requests <- MCDeadlines
  MayRemove = TRUE
  MaySuspend = FALSE
  MaxEvents = 2
  LastTime = 4
PROPERTIES
  EveryEventRuns
CHECK_DEADLOCK FALSE
