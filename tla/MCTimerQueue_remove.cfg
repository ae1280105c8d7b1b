SPECIFICATION TimerSpec
CONSTANTS
  Alarm = TRUE
  Created = {0, 1}
  Requests <- MCDeadlines
  MayRemove = TRUE
  MaySuspend = FALSE
  MaxEvents = 2
  LastTime = 4
INVARIANTS
  RemovedIsNotRun
CHECK_DEADLOCK FALSE
