SPECIFICATION FairSpec
CONSTANTS
  Workers = {w1, w2}
  Producers = {p1, p2}
  DefaultLimit = 2
  Limits = {1}
  MaxTasks = 3
  MaxCalls = 2
PROPERTIES
  QueueTaskWakesAWorker
CHECK_DEADLOCK FALSE
