SPECIFICATION FairSpec
CONSTANTS
  Workers = {w1, w2, w3}
  Producers = {p1, p2}
  DefaultLimit = 1
  Limits = {1, 3}
  MaxTasks = 3
  MaxCalls = 4
INVARIANTS
  TypeOK
  CountsAreExact
  TasksAreAccountedFor
  NobodyLeftAfterShutdown
PROPERTIES
  ImplementsTaskQueue
  TasksAreRun
  ShutdownEnds
CHECK_DEADLOCK FALSE
