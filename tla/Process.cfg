SPECIFICATION FairSpec
CONSTANTS
  Configured = {0, 1, 2}
  Second = 3
  Word = 16
  MaxChunks = 3
  PipeSize = 2
  CallsFail = TRUE
  Signals = TRUE
INVARIANTS
  TypeOK
  OutputComplete
  ResultIsChildsEnd
  KillReachesChild
  VictimOnlyWhenOverdue
PROPERTIES
  NoKillAfterReturn
  RunReturns
CHECK_DEADLOCK FALSE
