SPECIFICATION FairSpec
CONSTANTS
  Threads = {t1, t2}
  Names = {n1}
  Addresses = 3
  NoThread = NoThread
  Anonymous = Anonymous
  NoName = NoName
  MaxGuards = 2
  MaxOps = 3
INVARIANTS
  TypeOK
  MutualExclusion
  HaveLockIsExact
  RefsAreHandles
  NamesLeakOnlyByRace
PROPERTIES
  ThreadsFinish
CHECK_DEADLOCK FALSE
