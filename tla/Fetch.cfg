SPECIFICATION FairSpec
CONSTANTS
  OldFiles <- SomeFiles
  OldMounts <- SomeMounts
  N = 3
  CallsFail = TRUE
  WritesFail = TRUE
INVARIANTS
  TypeOK
  EndsAsGuestAgentAssumes
  NothingLeftMounted
  MissedOnlyAfterRemoval
PROPERTIES
  SystemDriverKept
  FetchEventuallyEnds
CHECK_DEADLOCK FALSE
