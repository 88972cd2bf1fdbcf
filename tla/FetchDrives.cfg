SPECIFICATION Spec
CONSTANTS
  OldFiles <- SomeFiles
  OldMounts <- SomeMounts
  N = 2
  CallsFail = FALSE
  WritesFail = FALSE
INVARIANTS
  MultipleDrivesSupported
CHECK_DEADLOCK FALSE
