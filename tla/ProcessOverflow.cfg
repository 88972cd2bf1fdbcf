SPECIFICATION Spec
CONSTANTS
  Configured = {2, 9}
  Second = 3
  Word = 16
  MaxChunks = 1
  PipeSize = 1
  CallsFail = FALSE
  Signals = FALSE
INVARIANTS
  KilledAfterAcceptedWait
CHECK_DEADLOCK FALSE
