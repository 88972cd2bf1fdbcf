SPECIFICATION Spec
CONSTANTS
  ScriptCodes <- AllCodes
  Interrupts = TRUE
  SystemFails = TRUE
  WritesFail = FALSE
  Adapters = 2
  Media <- PlainMedia
  MaxPowerCuts = 2
INVARIANTS
  CriticalFailureStops
CHECK_DEADLOCK FALSE
