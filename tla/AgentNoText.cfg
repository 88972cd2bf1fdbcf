SPECIFICATION Spec
CONSTANTS
  ScriptCodes <- AllCodes
  Interrupts = TRUE
  SystemFails = TRUE
  WritesFail = FALSE
  Adapters = 2
  Media <- ValidMedia
  MaxPowerCuts = 2
INVARIANTS
  XmlStringNotEmpty
CHECK_DEADLOCK FALSE
