SPECIFICATION FairSpec
CONSTANTS
  Threads = {t1, t2}
  Updater = updater
  Nobody = nobody
  Handles = {"h1"}
  ModuleOf <- OnlyCore
  Modules <- AllModules
  Texts <- AllTexts
  Severity = {5}
  Default = 2
  MaxEdits = 2
  MaxCalls = 2
INVARIANTS
  TypeOK
  ThresholdLosesNothing
  MinIsLowerBound
PROPERTIES
  ConfigConverges
CHECK_DEADLOCK FALSE
