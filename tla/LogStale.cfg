SPECIFICATION Spec
CONSTANTS
  Threads = {t1}
  Updater = updater
  Nobody = nobody
  Handles = {"h1"}
  ModuleOf <- OnlyCore
  Modules <- AllModules
  Texts <- GoodTexts
  Severity = {5}
  Default = 2
  MaxEdits = 1
  MaxCalls = 0
INVARIANTS
  ThresholdIsRefreshed
CHECK_DEADLOCK FALSE
