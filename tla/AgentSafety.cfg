SPECIFICATION FairSpec
CONSTANTS
  ScriptCodes <- SeenCodes
  Interrupts = TRUE
  SystemFails = TRUE
  WritesFail = TRUE
  Adapters = 2
  Media <- AllMedia
  MaxPowerCuts = 1
INVARIANTS
  TypeOK
  FetchBeginsAsScanAssumes
  CompleteMeansNoFailedStep
  FailureIsRecorded
  AgentRecoverable
  CfgpreNotRepeated
PROPERTIES
  RebootLoopOnlyWhenUnrecorded
  RemovedOnlyWhenComplete
  EventuallySpecialized
  ImplementsLifecycle
CHECK_DEADLOCK FALSE
