SPECIFICATION ExecutionSpec
CONSTANTS
  Execution = {"e1", "e2"}
  MaxEngineSteps = 3
  MaxRetries = 1
  CheckpointInterval = 1
  MaxActions = 2
  MaxRemembered = 2
CHECK_DEADLOCK FALSE
INVARIANTS
  DoneIsCompleted
