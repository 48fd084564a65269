CONSTANTS
  MaxCommands = 1
SPECIFICATION ExecutorSpec
CHECK_DEADLOCK FALSE
INVARIANTS
  FailureIsSurvived
