CONSTANTS
  MaxCommands = 4
SPECIFICATION ExecutorSpec
\* A program that has faulted takes no step.
CHECK_DEADLOCK FALSE
INVARIANTS
  ExecutorTypeOK
  TimerGuardsCommand
  NothingLeaks
  OutputIsNotStale
  ReportsFollowEnds
PROPERTIES
  EveryChildEnds
  EveryCommandIsReported
