CONSTANTS
  Plugins = {"proxy"}
  Interval <- MCInterval
  MaxStarts = 1
  MaxElapsed = 1
SPECIFICATION HostSpec
\* The service stops: after the process has exited no step is left.
CHECK_DEADLOCK FALSE
INVARIANTS
  HostTypeOK
  NoDanglingCall
  ReportsNotClobbered
  PauseAgreesWithScm
PROPERTIES
  HostFollowsProtocol
  StopTerminates
  StartSettles
  PauseReachesClients
