CONSTANTS
  MaxPosted = 3
SPECIFICATION PluginSpec
\* A client that breaks rules can block the only thread.
CHECK_DEADLOCK FALSE
INVARIANTS
  PluginTypeOK
  ResourcesMatchStatus
  RulesAreEnough
  CountsThisSession
