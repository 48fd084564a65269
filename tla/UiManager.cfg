CONSTANTS
  MaxClients = 4
  MaxTurns = 4
  MaxPresses = 3
  PluginNames = {p1}
  AgentIds = {a1}
SPECIFICATION UiSpec
INVARIANTS
  UiTypeOK
  ConnectedIsBacked
  NothingLingers
  ListsFollowCalls
PROPERTIES
  PanelIsTrue
