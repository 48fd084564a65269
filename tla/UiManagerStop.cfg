CONSTANTS
  MaxClients = 3
  MaxTurns = 2
  MaxPresses = 3
  PluginNames = {p1}
  AgentIds = {a1}
SPECIFICATION UiSpec
INVARIANTS
  StopHolds
