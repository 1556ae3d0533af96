SPECIFICATION Spec
CONSTANTS
  NoTool = NoTool
  Tools <- AllTools
  Timeout <- Defaults
  ToolSets <- Sweep
  LastTick = 1
  MaxBacks = 1
  Hosts <- Machines
  Settings <- Conditions
  Doctors <- WaysToAsk
  Budgets <- NoBudget
  MaxCommands = 1
PROPERTIES TimeoutIsLoud
CHECK_DEADLOCK FALSE
