SPECIFICATION Spec
CONSTANTS
  NoTool = NoTool
  Tools <- AllTools
  Timeout <- Defaults
  ToolSets <- NothingAnswers
  LastTick = 1
  MaxBacks = 1
  Hosts <- Machines
  Settings <- Conditions
  Doctors <- WaysToAsk
  Budgets <- HalfAMinute
  MaxCommands = 1
INVARIANTS BudgetIsKept
CHECK_DEADLOCK FALSE
