SPECIFICATION FairSpec
CONSTANTS
  NoTool = NoTool
  Tools <- AllTools
  Timeout <- Defaults
  ToolSets <- Sweep
  LastTick = 1
  MaxBacks = 1
  Hosts <- Machines
  Settings <- Conditions
  Doctors <- WaysToAsk
  Budgets <- NoBudget
  MaxCommands = 2
INVARIANTS TypeOK NoNeedlessCrash CaveatsExplain OneBadTool DoctorAgrees ChecksIndependent NoOrphan
PROPERTIES Ends
CHECK_DEADLOCK FALSE
