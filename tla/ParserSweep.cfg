SPECIFICATION Spec
CONSTANTS
  None = None
  Absent = Absent
  Machines <- SomeMachines
  Versions = {"2.31", "2.37"}
  MaxChanges = 2
  Items <- AllItems
  MaxItems = 3
  BootIds <- Ids
INVARIANTS StorageTypeOK EveryFactWasTrue QuietReadIsTrue MountsAgree LostOnlyForCause ParentsFirst
INVARIANTS OutputTypeOK NoRowIsDropped LastLineCounts
CHECK_DEADLOCK FALSE
