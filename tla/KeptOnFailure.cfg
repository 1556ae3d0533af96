SPECIFICATION Spec
CONSTANTS
  b1 = b1
  b2 = b2
  r1 = r1
  r2 = r2
  NoRoot = NoRoot
  Builds = {b1}
  Roots = {r1}
  LastSecond = 0
  MaxRuns = 1
  Overlap = FALSE
  Faulty = {}
  AutoRoot <- SameDefault
  Found <- JustNothing
  Registered <- DocumentedOrder
  Plans <- FailingConfig
INVARIANTS KeptOnFailure
CHECK_DEADLOCK FALSE
