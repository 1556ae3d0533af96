SPECIFICATION Spec
CONSTANTS
  b1 = b1
  b2 = b2
  r1 = r1
  r2 = r2
  NoRoot = NoRoot
  Builds = {b1, b2}
  Roots = {r1}
  LastSecond = 0
  MaxRuns = 1
  Overlap = TRUE
  Faulty = {"stat", "mkdir", "write", "rmtree"}
  AutoRoot <- SameDefault
  Registered <- DocumentedOrder
  Found <- NothingOrForeign
  Plans <- ContendingPlans
INVARIANTS TypeOK SummaryHonest NeedsWorkspace PrivateWorkspace
PROPERTIES CleanedUp ForeignSurvives
CHECK_DEADLOCK FALSE
