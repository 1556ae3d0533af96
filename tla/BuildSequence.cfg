SPECIFICATION FairSpec
CONSTANTS
  b1 = b1
  b2 = b2
  r1 = r1
  r2 = r2
  NoRoot = NoRoot
  Builds = {b1, b2}
  Roots = {r1, r2}
  LastSecond = 1
  MaxRuns = 2
  Overlap = FALSE
  Faulty = {}
  AutoRoot <- EachSecond
  Found <- JustNothing
  Registered <- DocumentedOrder
  Plans <- FollowingPlans
INVARIANTS SummaryHonest
PROPERTIES NoTrespass Returns KeepsPromise
CHECK_DEADLOCK FALSE
