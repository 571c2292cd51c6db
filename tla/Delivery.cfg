SPECIFICATION DeliverySpec
CONSTANTS
  Shapes <- SmallShapes
  MaxApps = 2
  MaxAttempts = 2
  KnownGoods = {{1}}
  Workers = {w1, w2}
  MaxApprovals = 1
  MaxPlans = 2
  Commits = {1, 2}
  MaxSurprises = 1
  BuildRequests = {j1, j2}
  BuildAttempts = {t1, t2}
  Strategies = {"auto", "dockerfile", "buildpack"}
  MaxRebinds = 1
  SigningKeys = {k1, k2}
  TTL = 1
  Life = 3
  MaxTime = 3
SYMMETRY DeliverySymmetry
CHECK_DEADLOCK FALSE
INVARIANTS
  RunDeploysWhatWasApproved
  RunEndsTruthfully
  BuildsAreAccountedFor
  NothingOutlivesItsEnd
PROPERTIES
  RunsStayFinished
