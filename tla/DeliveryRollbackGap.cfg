SPECIFICATION DeliverySpec
CONSTANTS
  Shapes <- ThreeApps
  MaxApps = 3
  MaxAttempts = 1
  KnownGoods = {{1, 3}}
  Workers = {w1}
  MaxApprovals = 1
  MaxPlans = 1
  Commits = {1}
  MaxSurprises = 1
  BuildRequests = {j1}
  BuildAttempts = {t1}
  Strategies = {"auto"}
  MaxRebinds = 1
  SigningKeys = {k1}
  TTL = 1
  Life = 3
  MaxTime = 3
CONSTRAINT BuiltAtOnce
CHECK_DEADLOCK FALSE
INVARIANT RollbackIsComplete
