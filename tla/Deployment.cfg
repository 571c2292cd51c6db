SPECIFICATION DeploymentSpec
SYMMETRY JobSymmetry
CONSTANTS
  Jobs = {j1, j2, j3}
  Targets = {t1, p1}
  PreviewTargets = {p1}
  None = None
  Partial = Partial
  KeepLimit = 2
  MaxFaults = 1
  RollbackMayTimeOut = FALSE
  Services = {svc}
  ServiceOf <- OneService
  Nodes = {n1}
  MaxAttempts = 2
  AttemptBound = 2
  CleanupRequests = {"preview_cleanup", "first_deploy_cleanup"}
  MaxRetired = 0
  MaxLosses = 1
  SecretsMayFail = TRUE
INVARIANTS
  TruthfulUnlessUnread
  CloudNeverAhead
  GoodResultIsAccepted
  KnownGoodAgrees
CONSTRAINT ThirdJobFollowsSuccess
CHECK_DEADLOCK FALSE
