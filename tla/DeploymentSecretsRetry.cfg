SPECIFICATION DeploymentSpec
SYMMETRY JobSymmetry
CONSTANTS
  Jobs = {j1}
  Targets = {t1}
  PreviewTargets = {}
  None = None
  Partial = Partial
  KeepLimit = 2
  MaxFaults = 0
  RollbackMayTimeOut = FALSE
  Services = {svc}
  ServiceOf <- OneService
  Nodes = {n1}
  MaxAttempts = 2
  AttemptBound = 2
  CleanupRequests = {}
  MaxRetired = 0
  MaxLosses = 1
  SecretsMayFail = TRUE
INVARIANTS
  TruthfulResult
CHECK_DEADLOCK FALSE
