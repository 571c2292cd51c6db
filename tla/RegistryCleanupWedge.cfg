SPECIFICATION RegistrySpec
SYMMETRY JobSymmetry
CONSTANTS
  Jobs = {j1, j2}
  Targets = {t1, p1}
  PreviewTargets = {p1}
  None = None
  Partial = Partial
  Services = {svc}
  ServiceOf <- OneService
  Nodes = {n1}
  MaxAttempts = 1
  AttemptBound = 2
  CleanupRequests = {"preview_cleanup", "first_deploy_cleanup"}
  MaxRetired = 0
INVARIANTS
  ExpiryNeverBlocked
CHECK_DEADLOCK FALSE
