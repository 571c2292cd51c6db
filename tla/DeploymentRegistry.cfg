SPECIFICATION RegistrySpec
SYMMETRY JobNodeSymmetry
CONSTANTS
  Jobs = {j1, j2, j3}
  Targets = {t1, p1}
  PreviewTargets = {p1}
  None = None
  Partial = Partial
  Services = {svc}
  ServiceOf <- OneService
  Nodes = {n1, n2}
  MaxAttempts = 2
  AttemptBound = 4
  CleanupRequests = {"preview_cleanup", "first_deploy_cleanup"}
  MaxRetired = 1
INVARIANTS
  RegistryTypeOK
  SoleOwner
  OwnerHoldsRow
  CancelledNeverRuns
PROPERTIES
  TerminalResultIsFinal
  NoLeaseTheft
CHECK_DEADLOCK FALSE
CONSTRAINT ThirdJobFollowsSuccess
