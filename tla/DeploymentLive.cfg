SPECIFICATION LiveSpec
CONSTANTS
  Jobs = {j1, j2}
  Targets = {t1}
  PreviewTargets = {}
  None = None
  Partial = Partial
  KeepLimit = 2
  MaxFaults = 1
  RollbackMayTimeOut = TRUE
  Services = {svc}
  ServiceOf <- OneService
  Nodes = {n1}
  MaxAttempts = 2
  AttemptBound = 2
  CleanupRequests = {}
  MaxRetired = 0
  MaxLosses = 0
  SecretsMayFail = TRUE
PROPERTIES
  EveryRolloutEnds
  EveryJobSettles
CHECK_DEADLOCK FALSE
