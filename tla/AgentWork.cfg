SPECIFICATION AgentWorkSpec
CONSTANTS
  ResourceTypes = {"postgres","redis"}
  Bindings = {b1}
  Clients = {c1, c2}
  MaxSpecs = 2
  MaxPlans = 1
  MaxLeases = 4
  MaxRequests = 6
  MaxFaults = 1
  BackupIds = {k1}
  RestoreIds = {r1, r2}
  MaxContents = 2
  MaxChanges = 1
  MaxTokens = 5
  MaxUpsets = 1
  Reviews = {w1}
  Rollbacks = {x1}
  Finalizations = {f1}
  MaxRevisions = 3
  Targets = {"t"}
  Devices = {d1}
  MaxVersions = 2
  MaxFailures = 1
  Nodes = {"n1", "n2"}
  Servers = {"n1"}
  Jobs = {"j"}
  MaxAttempts = 2
  MaxPosts = 2
  MaxAccidents = 2
  Codes = {o1, o2}
  MaxSecrets = 4
CHECK_DEADLOCK FALSE
SYMMETRY AgentWorkSymmetry
INVARIANTS
  ResourcesAreFactual
  VolumeOnlyDestroyedOnRequest
  CopiesAreFaithful
  CutoverIsAsReviewed
  MutatedOnceAsApproved
  RemovedIsLockedOut
  SecretsHonoured
