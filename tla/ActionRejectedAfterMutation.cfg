SPECIFICATION Spec
CONSTANTS
  Actions = {a1, a2}
  Targets = {t1}
  Devices = {d1}
  Calls = {c1, c2}
  MaxVersions = 3
  MaxFailures = 1
CHECK_DEADLOCK FALSE
INVARIANTS
  BegunIsResolvedFactually
