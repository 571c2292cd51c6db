SPECIFICATION Spec
CONSTANTS
  Reviews = {v1}
  Cutovers = {c1, c2}
  Rollbacks = {r1}
  Finalizations = {f1}
  MaxRevisions = 3
  MaxChanges = 1
  MaxLeases = 2
  MaxUpsets = 1
  MaxPosted = 1
INVARIANT FinalizedStaysOnTarget
CHECK_DEADLOCK FALSE
