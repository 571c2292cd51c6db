SPECIFICATION EngineSpec
SYMMETRY JobSymmetry
CONSTANTS
  Jobs = {j1, j2, j3, j4}
  Targets = {t1}
  PreviewTargets = {}
  None = None
  Partial = Partial
  KeepLimit = 2
  MaxFaults = 1
  RollbackMayTimeOut = TRUE
INVARIANTS
  EngineTypeOK
  OneActivePerTarget
  CurrentIsVerified
  PreviousStaysAvailable
  KnownGoodRuns
PROPERTIES
  PointerFollowsRuntime
  TerminalIsImmutable
  ImplementsKnownGood
