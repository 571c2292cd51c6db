SPECIFICATION ControlPlaneSpec
CONSTANTS
  Apps = {a1, a2}
  Routes <- OneRoute
  Dependencies <- BuildTimeDependencies
  Databases = {d1}
  Keys = {k1}
  ReviewIds = {r1}
  Callers = {c1, c2}
  MaxTroubles = 1
  HostKeys = {h1, h2}
  Sessions = {1, 2}
  Steps = 2
  MaxAttempts = 2
  Plans = {1, 2}
  Repositories = {r1}
  ServiceKeys = {k1}
  Logins = {l1}
  MaxTokens = 3
  MaxMishaps = 1
SYMMETRY ControlPlaneSymmetry
CHECK_DEADLOCK FALSE
INVARIANTS
  ConfigurationIsAsReviewed
  BootstrapIsFactual
  GitHubIsFollowed
  AccessIsSound
