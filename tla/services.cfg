CONSTANTS
  Variants = 2
  Retries = 2
  WaitLimit = 2
  RecoveryLimit = 1
  JsonAttempts = 2
  VisionAttempts = 2
  VisionModels = 2
  Keys = {k1}
  EnvKey = NoKey
  MaxAsks = 2
  NoKey = NoKey
  Ops = {o1}
  Models = {v1, v2}
  Kind = "location"
  MaxContents = 2
  MaxLosses = 1
  NoModel = NoModel
  NoPath = NoPath
  Sessions = {s1, s2}
  Workspaces = {w1, w2}
  Slow = FALSE
  NoSpace = NoSpace
SPECIFICATION FairSpec
CHECK_DEADLOCK FALSE
INVARIANTS
  NoDuplicateWork
  InspectedAtRest
  OneBackendPerWorkspace
PROPERTY
  RequestEnds
