SPECIFICATION Spec
CONSTANTS
  N = 2
  Direct <- MCDirect
  Anchored <- MCDirect
  VideoModels = {veo, demo}
  DemoModels = {demo}
  VisionModels = {gpt}
  WorldStates = {w0}
  AutoContinuity = TRUE
  MaxAuto = 3
  NoValue = NoValue
  Crashes = TRUE
  Deletes = TRUE
  Rendered = FALSE
  MaxOps = 4
INVARIANTS
  TypeOK
  QueuedIdsExact
  NoWorkWithoutWorker
  RetryBudget
  AttemptCountedFirst
  ReadyMeansAllReady
PROPERTIES
  StatusesStayTrue
  RequestTaken
  LeavesWithVerdict
  AcceptedAgainstCurrentFrame
CHECK_DEADLOCK FALSE
