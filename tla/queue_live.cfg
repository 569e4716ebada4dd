SPECIFICATION FairSpec
CONSTANTS
  N = 3
  Direct <- MCChain
  Anchored = {}
  VideoModels = {veo, demo}
  DemoModels = {demo}
  VisionModels = {gpt}
  WorldStates = {w0}
  AutoContinuity = TRUE
  MaxAuto = 2
  Crashes = FALSE
  Deletes = FALSE
  Rendered = FALSE
  MaxOps = 2
  NoValue = NoValue
INVARIANTS
  DemoNeverMerges
PROPERTIES
  QueuedIsProcessed
CHECK_DEADLOCK FALSE
