SPECIFICATION StudioSpec
CONSTANTS
  N = 1
  Direct <- MCDirect
  Anchored <- MCDirect
  VideoModels = {veo}
  DemoModels = {}
  VisionModels = {gpt}
  WorldStates = {w0}
  AutoContinuity = TRUE
  MaxAuto = 1
  Crashes = FALSE
  Deletes = FALSE
  Rendered = FALSE
  MaxOps = 3
  Held = {"master"}
  MaxMerges = 0
  NoValue = NoValue
INVARIANTS
  MastersNeverMix
CHECK_DEADLOCK FALSE
