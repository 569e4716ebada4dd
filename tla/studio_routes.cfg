SPECIFICATION StudioSpec
CONSTANTS
  N = 2
  Direct <- MCDirect
  Anchored <- MCDirect
  VideoModels = {veo}
  DemoModels = {}
  VisionModels = {gpt}
  WorldStates = {w0, w1}
  AutoContinuity = TRUE
  MaxAuto = 1
  Crashes = FALSE
  Deletes = FALSE
  Rendered = TRUE
  MaxOps = 2
  Held = {"reference", "images", "master"}
  MaxMerges = 0
  NoValue = NoValue
INVARIANTS
  ReadyStatesMeet
SYMMETRY MCValues
CHECK_DEADLOCK FALSE
