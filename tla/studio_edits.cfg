SPECIFICATION StudioSpec
CONSTANTS
  N = 2
  Direct <- MCDirect
  Anchored <- MCDirect
  VideoModels = {veo, sora}
  DemoModels = {}
  VisionModels = {gpt}
  WorldStates = {w0}
  AutoContinuity = TRUE
  MaxAuto = 1
  Crashes = TRUE
  Deletes = TRUE
  Rendered = TRUE
  MaxOps = 2
  Held = {}
  MaxMerges = 1
  NoValue = NoValue
INVARIANTS
  ReadyIsAsWritten
PROPERTIES
  WorkerKeepsEdits
  EditsWaitForRender
SYMMETRY MCValues
CHECK_DEADLOCK FALSE
