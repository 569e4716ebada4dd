SPECIFICATION FairSpec
CONSTANTS
  N = 3
  Chunks = 1
  BatchSize = 2
  Attempts = 2
  MaxJobs = 2
  MaxStarts = 3
  Online = 2
  MaxCrashes = 1
  Builds = {1, 2}
  Held = FALSE
  NoFile = NoFile
  NoWrite = NoWrite
  NoProject = NoProject
INVARIANTS
  AnalysisTypeOK
  ActiveIsListed
  NothingAskedTwice
  AnchorIsPredecessor
PROPERTIES
  PublishedWhole
  ProgressKept
  JobEnds
CHECK_DEADLOCK FALSE
