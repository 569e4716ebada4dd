SPECIFICATION FairSpec
CONSTANTS
  Procs = {p1}
  Interval = 3
  Cooldown = 5
  StaleAge = 4
  LockTimeout = 1
  MaxCrashes = 2
  NoFile = NoFile
PROPERTIES
  RestsBetweenClicks
  GuardIsRespected
  LockIsFreed
CHECK_DEADLOCK FALSE
