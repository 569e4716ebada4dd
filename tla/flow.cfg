SPECIFICATION Spec
CONSTANTS
  Threads = {worker, route}
  Worker = worker
  Uploaders = {worker}
  Projects = {p1}
  MaxClicks = 3
  MaxParts = 2
  Nothing = Nothing
INVARIANTS
  OwnResult
  PartsMeet
PROPERTY
  TakenOnce
CHECK_DEADLOCK FALSE
