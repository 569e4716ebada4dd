SPECIFICATION Spec
CONSTANTS
  Characters = {lan, minh}
  Locations = {station}
  MaxScenes = 3
  MaxEvents = 2
  Acting = {2}
  NoOne = NoOne
  Missing = Missing
SYMMETRY Symmetry
INVARIANTS
  FlashbackIsApart
  GateAgrees
PROPERTIES
  TornStaysTorn
CHECK_DEADLOCK FALSE
