SPECIFICATION Spec
CONSTANTS
  EventIds = {1, 2, 3, 4}
  Times = {1}
  Zones = {"naive"}
  Bodies = {"x"}
  SnapshotEvery = 2
  InOrder = TRUE
  MayCrash = TRUE
INVARIANT
  TargetIsAhead
