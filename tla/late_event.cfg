SPECIFICATION Spec
CONSTANTS
  EventIds = {1, 2, 3}
  Times = {1, 2}
  Zones = {"naive"}
  Bodies = {"x"}
  SnapshotEvery = 2
  InOrder = FALSE
  MayCrash = FALSE
INVARIANT
  ReadIsWhole
