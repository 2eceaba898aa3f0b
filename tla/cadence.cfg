SPECIFICATION Spec
CONSTANTS
  EventIds = {1, 2, 3, 4, 5, 6, 7}
  Times = {1}
  Zones = {"naive"}
  Bodies = {"x"}
  SnapshotEvery = 3
  InOrder = TRUE
  MayCrash = FALSE
INVARIANTS
  BoundedTail
  AnsweredVersionCountsLog
