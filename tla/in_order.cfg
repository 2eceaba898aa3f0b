SPECIFICATION Spec
CONSTANTS
  EventIds = {1, 2, 3, 4}
  Times = {1, 2}
  Zones = {"naive"}
  Bodies = {"x"}
  SnapshotEvery = 2
  InOrder = TRUE
  MayCrash = TRUE
INVARIANTS
  SnapshotIsPrefix
  ReadIsWhole
PROPERTY
  ImplementsJournal
