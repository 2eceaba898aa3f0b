SPECIFICATION Spec
CONSTANTS
  EventIds = {1, 2, 3}
  Times = {1, 2}
  Zones = {"naive", "aware"}
  Bodies = {"x", "y"}
  SnapshotEvery = 2
  InOrder = FALSE
  MayCrash = TRUE
INVARIANTS
  TypeOK
  SnapshotsWithinLog
  SnapshotChain
  MemoryWithinLog
  AcceptedIsStored
  OnlyLateEventsAreMissed
PROPERTY
  HistoryImmutable
