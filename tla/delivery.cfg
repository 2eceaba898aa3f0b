SPECIFICATION DeliverySpec
CONSTANTS
  EventIds = {1, 2, 3}
  Times = {1, 2}
  Zones = {"naive"}
  Bodies = {"x", "y"}
  SnapshotEvery = 2
  InOrder = FALSE
  MayCrash = TRUE
  Outbox <- MCOutbox
  MaxFaults = 3
INVARIANTS
  ExactlyOnce
PROPERTY
  Delivered
