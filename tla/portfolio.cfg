SPECIFICATION PortfolioSpec
CONSTANTS
  EventIds = {1, 2, 3}
  Times = {1}
  Zones = {"naive"}
  Bodies = {"create", "nameless", "buy", "other", "drop", "broken"}
  SnapshotEvery = 2
  InOrder = FALSE
  MayCrash = FALSE
  Command <- MCCommand
INVARIANTS
  ReplayIsTheLoop
  LastWriteWins
PROPERTIES
  SummaryVersionMonotone
  PoisonIsForever
