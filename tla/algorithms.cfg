SPECIFICATION Spec
INVARIANTS ScanSound RankingSound GateSound MarketSound RiskSound HedgeSound OptionsSound StrategiesSound BooksSound
CHECK_DEADLOCK FALSE
