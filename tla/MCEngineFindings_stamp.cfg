CONSTANTS
  Shells = {"dev"}
  CommandsOf <- AllCommands
  LockCount = 2
  BaseOf <- TwoBases
  SeriesOf <- TwoSeries
  PortOf <- OnePort
  Newer = "b3"
  Backend = "p"
  Nothing = Nothing
  MaxRuns = 3
  MaxKills = 0
  MaxHands = 0
SPECIFICATION EngineSpec
CHECK_DEADLOCK FALSE
INVARIANT ExportIsThisSeries
