CONSTANTS
  Scripts <- SomeScripts
  InRoom = 1
  OutRoom = 1
  MaxDeaths = 1
  MaxLate = 2
  MaxChatter = 3
  Stems = {"rock"}
  Wanted <- SomeWanted
  Foreign <- SomeForeign
  Prefixes <- SomePrefixes
  Slug <- Slugs
  Labels = {"A", "a"}
  FileOf <- SomeFiles
  Renames <- SomeRenames
  Numbers <- SomeNumbers
  Dots <- SomeDots
  NoOne = NoOne
  NoScene = NoScene
  MaxObjects = 3
  MaxOps = 4
  MaxRestarts = 1
  Master <- SomeMaster
  DataOf <- SomeData
  Lamps = {"sun"}
  Proxies = {"hull"}
  Asked <- SomeAsked
  Panels <- SomePanels
  MaxPictures = 2
  Things <- SomeThings
  Called <- SomeCalled
  TileName <- SomeTile
  SwatchName <- SomeSource
  Imports <- SomeImports
  Colours = {0, 3}
  Grey = 1
  Tolerance = 1
  Rank <- SomeRank
  NoMap = NoMap
  MaxChanges = 3
  Shells = {"dev", "other"}
  CommandsOf <- SomeCommands
  LockCount = 2
  BaseOf <- SomeBases
  SeriesOf <- SomeSeries
  PortOf <- SomePorts
  Newer = "b3"
  Backend = "p"
  Nothing = Nothing
  MaxRuns = 3
  MaxKills = 1
  MaxHands = 1
  Kernels = {"k1", "k2"}
  Urls = {"u1", "u2"}
  NoUrl = "none"
  MaxLoads = 4
SPECIFICATION ToolsSpec
CHECK_DEADLOCK FALSE
INVARIANTS OneBlender CallsAreSettled BuildsOnEachOther ToolsSafe
PROPERTIES StudioKeeps EngineKeeps ToolsEnd
