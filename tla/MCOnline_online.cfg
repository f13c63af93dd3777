CONSTANTS
  Texts <- MCTexts
  MaxTexts = 3
  MaxConnections = 2
  Players = {"p1"}
  Calls <- MCCalls
  Loads <- MCLoads
  PlayerOf <- MCPlayerOf
  Names = {"n1", "n2"}
  PoolSize = 2
  MaxAsked = 2
  GoodCodes = {"g"}
  BadCodes = {"b"}
  MaxJoins = 2
  Horses = {"h", "k"}
  MaxSessions = 3
  Stock = {"h", "k"}
  MaxUpdates = 2
SPECIFICATION OnlineSpec
CHECK_DEADLOCK FALSE
INVARIANTS SessionSafe ApiSafe AnswersAreSure DesksSafe
PROPERTIES GateKeeps WaitsEnd
