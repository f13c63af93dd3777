CONSTANTS
  smith = smith
  mason = mason
  arch = arch
  wall = wall
  hut = hut
  iron = iron
  clay = clay
  siege = siege
  truce = truce
  riot = riot
  maze = maze
  NoScenario = NoScenario
  NoWorld = NoWorld
  Spoiled = Spoiled
  Empty = Empty
  Forged = Forged
  Compilers = {smith, mason}
  Docs = {arch, wall, hut}
  Recipes = {iron, clay}
  RecipeOf <- SomeRecipes
  Honoured = {arch, wall}
  WorldDocs = {siege, truce, riot, maze}
  WorldVerdict <- SomeVerdicts
  Jobs <- SomeJobs
  MaxDocs = 2
  MaxTampers = 1
  MaxCrashes = 1
  I64Min <- MinI64
  I64Max = 7
  MaxEventArg = 3
  Quantum = 4
  DefaultRate = 3
  DefaultMaxHealth = 3
  Projects <- WorldProjects
  WorldsIn <- ProjectWorlds
  StepIn <- ProjectStep
  Problems <- ProjectProblems
  Claims <- WorldClaims
  Files <- SomeFiles
SPECIFICATION WorldcSpec
CHECK_DEADLOCK FALSE
INVARIANTS LockDiscipline ChainBinds AnswersStand
INVARIANTS ExploresTheKernel LoadersAgree
PROPERTY EveryCompileEnds
