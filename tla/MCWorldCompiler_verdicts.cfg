CONSTANTS
  smith = smith
  mason = mason
  arch = arch
  wall = wall
  hut = hut
  iron = iron
  clay = clay
  siege = siege
  truce = truce
  riot = riot
  maze = maze
  NoScenario = NoScenario
  Spoiled = Spoiled
  Empty = Empty
  Forged = Forged
  Compilers = {smith}
  Docs = {arch, wall, hut}
  Recipes = {iron, clay}
  RecipeOf <- SomeRecipes
  Honoured = {arch, wall}
  WorldDocs = {siege, truce, riot, maze}
  WorldVerdict <- SomeVerdicts
  Jobs <- Recompile
  MaxDocs = 2
  MaxTampers = 1
  MaxCrashes = 0
SPECIFICATION CompilerSpec
CHECK_DEADLOCK FALSE
INVARIANT EditedVerdictsInvalidate
