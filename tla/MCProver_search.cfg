CONSTANTS
  a = a
  b = b
  c = c
  d = d
  e = e
  NoWorld = NoWorld
  WorldsIn <- GraphWorlds
  StepIn <- GraphStep
  Problems <- SearchProblems
  Claims <- AllClaims
SPECIFICATION Spec
CHECK_DEADLOCK FALSE
INVARIANTS TreeOfSteps BreadthFirst ExhaustiveIsExact
INVARIANTS ReachVerdictsTrue LiveVerdictsTrue WitnessesReplay
PROPERTY Terminates
