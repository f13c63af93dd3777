CONSTANTS
  a = a
  b = b
  c = c
  d = d
  e = e
  NoWorld = NoWorld
  WorldsIn <- GraphWorlds
  StepIn <- GraphStep
  Problems <- GraphProblems
  Claims <- AllClaims
SPECIFICATION Spec
CHECK_DEADLOCK FALSE
INVARIANT LocksAreReal
