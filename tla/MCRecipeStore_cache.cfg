CONSTANTS
  a = a
  b = b
  c = c
  k = k
  j = j
  Spoiled = Spoiled
  Empty = Empty
  Free = Free
  Cooks <- ThreeCooks
  Keys = {k, j}
  Contents = {"same", "other"}
  Bytes <- SomeBytes
  Jobs <- SomeJobs
  CheckRequirement <- Demands
  MaxWaits = 1
  MaxTampers = 1
  MaxCrashes = 1
SPECIFICATION Spec
CHECK_DEADLOCK FALSE
INVARIANTS LockDiscipline AnswersStand BuildsAccountedFor
PROPERTIES KeepsPromise Terminates
