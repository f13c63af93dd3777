CONSTANTS
  I64Min <- MinI64
  I64Max = 7
  MaxEventArg = 3
  Quantum = 4
  DefaultRate = 3
  DefaultMaxHealth = 2
  Replays <- MistypedDoorReplays
SPECIFICATION Spec
CHECK_DEADLOCK FALSE
INVARIANT AcceptedNeverCrashes
