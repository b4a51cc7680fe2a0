CONSTANTS
  Callers = {c1, c2}
  Keys = {g, k}
  OwnGroup = g
  Idle = Idle
  MaxSubscriptions = 1
  MaxCommands = 2
SPECIFICATION Spec
INVARIANT
  RecordKept
