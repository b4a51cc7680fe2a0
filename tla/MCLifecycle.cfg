SPECIFICATION FairSpec
CONSTANTS
  Callers = {c1, c2}
  MaxCommands = 2
INVARIANTS
  TypeOK
  StartSaysWhy
  AcceptedIsHandled
PROPERTIES
  CallsReturn
CHECK_DEADLOCK FALSE
