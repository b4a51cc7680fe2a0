SPECIFICATION Spec
CONSTANTS
  Calls = {c1}
  Peers = {me, a, b, d}
  Local = me
  Groups = {g}
  AnyNode = AnyNode
  Nobody = Nobody
  MaxRemembered = 1
INVARIANTS
  NoStuckCall
  ExhaustsBeforeFailing
  MemoryBounded
  ClosedFormIsLoop
PROPERTIES
  ImplementsContract
  Answered
