SPECIFICATION FairSpec
CONSTANTS
  Pollers = {p1, p2}
  MaxBytes = 5
  RecordSizes = {2, 3}
  OverflowSize = 2
  Caps = {1, 3, 6}
  MaxPushes = 3
INVARIANTS
  BytesExact
  Conservation
  NoSilentGap
  InOrder
  NoLostWakeup
PROPERTIES
  ImplementsStream
  ClosedPollsReturn
