SPECIFICATION Spec
CONSTANTS
  Payloads = {a, b, huge}
  Unsendable = {huge}
  NoPayload = none
  Sources = {s, t}
  Interval = 2
  Burst = 2
  MaxBuckets = 1
  MaxCalls = 3
INVARIANTS
  TypeOK
  SentAsSet
  RateKept
PROPERTIES
  LatestGoesOut
