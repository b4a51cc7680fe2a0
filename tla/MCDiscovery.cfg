SPECIFICATION Spec
CONSTANTS
  Peers = {p1, p2, p3}
  Addrs = {x, y}
  Queries = {q1}
  MaxPeers = 2
  MaxAddresses = 1
  MaxSample = 2
  MaxReported = 1
INVARIANTS
  TypeOK
  BookAgrees
  EndsOnce
  SampleRotates
PROPERTIES
  QueriesAnswered
