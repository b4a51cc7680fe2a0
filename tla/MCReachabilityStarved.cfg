SPECIFICATION SteadySpec
CONSTANTS
  Relays = {1, 2, 3}
  Addrs = {any}
  Loopback = any
  Unspecified = any
  Listeners = {l1, l2}
  NoListener = none
  MaxReservations = 1
  MaxCandidates = 3
  RetryTicks = 1
PROPERTY
  StaysReachable
