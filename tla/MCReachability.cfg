SPECIFICATION Spec
CONSTANTS
  Relays = {r1, r2, r3}
  Addrs = {lan, any}
  Loopback = lan
  Unspecified = any
  Listeners = {l1, l2, l3}
  NoListener = none
  MaxReservations = 2
  MaxCandidates = 2
  RetryTicks = 1
INVARIANTS
  TypeOK
  ReservationsBacked
  AnnouncesMatch

  
