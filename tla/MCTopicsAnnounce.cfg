CONSTANTS
  Callers = {c1}
  Keys = {g, k}
  OwnGroup = g
  Idle = Idle
  MaxSubscriptions = 1
  MaxCommands = 1
  AnnounceTopic = announce
  MaxGossip = 1
SPECIFICATION GossipSpec
INVARIANT
  AnnouncementsOnly
