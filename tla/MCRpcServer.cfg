CONSTANTS
  Groups = {g}
  Peers = {p}
  Prefixes = {x}
  Unknown = Unknown
  Blocked = Blocked
  Classes = {Unknown, Blocked}
  Relayed = Relayed
  Global = Global
  Protocols = {"rpc", "topics"}
  AnyProtocol = AnyProtocol
  RuleIds <- MCRuleIds
  Rates <- MCRates
  MaxBuckets = 1
  MaxAge = 2
  Requests = {r1}
  RequestInputs <- MCRequestInputs
SPECIFICATION FairSpec
INVARIANTS
  TypeOK
  LikeUnswept
  ChannelsMatch
PROPERTIES
  RequestsEnd
