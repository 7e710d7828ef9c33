SPECIFICATION FairSpec
CONSTANTS
  a1 = a1
  a2 = a2
  b1 = b1
  a = a
  b = b
  Conn = {a1, a2, b1}
  Uid = {a, b}
  Owner <- Owners
  Policies <- AllowlistAndNone
  MaxConnections = 2
  MaxConnectionsPerUid = 1
  RatePerUid = 1
  Second = 1
  ReadIdle = 1
  WriteIdle = 1
  Window = 2
  None = None
INVARIANTS
  TypeOK
  GateMatches
  RateBounded
  OnlyFloodersThrottled
  JobsHonest
PROPERTIES
  ConnectionsMove
