SPECIFICATION FairSpec
CONSTANTS
  commit = commit
  rollback = rollback
  s1 = s1
  s2 = s2
  s3 = s3
  m1 = m1
  m2 = m2
  Server = {s1, s2, s3}
  Offers <- SomeOffers
  KeyOrder = {"as served", "shuffled"}
  Words = {"plain"}
  FINGERPRINT_CONCURRENCY = 2
  Timeout = 1
  Pending = Pending
  Call = {commit, rollback}
  Kind <- Kinds
  Tokens <- SomeTokens
  Worlds <- ThreeWorlds
  MaxAttempts = 2
  CommitQueueDepth = 2
  TTL = 1
  MaxStops = 1
  None = None
CHECK_DEADLOCK FALSE
INVARIANTS
  TypeOK
  FanoutBound
  NoSilentDuplicate
  ToolsExact
PROPERTIES
  ApprovalHolds
  QueueEmpties
