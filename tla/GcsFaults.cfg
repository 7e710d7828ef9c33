CONSTANTS
  Caller = {a, b}
  Inode <- Files
  MaxFaults = 2
  None = None
SPECIFICATION FairSpec
INVARIANTS
  TypeOK
  FailedPutInvisible
PROPERTIES
  NeverCachesUnverified
  CacheHeals
