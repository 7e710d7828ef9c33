SPECIFICATION FairSpec
CONSTANTS
  Key <- OneKey
  Val = {a}
  NoRow = norow
  Opaque = opaque
  Writer = {w1}
  PollerTicks = TRUE
  SealAt = 2
  BatchSize = 1
  Depth = 1
  MaxWrites = 2
  MaxOdd = 1
  MaxSnaps = 1
  MaxRestores = 1
  MaxRestarts = 1
  MaxFaults = 1
CHECK_DEADLOCK FALSE
INVARIANTS
  NothingLost
  SnapshotComplete
PROPERTIES
  RestoreQuiesced
  LogDrains
