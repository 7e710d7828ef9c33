SPECIFICATION Spec
CONSTANTS
  Key <- Keys
  Val = {a}
  NoRow = norow
  Opaque = opaque
  Writer = {w1, w2}
  PollerTicks = TRUE
  SealAt = 1
  BatchSize = 2
  Depth = 1
  MaxWrites = 2
  MaxOdd = 0
  MaxSnaps = 0
  MaxRestores = 0
  MaxRestarts = 0
  MaxFaults = 0
CHECK_DEADLOCK FALSE
INVARIANTS
  NothingLost
