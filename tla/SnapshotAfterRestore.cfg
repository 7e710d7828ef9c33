SPECIFICATION Spec
CONSTANTS
  Key <- OneKey
  Val = {a, b}
  NoRow = norow
  Opaque = opaque
  Writer = {w1}
  PollerTicks = FALSE
  SealAt = 1
  BatchSize = 2
  Depth = 1
  MaxWrites = 2
  MaxOdd = 0
  MaxSnaps = 3
  MaxRestores = 1
  MaxRestarts = 0
  MaxFaults = 0
CHECK_DEADLOCK FALSE
INVARIANTS
  SnapshotCurrent
