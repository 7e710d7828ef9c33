SPECIFICATION Spec
CONSTANTS
  Key <- Keys
  Val = {a}
  NoRow = norow
  Opaque = opaque
  Writer = {w1}
  PollerTicks = TRUE
  SealAt = 2
  BatchSize = 2
  Depth = 2
  MaxWrites = 2
  MaxOdd = 1
  MaxSnaps = 2
  MaxRestores = 0
  MaxRestarts = 1
  MaxFaults = 2
CHECK_DEADLOCK FALSE
INVARIANTS
  TypeOK
  SnapshotCurrent
ACTION_CONSTRAINT PollerInTurn
