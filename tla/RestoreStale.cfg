SPECIFICATION Spec
CONSTANTS
  Key <- Keys
  Val = {a, b}
  NoRow = norow
  Opaque = opaque
  Writer = {w1}
  PollerTicks = FALSE
  SealAt = 2
  BatchSize = 2
  Depth = 1
  MaxWrites = 1
  MaxOdd = 0
  MaxSnaps = 1
  MaxRestores = 0
  MaxRestarts = 0
  MaxFaults = 0
CHECK_DEADLOCK FALSE
INVARIANTS
  RestoreFaithful
