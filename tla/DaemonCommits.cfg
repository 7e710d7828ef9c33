SPECIFICATION Spec
CONSTANTS
  Client = {c1, c2}
  Branch = {main, dev}
  Main = main
  Commit = {h1, h2}
  Blob = {x1}
  Drainer = drainer
  None = none
  QueueDepth = 2
  MaxCrashes = 1
  MaxLosses = 0
SYMMETRY Symmetry
INVARIANTS
  StoreClosed
  NoPhantomHead
  OutcomeHonest
  DiffSnapshotStable
  SlotsBalanced
  AckedCommitsReachable
PROPERTIES
  ExitInterruptsNobody
  ImplementsHistory
