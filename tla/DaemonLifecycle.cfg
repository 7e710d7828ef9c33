SPECIFICATION FairSpec
CONSTANTS
  Client = {c1, c2, c3}
  Branch = {main}
  Main = main
  Commit = {h1}
  Blob = {}
  Drainer = drainer
  None = none
  QueueDepth = 2
  MaxCrashes = 0
  MaxLosses = 1
INVARIANTS
  TypeOK
  ServedTipsPresent
PROPERTIES
  RequestsEnd
  ShutdownCompletes
