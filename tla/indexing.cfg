SPECIFICATION Spec
CONSTANTS
  Keys <- MCKeys
  Clients = {c1, c2}
  QueueSize = 2
  IndexMaxRetries = 1
  MaxCommits = 3
  MaxFaults = 1
  MaxRebuilds = 1
INVARIANTS
  IndexingTypeOK
  
PROPERTIES
  QuietRebuildReconciles
  QueueDrains
CHECK_DEADLOCK FALSE
