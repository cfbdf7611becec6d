SPECIFICATION MCSpec
CONSTANTS
  Parts = {"sync"}
  NoTable = NoTable
  Designs <- DriftDesigns
  Worlds <- SyncWorlds
  Scripts = {}
  Catalogues <- ReplayWorlds
  MaxRows = 3
  MaxRecorded = 2
  MaxChanges = 1
  MaxBroken = 1
INVARIANT
  FullySynced
CHECK_DEADLOCK FALSE
